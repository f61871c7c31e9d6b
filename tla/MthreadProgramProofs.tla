------------------------ MODULE MthreadProgramProofs ------------------------
(***************************************************************************)
(* Proofs about the programs of MthreadProgram, for any number of threads. *)
(*                                                                         *)
(* The library's inductive invariant Inv holds of them because each of     *)
(* their steps is one of the library's.  PInv adds that the mutex excludes *)
(* the workers; JInv, in the second part, adds what the waits need;        *)
(* Turns, in the third, the order in which the workers take the mutex.     *)
(***************************************************************************)
EXTENDS MthreadProgram, MthreadProofs, WellFoundedInduction

ProgramTypes ==
    /\ pc \in [Tid -> {"lock", "yield", "unlock", "wait", "resumed", "pass", "return", "done"}]
    /\ tids \in Seq(Tid \cup {NULL}) /\ Len(tids) <= N
    /\ waits \in 0 .. N

\* While a worker is inside the critical section the mutex is locked.
InsideLocked == \A t \in Tid : Inside(t) => flag[mutex] = "LOCKED"

Excluded == MutualExclusion /\ InsideLocked

PInv == Inv /\ ProgramTypes /\ Excluded

-----------------------------------------------------------------------------
(* Every step of a program is a step of the library. *)

LEMMA WaitIsStep ==
    ASSUME NEW t, mwait_if_accepted(t)
    PROVE  [Next]_vars
BY DEF mwait_if_accepted, Next

LEMMA ProgramStep == [PNext]_pvars => [Next]_vars
<1> SUFFICES ASSUME [PNext]_pvars PROVE [Next]_vars
  OBVIOUS
<1>1. mutex \in Mutex
  BY ProgramAssumption
<1>2. ASSUME MainCreates PROVE Next
  BY <1>2 DEF MainCreates, Next
<1>3. ASSUME MainWaits PROVE [Next]_vars
  BY <1>3, WaitIsStep DEF MainWaits
<1>4. ASSUME MainReturns PROVE Next
  BY <1>4 DEF MainReturns, Next
<1>5. ASSUME WorkerLocks \/ WorkerYields \/ WorkerUnlocks \/ WorkerReturns \/ ThreadEnds \/ ThreadYields
      PROVE  Next
  BY <1>1, <1>5 DEF WorkerLocks, WorkerYields, WorkerUnlocks, WorkerReturns, ThreadEnds,
     ThreadYields, WorkerCalls, Next
<1>6. ASSUME ThreadWaits PROVE [Next]_vars
  BY <1>6, WaitIsStep DEF ThreadWaits, WorkerCalls
<1>7. ASSUME LibrarySchedules PROVE Next
  BY <1>7 DEF LibrarySchedules, Next
<1>8. ASSUME ProgramEnded \/ UNCHANGED pvars PROVE [Next]_vars
  BY <1>8 DEF ProgramEnded, pvars
<1> QED
  BY <1>2, <1>3, <1>4, <1>5, <1>6, <1>7, <1>8 DEF PNext

LEMMA ProgramInv == PInit => PInv
<1> SUFFICES ASSUME PInit PROVE PInv
  OBVIOUS
<1>1. Inv
  BY InitInv DEF PInit
<1>2. pc \in [Tid -> {"lock", "wait", "pass"}]
  BY DEF PInit, critical_sections, chain_of_waits
<1>3. ProgramTypes
  BY <1>2, EmptySeq, ProgramAssumption, MaxTidAssumption DEF PInit, ProgramTypes
<1>4. Excluded
  BY <1>2 DEF Excluded, MutualExclusion, InsideLocked, Inside
<1> QED BY <1>1, <1>3, <1>4 DEF PInv

-----------------------------------------------------------------------------
(* Types. *)

LEMMA ProgramTypesStep ==
    ASSUME PInv, Inv', [PNext]_pvars
    PROVE  ProgramTypes'
<1>1. ASSUME UNCHANGED <<pc, tids, waits>> PROVE ProgramTypes'
  BY <1>1 DEF PInv, ProgramTypes
<1>2. ASSUME MainCreates PROVE ProgramTypes'
  <2> DEFINE t == nextTid' - 1
             e == IF state'[t] = "READY" THEN t ELSE NULL
  <2>1. nextTid' \in 1 .. MaxTid
    <3>1. PICK p \in PrioArg : mcreate_first(p) \/ mcreate(p)
      BY <1>2 DEF MainCreates
    <3>2. CASE mcreate_first(p)
      <4>1. nextTid' = 2
        BY <3>2 DEF mcreate_first, tcb_init_works, tcb_init_fails
      <4> QED BY <4>1, MaxTidAssumption
    <3>3. CASE mcreate(p)
      <4>1. nextTid \in 1 .. MaxTid - 1 /\ nextTid' = nextTid + 1
        BY <3>3 DEF mcreate, tcb_init_works, tcb_init_fails
      <4> QED BY <4>1, MaxTidAssumption
    <3> QED BY <3>1, <3>2, <3>3
  <2>2. e \in Tid \cup {NULL}
    <3>1. \A n \in 1 .. MaxTid : n - 1 \in Tid
      BY MaxTidAssumption DEF Tid
    <3>2. t \in Tid
      BY <2>1, <3>1
    <3> QED BY <3>2
  <2>3. tids' = Append(tids, e) /\ Len(tids) < N /\ UNCHANGED <<pc, waits>>
    BY <1>2 DEF MainCreates
  <2>4. Append(tids, e) \in Seq(Tid \cup {NULL}) /\ Len(Append(tids, e)) = Len(tids) + 1 /\ Len(tids) \in Nat
    BY <2>2, AppendAt DEF PInv, ProgramTypes
  <2> QED BY <2>3, <2>4, ProgramAssumption DEF PInv, ProgramTypes
<1>3. ASSUME MainWaits PROVE ProgramTypes'
  BY <1>3, ProgramAssumption DEF MainWaits, PInv, ProgramTypes
<1>4. ASSUME NEW from, NEW to, running \in Tid, pc' = [pc EXCEPT ![running] = to],
             to \in {"yield", "unlock", "resumed", "return", "done"}, UNCHANGED <<tids, waits>>
      PROVE  ProgramTypes'
  BY <1>4 DEF PInv, ProgramTypes
<1> QED
  BY <1>1, <1>2, <1>3, <1>4 DEF PNext, MainReturns, LibrarySchedules, ProgramEnded, pvars,
     WorkerLocks, WorkerYields, WorkerUnlocks, WorkerReturns, ThreadWaits, ThreadEnds,
     ThreadYields, WorkerCalls

-----------------------------------------------------------------------------
(* Mutual exclusion. *)

\* Nobody comes to be inside in a step that leaves the mutexes alone.
LEMMA NobodyEnters ==
    ASSUME PInv, flag' = flag, queue' = queue,
           \A t \in Tid : pc'[t] \in {"yield", "unlock"} => pc[t] \in {"yield", "unlock"}
    PROVE  Excluded'
<1>1. \A t \in Tid : Inside(t)' => Inside(t)
  BY DEF Inside, find_thread
<1> QED BY <1>1 DEF PInv, Excluded, MutualExclusion, InsideLocked

\* A running thread is in no queue.
LEMMA RunningNotQueued ==
    ASSUME Inv, running \in Tid, NEW m \in Mutex
    PROVE  ~find_thread(queue[m], running)
BY DEF Inv, MutexQueues, Parked, find_thread

LEMMA LocksExclude ==
    ASSUME PInv, WorkerLocks
    PROVE  Excluded'
<1>1. /\ running \in Tid /\ mutex \in Mutex
      /\ pc' = [pc EXCEPT ![running] = "yield"]
      /\ mlock_free(mutex) \/ mlock_taken(mutex)
  BY ProgramAssumption DEF WorkerLocks, WorkerCalls, mlock
<1>2. CASE mlock_free(mutex)
  <2>1. flag[mutex] = "UNLOCKED" /\ flag'[mutex] = "LOCKED" /\ queue' = queue
    BY <1>1, <1>2 DEF mlock_free, PInv, Inv, TypeOK
  <2>2. \A t \in Tid : ~Inside(t)
    BY <2>1 DEF PInv, Excluded, InsideLocked
  <2>3. \A t \in Tid : Inside(t)' => t = running
    BY <1>1, <2>1, <2>2 DEF Inside, find_thread, PInv, ProgramTypes
  <2> QED BY <2>1, <2>3 DEF Excluded, MutualExclusion, InsideLocked
<1>3. CASE mlock_taken(mutex)
  <2>1. flag' = flag /\ queue'[mutex] = Append(queue[mutex], running)
    BY <1>1, <1>3 DEF mlock_taken, PInv, Inv, TypeOK
  <2>2. /\ Len(queue[mutex]) \in Nat /\ Len(queue'[mutex]) = Len(queue[mutex]) + 1
        /\ queue'[mutex][Len(queue[mutex]) + 1] = running
        /\ \A i \in 1 .. Len(queue[mutex]) : queue'[mutex][i] = queue[mutex][i]
    BY <1>1, <2>1, AppendAt DEF PInv, Inv, TypeOK
  <2>3. find_thread(queue'[mutex], running)
    BY <2>2 DEF find_thread
  <2>4. \A t \in Tid : find_thread(queue[mutex], t) => find_thread(queue'[mutex], t)
    BY <2>2 DEF find_thread
  <2>5. \A t \in Tid : Inside(t)' => Inside(t)
    <3> TAKE t \in Tid
    <3>1. CASE t = running
      BY <2>3, <3>1 DEF Inside
    <3>2. CASE t # running
      BY <1>1, <2>4, <3>2 DEF Inside, PInv, ProgramTypes
    <3> QED BY <3>1, <3>2
  <2> QED BY <2>1, <2>5 DEF PInv, Excluded, MutualExclusion, InsideLocked
<1> QED BY <1>1, <1>2, <1>3

LEMMA UnlocksExclude ==
    ASSUME PInv, WorkerUnlocks
    PROVE  Excluded'
<1>1. /\ running \in Tid /\ mutex \in Mutex /\ pc[running] = "unlock"
      /\ pc' = [pc EXCEPT ![running] = "return"]
      /\ munlock_free(mutex) \/ munlock_handover(mutex)
  BY ProgramAssumption DEF WorkerUnlocks, WorkerCalls, munlock
\* The worker that unlocks was the one inside.
<1>2. \A t \in Tid : Inside(t) => t = running
  <2>1. Inside(running)
    BY <1>1, RunningNotQueued DEF Inside, PInv
  <2> QED BY <1>1, <2>1 DEF PInv, Excluded, MutualExclusion
<1>3. pc'[running] = "return" /\ \A t \in Tid \ {running} : pc'[t] = pc[t]
  BY <1>1 DEF PInv, ProgramTypes
<1>4. CASE munlock_free(mutex)
  <2>1. queue' = queue
    BY <1>4 DEF munlock_free
  <2>2. \A t \in Tid : ~Inside(t)'
    BY <1>2, <1>3, <2>1 DEF Inside, find_thread
  <2> QED BY <2>2 DEF Excluded, MutualExclusion, InsideLocked
<1>5. CASE munlock_handover(mutex)
  <2> DEFINE h == Head(queue[mutex])
  <2>1. /\ flag[mutex] = "LOCKED" /\ flag' = flag /\ queue[mutex] # <<>>
        /\ queue'[mutex] = Tail(queue[mutex])
    BY <1>1, <1>5 DEF munlock_handover, wake_first_waiter, no_waiters, PInv, Inv, TypeOK
  <2>2. /\ Len(queue[mutex]) \in Nat \ {0} /\ h = queue[mutex][1]
        /\ Len(queue'[mutex]) = Len(queue[mutex]) - 1
        /\ \A i \in 1 .. Len(queue[mutex]) - 1 : queue'[mutex][i] = queue[mutex][i + 1]
    BY <1>1, <2>1, TailAt DEF PInv, Inv, TypeOK
  <2> HIDE DEF h
  \* Only the head of the queue stops waiting.
  <2>3. ASSUME NEW t \in Tid, t # h, find_thread(queue[mutex], t)
        PROVE  find_thread(queue[mutex], t)'
    <3>1. PICK i \in 1 .. Len(queue[mutex]) : queue[mutex][i] = t
      BY <2>3 DEF find_thread
    <3>2. i - 1 \in 1 .. Len(queue[mutex]) - 1 /\ (i - 1) + 1 = i
      BY <2>2, <2>3, <3>1
    <3> QED BY <2>2, <3>1, <3>2 DEF find_thread
  <2>4. \A t \in Tid : Inside(t)' => t = h
    <3> TAKE t \in Tid
    <3>1. CASE t = running
      BY <1>3, <3>1 DEF Inside
    <3>2. CASE t # running
      BY <1>2, <1>3, <2>3, <3>2 DEF Inside
    <3> QED BY <3>1, <3>2
  <2> QED BY <1>1, <2>1, <2>4 DEF Excluded, MutualExclusion, InsideLocked
<1> QED BY <1>1, <1>4, <1>5

LEMMA ExcludedStep ==
    ASSUME PInv, [PNext]_pvars
    PROVE  Excluded'
<1>1. CASE WorkerLocks
  BY <1>1, LocksExclude
<1>2. CASE WorkerUnlocks
  BY <1>2, UnlocksExclude
<1>3. ASSUME NEW t, mwait_if_accepted(t) PROVE flag' = flag /\ queue' = queue
  BY <1>3 DEF mwait_if_accepted, mwait, vars
<1>4. CASE MainCreates \/ MainWaits \/ MainReturns \/ LibrarySchedules \/ ProgramEnded \/ UNCHANGED pvars
  <2>1. pc' = pc
    BY <1>4 DEF MainCreates, MainWaits, MainReturns, LibrarySchedules, ProgramEnded, pvars
  <2>2. flag' = flag /\ queue' = queue
    BY <1>3, <1>4 DEF MainCreates, MainWaits, MainReturns, LibrarySchedules, ProgramEnded, pvars,
       mcreate_first, mcreate, main_returns, schedule, dispatch, nothing_ready, vars
  <2> QED BY <2>1, <2>2, NobodyEnters
<1>5. CASE WorkerYields \/ WorkerReturns \/ ThreadWaits \/ ThreadEnds \/ ThreadYields
  <2>1. flag' = flag /\ queue' = queue
    BY <1>3, <1>5 DEF WorkerYields, WorkerReturns, ThreadWaits, ThreadEnds, ThreadYields,
       WorkerCalls, myield, terminate
  <2>2. \A t \in Tid : pc'[t] \in {"yield", "unlock"} => pc[t] \in {"yield", "unlock"}
    BY <1>5 DEF WorkerYields, WorkerReturns, ThreadWaits, ThreadEnds, ThreadYields,
       WorkerCalls, PInv, ProgramTypes
  <2> QED BY <2>1, <2>2, NobodyEnters
<1> QED BY <1>1, <1>2, <1>4, <1>5 DEF PNext

-----------------------------------------------------------------------------
(* The theorems. *)

LEMMA PInvStep == PInv /\ [PNext]_pvars => PInv'
<1> SUFFICES ASSUME PInv, [PNext]_pvars PROVE PInv'
  OBVIOUS
<1>1. Inv'
  BY ProgramStep, StepInv DEF PInv
<1> QED BY <1>1, ProgramTypesStep, ExcludedStep DEF PInv

LEMMA ProgramInvariance == PSpec => []PInv
BY ProgramInv, PInvStep, PTL DEF PSpec

\* The programs, and the library under them, keep their types for every
\* number of threads.
THEOREM ProgramTypeCorrect == PSpec => []PTypeOK
<1>1. PInv => PTypeOK
  BY DEF PInv, Inv, ProgramTypes, PTypeOK
<1> QED BY <1>1, ProgramInvariance, PTL

\* However many workers there are, two are never inside the critical section
\* together: a worker unlocks only what it has locked or been handed.
THEOREM WorkersExclude == PSpec => []MutualExclusion
<1>1. PInv => MutualExclusion
  BY DEF PInv, Excluded
<1> QED BY <1>1, ProgramInvariance, PTL

\* A program never calls the library in a way it does not allow: each step
\* is a step of Mthread, so what is proved of Mthread holds of the programs.
THEOREM ProgramUsesLibrary == PSpec => Spec
<1>1. PInit => Init
  BY DEF PInit
<1> QED BY <1>1, ProgramStep, PTL DEF PSpec, Spec

-----------------------------------------------------------------------------
(***************************************************************************)
(* The waits of the programs: the chain of testes/mwait.c is released in   *)
(* sequence and joined, and neither program ever runs out of ready         *)
(* threads.                                                                *)
(*                                                                         *)
(* The inductive invariant JInv says which program runs and how far main   *)
(* and each thread have come in it (control), that only a worker between   *)
(* its mlock and its return is in the queue of the mutex and that somebody *)
(* is inside while it is locked (mutexes), and that main waits for its     *)
(* waits-th thread and each thread of the chain for the one after it, as   *)
(* long as that is alive (waits).                                          *)
(***************************************************************************)
Sections ==
    /\ pc[main] = "lock"
    /\ \A t \in Tid \ {main} : pc[t] \in {"lock", "yield", "unlock", "return", "done"}

Chain ==
    /\ pc[main] = "wait"
    /\ \A t \in Tid \ {main} :
          pc[t] \in IF t < N THEN {"wait", "resumed", "done"}
                    ELSE IF t = N THEN {"pass", "return", "done"}
                    ELSE {"wait"}

Gone(t) == state[t] \in {"TERMINATED", "NONE"}

Created ==
    /\ nextTid = IF Len(tids) = 0 THEN 0 ELSE Len(tids) + 1
    /\ \A i \in 1 .. Len(tids) : tids[i] = IF state[i] = "NONE" THEN NULL ELSE i
    /\ waits > 0 => Len(tids) = N

\* No thread runs before main has created the last one.
MainFirst ==
    Len(tids) < N =>
        /\ cpu = "app" /\ running \in {NULL, main}
        /\ \A t \in Tid : pc[t] \in {"lock", "wait", "pass"}

NotStarted ==
    \A t \in Tid \ {main} :
        pc[t] \in {"lock", "wait", "pass"} => state[t] \in {"NONE", "READY"} \/ t = running

InsideLive ==
    \A t \in Tid : pc[t] \in {"yield", "unlock"} => state[t] \in {"READY", "RUNNING"}

Exit == cpu = "exited" => waits = N /\ running = main

Control == (Sections \/ Chain) /\ Created /\ MainFirst /\ NotStarted /\ InsideLive /\ Exit

Sleepers ==
    \A m \in Mutex : \A a \in 1 .. Len(queue[m]) : m = mutex /\ pc[queue[m][a]] = "yield"

Holder == flag[mutex] = "LOCKED" => \E t \in Tid : Inside(t)

Mutexes == Sleepers /\ Holder

Waiters ==
    \A b \in blockedWaiting :
        IF b.blocked = main THEN b.waited = waits
        ELSE b.waited = b.blocked + 1 /\ pc[b.blocked] = "resumed"

\* A thread of the chain that is not blocked has seen the next one end.
Linked ==
    \A t \in Tid : pc[t] = "resumed" /\ state[t] # "BLOCKED" => Gone(t + 1)

MainJoins ==
    Chain => \A v \in 1 .. waits : Gone(v) \/ (v = waits /\ state[main] = "BLOCKED")

Joins == Waiters /\ Linked /\ MainJoins

JInv == Control /\ Mutexes /\ Joins

-----------------------------------------------------------------------------
(* Numbers. *)

LEMMA Sizes ==
    /\ MaxTid \in Nat /\ N \in Nat /\ 1 <= N /\ N < MaxTid /\ mutex \in Mutex
    /\ \A n : n \in Tid <=> n \in Nat /\ n < MaxTid
    /\ main = 0 /\ main \in Tid /\ 1 .. N \subseteq Tid /\ NULL \notin Tid
BY ProgramAssumption, MaxTidAssumption, NullAssumption DEF Tid, main

\* Once main has created all threads the next id is N + 1, and a thread that
\* exists is main or one of them.
LEMMA AllCreated ==
    ASSUME PInv, JInv, Len(tids) = N
    PROVE  /\ nextTid = N + 1
           /\ \A t \in Tid : state[t] # "NONE" => t <= N
           /\ cpu = "app" => running \in Tid
<1>1. nextTid = N + 1
  BY Sizes DEF JInv, Control, Created
<1>2. \A t \in Tid : state[t] # "NONE" => t <= N
  BY <1>1, Sizes DEF PInv, Inv, Births
<1>3. cpu = "app" => running \in Tid
  BY <1>1, Sizes DEF PInv, Inv, RunningWhileApp, TypeOK
<1> QED BY <1>1, <1>2, <1>3

\* What is true of the thread that makes a call.
LEMMA Caller ==
    ASSUME PInv, JInv, running \in Tid \ {main}
    PROVE  /\ Len(tids) = N /\ nextTid = N + 1
           /\ state[running] = "RUNNING" /\ running \in 1 .. N
           /\ pc \in [Tid -> {"lock", "yield", "unlock", "wait", "resumed", "pass", "return", "done"}]
           /\ state \in [Tid -> {"NONE", "READY", "RUNNING", "BLOCKED", "TERMINATED"}]
           /\ \A m \in Mutex : ~find_thread(queue[m], running)
<1>1. Len(tids) = N
  BY Sizes DEF JInv, Control, MainFirst, PInv, ProgramTypes
<1>2. state[running] = "RUNNING"
  BY Sizes DEF PInv, Inv, Processor
<1>3. running \in 1 .. N
  BY <1>1, <1>2, AllCreated, Sizes
<1> QED BY <1>1, <1>2, <1>3, AllCreated, RunningNotQueued DEF PInv, Inv, TypeOK, ProgramTypes

-----------------------------------------------------------------------------
(* Control. *)

\* A call of a thread other than main: it moves on, and what it does to other
\* threads is to wake some.
LEMMA WorkerControl ==
    ASSUME PInv, JInv, running \in Tid \ {main}, NEW to,
           pc' = [pc EXCEPT ![running] = to],
           Sections \/ Chain => Sections' \/ Chain',
           to \notin {"lock", "wait", "pass"},
           UNCHANGED <<tids, waits, nextTid>>,
           cpu' # "exited",
           state'[running] # "NONE",
           to \in {"yield", "unlock"} => state'[running] \in {"READY", "RUNNING"},
           \A u \in Tid \ {running} :
              state'[u] = state[u] \/ (state'[u] = "READY" /\ state[u] \in {"RUNNING", "BLOCKED"})
    PROVE  Control'
<1>1. Created'
  <2>1. \A i \in 1 .. Len(tids) : i \in Tid /\ (state'[i] = "NONE" <=> state[i] = "NONE")
    BY Caller, Sizes
  <2> QED BY <2>1 DEF JInv, Control, Created
<1>2. MainFirst'
  BY Caller, Sizes DEF MainFirst
<1>3. NotStarted'
  <2> SUFFICES ASSUME NEW t \in Tid \ {main}, pc'[t] \in {"lock", "wait", "pass"}
               PROVE  state'[t] \in {"NONE", "READY"}
    BY DEF NotStarted
  <2>1. t # running /\ pc[t] = pc'[t]
    BY Caller
  <2> QED BY <2>1 DEF JInv, Control, NotStarted
<1>4. InsideLive'
  <2> SUFFICES ASSUME NEW t \in Tid, pc'[t] \in {"yield", "unlock"}
               PROVE  state'[t] \in {"READY", "RUNNING"}
    BY DEF InsideLive
  <2>1. CASE t = running
    BY <2>1, Caller
  <2>2. CASE t # running
    BY <2>2, Caller DEF JInv, Control, InsideLive
  <2> QED BY <2>1, <2>2
<1>5. Exit'
  BY DEF Exit
<1> QED BY <1>1, <1>2, <1>3, <1>4, <1>5 DEF JInv, Control

-----------------------------------------------------------------------------
(* Mutexes. *)

\* A step that leaves the mutexes alone, and in which no worker comes to the
\* mutex or leaves it.
LEMMA MutexesKept ==
    ASSUME PInv, Mutexes, UNCHANGED <<flag, queue>>,
           \A t \in Tid :
              \/ pc'[t] = pc[t]
              \/ /\ t = running
                 /\ pc[t] \in {"yield", "unlock"} => pc'[t] \in {"yield", "unlock"}
    PROVE  Mutexes'
<1>1. \A m \in Mutex : \A a \in 1 .. Len(queue[m]) : queue[m][a] \in Tid /\ queue[m][a] # running
  BY DEF PInv, Inv, TypeOK, MutexQueues, Parked
<1>2. Sleepers'
  BY <1>1 DEF Mutexes, Sleepers
<1>3. \A t \in Tid : Inside(t) => Inside(t)'
  BY DEF Inside, find_thread
<1>4. Holder'
  BY <1>3 DEF Mutexes, Holder
<1> QED BY <1>2, <1>4 DEF Mutexes

-----------------------------------------------------------------------------
(* Waits. *)

\* In the program with critical sections only main waits.
LEMMA SectionsJoins ==
    ASSUME PInv, JInv, Sections, running \in Tid \ {main}, NEW to,
           to \notin {"wait", "resumed"}, pc' = [pc EXCEPT ![running] = to],
           UNCHANGED <<blockedWaiting, waits>>
    PROVE  Joins'
<1>1. \A t \in Tid : pc'[t] # "resumed"
  BY Caller DEF Sections
<1>2. pc'[main] = "lock"
  BY Caller, Sizes DEF Sections
<1>3. Waiters'
  <2>1. \A b \in blockedWaiting : b.blocked \in Tid
    BY DEF PInv, Inv, TypeOK, Waits
  <2>2. \A b \in blockedWaiting : pc[b.blocked] # "resumed"
    BY <2>1 DEF Sections
  <2> QED BY <2>2 DEF JInv, Joins, Waiters
<1> QED BY <1>1, <1>2, <1>3 DEF Joins, Linked, MainJoins, Chain

-----------------------------------------------------------------------------
(* The calls of a worker with critical sections. *)

\* The thread that runs and is before, in or at the end of a critical section
\* is in the program with critical sections.
LEMMA InSections ==
    ASSUME PInv, JInv, running \in Tid \ {main}, pc[running] \in {"lock", "yield", "unlock"}
    PROVE  Sections
BY DEF JInv, Control, Chain

LEMMA SectionsMove ==
    ASSUME PInv, JInv, Sections, running \in Tid \ {main}, NEW to,
           to \in {"yield", "unlock", "return", "done"}, pc' = [pc EXCEPT ![running] = to]
    PROVE  Sections'
BY Caller, Sizes DEF Sections

LEMMA LocksJoin ==
    ASSUME PInv, JInv, WorkerLocks
    PROVE  JInv'
<1>1. /\ running \in Tid \ {main} /\ pc[running] = "lock"
      /\ pc' = [pc EXCEPT ![running] = "yield"]
      /\ UNCHANGED <<tids, waits>>
      /\ mlock_free(mutex) \/ mlock_taken(mutex)
  BY DEF WorkerLocks, WorkerCalls, mlock
<1>2. Sections
  BY <1>1, InSections
<1>3. UNCHANGED <<nextTid, state, blockedWaiting>> /\ cpu' # "exited"
  BY <1>1 DEF mlock_free, mlock_taken
<1>4. Control'
  BY <1>1, <1>2, <1>3, Caller, SectionsMove, WorkerControl
<1>5. Joins'
  BY <1>1, <1>2, <1>3, SectionsJoins
<1>6. pc'[running] = "yield" /\ \A t \in Tid \ {running} : pc'[t] = pc[t]
  BY <1>1, Caller
<1>7. CASE mlock_free(mutex)
  <2>1. queue' = queue
    BY <1>7 DEF mlock_free
  <2>2. Sleepers'
    <3>1. \A m \in Mutex : \A a \in 1 .. Len(queue[m]) : queue[m][a] \in Tid
      BY DEF PInv, Inv, TypeOK
    <3> QED BY <1>6, <2>1, <3>1 DEF JInv, Mutexes, Sleepers
  <2>3. PICK r \in Tid : r = running
    BY <1>1
  <2>4. Inside(r)'
    <3>1. ~find_thread(queue[mutex], r)
      BY <1>1, <2>3, Caller, Sizes
    <3> QED BY <1>6, <2>1, <2>3, <3>1 DEF Inside, find_thread
  <2>5. Holder'
    BY <2>4 DEF Holder
  <2> QED BY <1>4, <1>5, <2>2, <2>5 DEF JInv, Mutexes
<1>8. CASE mlock_taken(mutex)
  <2>1. /\ flag' = flag /\ flag[mutex] = "LOCKED"
        /\ \A m \in Mutex : queue'[m] = IF m = mutex THEN Append(queue[m], running) ELSE queue[m]
    BY <1>8, Sizes DEF mlock_taken, PInv, Inv, TypeOK
  <2>2. \A m \in Mutex : \A a \in 1 .. Len(queue'[m]) :
            \/ a \in 1 .. Len(queue[m]) /\ queue'[m][a] = queue[m][a] /\ queue[m][a] \in Tid
            \/ m = mutex /\ queue'[m][a] = running
    <3> SUFFICES ASSUME NEW m \in Mutex, NEW a \in 1 .. Len(queue'[m])
                 PROVE  \/ a \in 1 .. Len(queue[m]) /\ queue'[m][a] = queue[m][a] /\ queue[m][a] \in Tid
                        \/ m = mutex /\ queue'[m][a] = running
      OBVIOUS
    <3>1. queue[m] \in Seq(Tid)
      BY DEF PInv, Inv, TypeOK
    <3>2. CASE m = mutex
      <4>1. queue'[m] = Append(queue[m], running) /\ running \in Tid
        BY <1>1, <2>1, <3>2
      <4>2. /\ Len(queue[m]) \in Nat /\ Len(queue'[m]) = Len(queue[m]) + 1
            /\ queue'[m][Len(queue[m]) + 1] = running
            /\ \A i \in 1 .. Len(queue[m]) : queue'[m][i] = queue[m][i] /\ queue[m][i] \in Tid
        BY <3>1, <4>1, AppendAt
      <4> QED BY <3>2, <4>2
    <3>3. CASE m # mutex
      BY <2>1, <3>1, <3>3
    <3> QED BY <3>2, <3>3
  <2>3. Sleepers'
    BY <1>6, <2>2 DEF JInv, Mutexes, Sleepers
  <2>4. PICK t \in Tid : Inside(t)
    BY <2>1 DEF JInv, Mutexes, Holder
  <2>5. t # running
    BY <1>1, <2>4 DEF Inside
  <2>6. ~find_thread(queue'[mutex], t)
    BY <2>2, <2>4, <2>5, Sizes DEF Inside, find_thread
  <2>7. Inside(t)'
    BY <1>6, <2>4, <2>5, <2>6 DEF Inside, find_thread
  <2>8. Holder'
    BY <2>7 DEF Holder
  <2> QED BY <1>4, <1>5, <2>3, <2>8 DEF JInv, Mutexes
<1> QED BY <1>1, <1>7, <1>8

LEMMA YieldsJoin ==
    ASSUME PInv, JInv, WorkerYields
    PROVE  JInv'
<1>1. /\ running \in Tid \ {main} /\ pc[running] = "yield"
      /\ pc' = [pc EXCEPT ![running] = "unlock"]
      /\ UNCHANGED <<tids, waits>>
      /\ myield
  BY DEF WorkerYields, WorkerCalls
<1>2. Sections
  BY <1>1, InSections
<1>3. /\ UNCHANGED <<nextTid, flag, queue, blockedWaiting>> /\ cpu' # "exited"
      /\ state' = [state EXCEPT ![running] = "READY"]
  BY <1>1 DEF myield
<1>4. Control'
  BY <1>1, <1>2, <1>3, Caller, SectionsMove, WorkerControl
<1>5. Joins'
  BY <1>1, <1>2, <1>3, SectionsJoins
<1>6. Mutexes'
  BY <1>1, <1>3, Caller, MutexesKept DEF JInv
<1> QED BY <1>4, <1>5, <1>6 DEF JInv

LEMMA UnlocksJoin ==
    ASSUME PInv, JInv, WorkerUnlocks
    PROVE  JInv'
<1>1. /\ running \in Tid \ {main} /\ pc[running] = "unlock"
      /\ pc' = [pc EXCEPT ![running] = "return"]
      /\ UNCHANGED <<tids, waits>>
      /\ munlock_free(mutex) \/ munlock_handover(mutex)
  BY DEF WorkerUnlocks, WorkerCalls, munlock
<1>2. Sections
  BY <1>1, InSections
<1>3. UNCHANGED <<nextTid, blockedWaiting>> /\ cpu' # "exited"
  BY <1>1 DEF munlock_free, munlock_handover, wake_first_waiter
<1>4. Joins'
  BY <1>1, <1>2, <1>3, SectionsJoins
<1>5. \A t \in Tid \ {running} : pc'[t] = pc[t]
  BY <1>1, Caller
\* Who sleeps is not the caller, and stays where it is in its function.
<1>6. \A m \in Mutex : \A a \in 1 .. Len(queue[m]) :
          m = mutex /\ queue[m][a] \in Tid /\ pc'[queue[m][a]] = "yield"
  <2>1. \A m \in Mutex : \A a \in 1 .. Len(queue[m]) : queue[m][a] \in Tid
    BY DEF PInv, Inv, TypeOK
  <2> QED BY <1>1, <1>5, <2>1 DEF JInv, Mutexes, Sleepers
<1>7. CASE munlock_free(mutex)
  <2>1. queue' = queue /\ flag'[mutex] = "UNLOCKED" /\ state' = state
    BY <1>7, Sizes DEF munlock_free, PInv, Inv, TypeOK
  <2>2. Mutexes'
    BY <1>6, <2>1 DEF Mutexes, Sleepers, Holder
  <2>3. Control'
    BY <1>1, <1>2, <1>3, <2>1, Caller, SectionsMove, WorkerControl
  <2> QED BY <1>4, <2>2, <2>3 DEF JInv
<1>8. CASE munlock_handover(mutex)
  <2>1. PICK h \in Tid : h = Head(queue[mutex]) /\ queue[mutex] # <<>>
    BY <1>8, HeadTailProperties, Sizes DEF munlock_handover, no_waiters, PInv, Inv, TypeOK
  <2>2. /\ \A m \in Mutex : queue'[m] = IF m = mutex THEN Tail(queue[m]) ELSE queue[m]
        /\ state' = [state EXCEPT ![h] = "READY"]
    BY <1>8, <2>1 DEF munlock_handover, wake_first_waiter, PInv, Inv, TypeOK
  <2>3. /\ Len(queue[mutex]) \in Nat \ {0} /\ h = queue[mutex][1]
        /\ Len(queue'[mutex]) = Len(queue[mutex]) - 1
        /\ \A i \in 1 .. Len(queue[mutex]) - 1 : queue'[mutex][i] = queue[mutex][i + 1]
    <3>1. queue[mutex] \in Seq(Tid) /\ queue'[mutex] = Tail(queue[mutex])
      BY <2>2, Sizes DEF PInv, Inv, TypeOK
    <3> QED BY <2>1, <3>1, TailAt
  <2>4. state[h] = "RUNNING" /\ h # running /\ pc'[h] = "yield"
    BY <1>6, <2>3, Sizes DEF PInv, Inv, MutexQueues, Parked
  <2>5. Control'
    BY <1>1, <1>2, <1>3, <2>2, <2>4, Caller, SectionsMove, WorkerControl
  <2>6. Sleepers'
    <3>1. \A a \in 1 .. Len(queue'[mutex]) : pc'[queue'[mutex][a]] = "yield"
      BY <1>6, <2>3, Sizes
    <3>2. \A m \in Mutex \ {mutex} : Len(queue'[m]) = Len(queue[m])
      BY <2>2
    <3> QED BY <1>6, <3>1, <3>2 DEF Sleepers
  <2>7. ~find_thread(queue'[mutex], h)
    <3> SUFFICES ASSUME NEW i \in 1 .. Len(queue'[mutex]), queue'[mutex][i] = h PROVE FALSE
      BY DEF find_thread
    <3>1. i + 1 \in 1 .. Len(queue[mutex]) /\ queue[mutex][i + 1] = queue[mutex][1]
      BY <2>3
    <3>2. i + 1 = 1
      BY <2>3, <3>1, Sizes DEF PInv, Inv, MutexQueues
    <3> QED BY <2>3, <3>2
  <2>8. Inside(h)'
    BY <2>4, <2>7 DEF Inside, find_thread
  <2> QED BY <1>4, <2>5, <2>6, <2>8 DEF JInv, Mutexes, Holder
<1> QED BY <1>1, <1>7, <1>8

-----------------------------------------------------------------------------
(* The end of a thread, in either program. *)

LEMMA TerminateJoins ==
    ASSUME PInv, JInv, running \in Tid \ {main}, terminate,
           pc[running] \in {"return", "resumed"},
           pc' = [pc EXCEPT ![running] = "done"],
           UNCHANGED <<tids, waits>>
    PROVE  JInv'
<1>1. /\ state[running] = "RUNNING" /\ state'[running] = "TERMINATED"
      /\ running \in 1 .. N /\ pc'[running] = "done"
      /\ \A u \in Tid \ {running} : pc'[u] = pc[u]
      /\ UNCHANGED <<nextTid, flag, queue>> /\ cpu' # "exited"
  BY Caller DEF terminate, waiters_of, PInv, Inv, TypeOK, Waits
\* Whoever it wakes was waiting for it.
<1>2. \A u \in Tid \ {running} :
          \/ state'[u] = state[u]
          \/ /\ state[u] = "BLOCKED" /\ state'[u] = "READY"
             /\ \E b \in blockedWaiting : b.blocked = u /\ b.waited = running
  <2> SUFFICES ASSUME NEW u \in Tid \ {running}, state'[u] # state[u]
               PROVE  /\ state[u] = "BLOCKED" /\ state'[u] = "READY"
                      /\ \E b \in blockedWaiting : b.blocked = u /\ b.waited = running
    OBVIOUS
  <2>1. PICK b \in waiters_of(running) :
            state' = [state EXCEPT ![running] = "TERMINATED", ![b.blocked] = "READY"]
    BY Caller DEF terminate
  <2>2. b \in blockedWaiting /\ b.waited = running
    BY DEF waiters_of
  <2>3. b.blocked \in Tid /\ state[b.blocked] = "BLOCKED"
    BY <2>2 DEF PInv, Inv, TypeOK, Waits, WaitingList
  <2>4. u = b.blocked
    BY <2>1, <2>3, Caller
  <2> QED BY <2>1, <2>2, <2>3, <2>4, Caller
<1>3. blockedWaiting' \subseteq blockedWaiting
  BY DEF terminate
<1>4. Sections \/ Chain => Sections' \/ Chain'
  BY <1>1, Sizes DEF Sections, Chain
<1>5. Control'
  BY <1>1, <1>2, <1>4, WorkerControl
<1>6. Mutexes'
  BY <1>1, MutexesKept DEF JInv
<1>7. Waiters'
  <2> SUFFICES ASSUME NEW b \in blockedWaiting
               PROVE  IF b.blocked = main THEN b.waited = waits
                      ELSE b.waited = b.blocked + 1 /\ pc'[b.blocked] = "resumed"
    BY <1>3 DEF Waiters
  <2>1. b.blocked \in Tid /\ b.blocked # running
    BY <1>1 DEF PInv, Inv, TypeOK, Waits, WaitingList
  <2> QED BY <1>1, <2>1 DEF JInv, Joins, Waiters
\* Whoever had ended still has.
<1>8. \A u \in Tid : Gone(u) => Gone(u)'
  <2> SUFFICES ASSUME NEW u \in Tid, Gone(u) PROVE state'[u] = state[u]
    BY DEF Gone
  <2> QED BY <1>1, <1>2 DEF Gone
<1>9. Linked'
  <2> SUFFICES ASSUME NEW t \in Tid, pc'[t] = "resumed", state'[t] # "BLOCKED"
               PROVE  Gone(t + 1)'
    BY DEF Linked
  <2>1. t # running /\ pc[t] = "resumed"
    BY <1>1
  <2>2. t # main /\ t < N
    BY <2>1, Sizes DEF JInv, Control, Sections, Chain
  <2>3. t + 1 \in Tid
    BY <2>2, Sizes
  <2>4. CASE state[t] # "BLOCKED"
    BY <1>8, <2>1, <2>3, <2>4 DEF JInv, Joins, Linked
  <2>5. CASE state[t] = "BLOCKED"
    <3>1. PICK b \in blockedWaiting : b.blocked = t /\ b.waited = running
      BY <1>2, <2>1, <2>5
    <3>2. running = t + 1
      BY <2>2, <3>1 DEF JInv, Joins, Waiters
    <3> QED BY <1>1, <3>2 DEF Gone
  <2> QED BY <2>4, <2>5
<1>10. MainJoins'
  <2> SUFFICES ASSUME Chain', NEW v \in 1 .. waits
               PROVE  Gone(v)' \/ (v = waits /\ state'[main] = "BLOCKED")
    BY DEF MainJoins
  <2>1. Chain /\ v \in Tid
    <3>1. pc[main] = pc'[main]
      BY <1>1, Sizes
    <3> QED BY <3>1, Sizes DEF JInv, Control, Sections, Chain, PInv, ProgramTypes
  <2>2. CASE Gone(v)
    BY <1>8, <2>1, <2>2
  <2>3. CASE v = waits /\ state[main] = "BLOCKED" /\ state'[main] # "BLOCKED"
    <3>1. PICK b \in blockedWaiting : b.blocked = main /\ b.waited = running
      BY <1>2, <2>3, Sizes
    <3>2. running = v
      BY <2>3, <3>1 DEF JInv, Joins, Waiters
    <3> QED BY <1>1, <3>2 DEF Gone
  <2> QED BY <2>1, <2>2, <2>3 DEF JInv, Joins, MainJoins
<1> QED BY <1>5, <1>6, <1>7, <1>9, <1>10 DEF JInv, Joins

-----------------------------------------------------------------------------
(* The calls of a thread of the chain. *)

\* mwait refuses a thread that has ended or is waited for already, and in
\* the chain no other.
LEMMA RefusedIsGone ==
    ASSUME PInv, JInv, Chain, Len(tids) = N, running \in Tid,
           NEW v \in 1 .. N, v # running,
           ~(tcb_exists(v) /\ ~find_blocked_waiting_tcb(v))
    PROVE  Gone(v) \/ find_blocked_waiting_tcb(v)
<1> SUFFICES ASSUME ~tcb_exists(v) PROVE Gone(v)
  OBVIOUS
<1>1. v \in Tid /\ v < nextTid /\ state[v] \in {"NONE", "READY", "RUNNING", "BLOCKED", "TERMINATED"}
  BY AllCreated, Sizes DEF PInv, Inv, TypeOK
<1>2. state[v] # "READY"
  <2> SUFFICES ASSUME state[v] = "READY" PROVE FALSE
    OBVIOUS
  <2>1. prio[v] \in Prio /\ find_thread(ready[prio[v]], v)
    BY <1>1 DEF PInv, Inv, TypeOK, ReadyQueues, find_thread
  <2> QED BY <1>1, <2>1 DEF tcb_exists
<1>3. state[v] # "BLOCKED"
  BY <1>1 DEF PInv, Inv, WaitingList, tcb_exists, tcb_is_blocked_waiting
<1>4. state[v] # "RUNNING"
  <2> SUFFICES ASSUME state[v] = "RUNNING" PROVE FALSE
    OBVIOUS
  <2>1. \E m \in Mutex : \E i \in 1 .. Len(queue[m]) : queue[m][i] = v
    BY <1>1 DEF PInv, Inv, MutexQueues, Parked
  <2>2. pc[v] = "yield"
    BY <2>1 DEF JInv, Mutexes, Sleepers
  <2> QED BY <1>1, <2>2, Sizes DEF Chain
<1> QED BY <1>1, <1>2, <1>3, <1>4 DEF Gone

LEMMA ThreadWaitsJoin ==
    ASSUME PInv, JInv, ThreadWaits
    PROVE  JInv'
<1>1. /\ running \in Tid \ {main} /\ pc[running] = "wait"
      /\ pc' = [pc EXCEPT ![running] = "resumed"]
      /\ UNCHANGED <<tids, waits>>
      /\ mwait_if_accepted(running + 1)
  BY DEF ThreadWaits, WorkerCalls
<1>2. /\ Chain /\ running \in 1 .. N /\ running + 1 \in 1 .. N /\ Len(tids) = N
      /\ state[running] = "RUNNING"
      /\ pc'[running] = "resumed" /\ \A u \in Tid \ {running} : pc'[u] = pc[u]
  BY <1>1, Caller, Sizes DEF JInv, Control, Sections, Chain
<1>3. Chain'
  BY <1>1, <1>2, Sizes DEF Chain
\* The thread waits for the next one, or the next one has ended.
<1>4. /\ UNCHANGED <<nextTid, flag, queue>> /\ cpu' # "exited"
      /\ \/ /\ state' = [state EXCEPT ![running] = "BLOCKED"]
            /\ blockedWaiting' = blockedWaiting \cup {[waited |-> running + 1, blocked |-> running]}
         \/ state' = state /\ blockedWaiting' = blockedWaiting /\ Gone(running + 1)
  <2>1. CASE mwait(running + 1)
    BY <2>1 DEF mwait
  <2>2. CASE ~(tcb_exists(running + 1) /\ ~find_blocked_waiting_tcb(running + 1))
    <3>1. cpu = "app" /\ UNCHANGED vars
      BY <1>1, <2>2 DEF mwait_if_accepted
    <3>2. ~find_blocked_waiting_tcb(running + 1)
      <4> SUFFICES ASSUME NEW b \in blockedWaiting, b.waited = running + 1 PROVE FALSE
        BY DEF find_blocked_waiting_tcb
      <4>1. b.blocked \in Tid /\ state[b.blocked] = "BLOCKED"
        BY DEF PInv, Inv, TypeOK, Waits, WaitingList
      <4>2. CASE b.blocked = main
        <5>1. waits = running + 1
          BY <4>2 DEF JInv, Joins, Waiters
        <5> QED BY <1>2, <5>1, Sizes DEF JInv, Joins, MainJoins, Gone
      <4>3. CASE b.blocked # main
        <5>1. b.blocked + 1 = running + 1 /\ b.blocked \in Nat /\ running \in Nat
          BY <1>2, <4>1, <4>3, Sizes DEF JInv, Joins, Waiters
        <5> QED BY <1>2, <4>1, <5>1
      <4> QED BY <4>2, <4>3
    <3>3. Gone(running + 1)
      BY <1>1, <1>2, <2>2, <3>2, RefusedIsGone
    <3> QED BY <3>1, <3>3 DEF vars
  <2>3. mwait(running + 1) \/ ~(tcb_exists(running + 1) /\ ~find_blocked_waiting_tcb(running + 1))
    <3>1. running + 1 \in Tid
      BY <1>2, Sizes
    <3> QED BY <1>1, <3>1 DEF mwait_if_accepted
  <2> QED BY <2>1, <2>2, <2>3
<1>5. \A u \in Tid \ {running} : state'[u] = state[u]
  BY <1>4, Caller, <1>1
<1>6. Control'
  BY <1>1, <1>2, <1>3, <1>4, <1>5, Caller, WorkerControl
<1>7. Mutexes'
  BY <1>1, <1>2, <1>4, MutexesKept DEF JInv
<1>8. Waiters'
  <2> SUFFICES ASSUME NEW b \in blockedWaiting'
               PROVE  IF b.blocked = main THEN b.waited = waits
                      ELSE b.waited = b.blocked + 1 /\ pc'[b.blocked] = "resumed"
    BY <1>1 DEF Waiters
  <2>1. CASE b \in blockedWaiting
    <3>1. b.blocked \in Tid /\ b.blocked # running
      BY <1>2, <2>1 DEF PInv, Inv, TypeOK, Waits, WaitingList
    <3> QED BY <1>2, <2>1, <3>1 DEF JInv, Joins, Waiters
  <2>2. CASE b = [waited |-> running + 1, blocked |-> running]
    BY <1>1, <1>2, <2>2
  <2> QED BY <1>4, <2>1, <2>2
<1>9. Linked'
  <2> SUFFICES ASSUME NEW t \in Tid, pc'[t] = "resumed", state'[t] # "BLOCKED"
               PROVE  Gone(t + 1)'
    BY DEF Linked
  <2>1. t # main /\ t < N /\ t + 1 \in Tid
    BY <1>3, Sizes DEF Chain
  <2>2. CASE t = running
    BY <1>1, <1>4, <2>2, Caller DEF Gone
  <2>3. CASE t # running
    <3>1. Gone(t + 1)
      BY <1>2, <1>5, <2>3 DEF JInv, Joins, Linked
    <3>2. t + 1 # running
      BY <1>2, <3>1 DEF Gone
    <3> QED BY <1>5, <2>1, <3>1, <3>2 DEF Gone
  <2> QED BY <2>2, <2>3
<1>10. MainJoins'
  <2> SUFFICES ASSUME NEW v \in 1 .. waits
               PROVE  Gone(v)' \/ (v = waits /\ state'[main] = "BLOCKED")
    BY <1>1 DEF MainJoins
  <2>1. v \in Tid /\ (Gone(v) \/ (v = waits /\ state[main] = "BLOCKED"))
    BY <1>2, Sizes DEF JInv, Joins, MainJoins, PInv, ProgramTypes
  <2>2. Gone(v) => v # running
    BY <1>2 DEF Gone
  <2> QED BY <1>1, <1>5, <2>1, <2>2, Sizes DEF Gone
<1> QED BY <1>6, <1>7, <1>8, <1>9, <1>10 DEF JInv, Joins

LEMMA ThreadYieldsJoin ==
    ASSUME PInv, JInv, ThreadYields
    PROVE  JInv'
<1>1. /\ running \in Tid \ {main} /\ pc[running] = "pass"
      /\ pc' = [pc EXCEPT ![running] = "return"]
      /\ UNCHANGED <<tids, waits>>
      /\ myield
  BY DEF ThreadYields, WorkerCalls
<1>2. /\ UNCHANGED <<nextTid, flag, queue, blockedWaiting>> /\ cpu' # "exited"
      /\ state[running] = "RUNNING" /\ state'[running] = "READY"
      /\ \A u \in Tid \ {running} : state'[u] = state[u] /\ pc'[u] = pc[u]
      /\ pc'[running] = "return"
  BY <1>1, Caller DEF myield
<1>3. Chain /\ Chain'
  BY <1>1, <1>2, Sizes DEF JInv, Control, Sections, Chain
<1>4. Control'
  BY <1>1, <1>2, <1>3, WorkerControl
<1>5. Mutexes'
  BY <1>1, <1>2, MutexesKept DEF JInv
<1>6. Waiters'
  <2>1. \A b \in blockedWaiting : b.blocked \in Tid /\ b.blocked # running
    BY <1>2 DEF PInv, Inv, TypeOK, Waits, WaitingList
  <2> QED BY <1>1, <1>2, <2>1 DEF JInv, Joins, Waiters
<1>7. \A u \in Tid : Gone(u) => Gone(u)'
  BY <1>2 DEF Gone
<1>8. Linked'
  <2> SUFFICES ASSUME NEW t \in Tid, pc'[t] = "resumed", state'[t] # "BLOCKED"
               PROVE  Gone(t + 1)'
    BY DEF Linked
  <2>1. t # running /\ t + 1 \in Tid
    BY <1>2, <1>3, Sizes DEF Chain
  <2> QED BY <1>2, <1>7, <2>1 DEF JInv, Joins, Linked
<1>9. MainJoins'
  <2>1. \A v \in 1 .. waits : v \in Tid
    BY Sizes DEF PInv, ProgramTypes
  <2> QED BY <1>1, <1>2, <1>3, <1>7, <2>1, Sizes DEF JInv, Joins, MainJoins
<1> QED BY <1>4, <1>5, <1>6, <1>8, <1>9 DEF JInv, Joins

-----------------------------------------------------------------------------
(* The calls of main. *)

LEMMA CreatesJoin ==
    ASSUME PInv, JInv, MainCreates
    PROVE  JInv'
<1>1. /\ running \in {NULL, main} /\ Len(tids) \in Nat /\ Len(tids) < N
      /\ waits = 0 /\ pc' = pc /\ waits' = waits
      /\ \A t \in Tid : pc[t] \in {"lock", "wait", "pass"}
  BY DEF MainCreates, MainRuns, JInv, Control, Created, MainFirst, PInv, ProgramTypes
<1>2. PICK t \in Tid : t = Len(tids) + 1
  BY <1>1, Sizes
<1>3. t # main /\ state[t] = "NONE" /\ t >= nextTid
  BY <1>1, <1>2, Sizes DEF JInv, Control, Created, PInv, Inv, Births
<1>4. /\ nextTid' = t + 1 /\ cpu' = "app" /\ running' \in {NULL, main}
      /\ UNCHANGED <<flag, queue, blockedWaiting>>
      /\ \/ state' = [state EXCEPT ![main] = "RUNNING", ![t] = "READY"]
         \/ state' = [state EXCEPT ![main] = "RUNNING"]
         \/ state' = [state EXCEPT ![t] = "READY"]
         \/ state' = state
  <2>1. PICK p \in PrioArg : mcreate_first(p) \/ mcreate(p)
    BY DEF MainCreates
  <2>2. CASE mcreate_first(p)
    <3>1. t = 1 /\ nextTid = 0
      BY <1>1, <1>2, <2>2, Sizes DEF mcreate_first, JInv, Control, Created
    <3> QED BY <2>2, <3>1 DEF mcreate_first, init, tcb_init_works, tcb_init_fails
  <2>3. CASE mcreate(p)
    <3>1. t = nextTid
      BY <1>1, <1>2, <2>3 DEF mcreate, JInv, Control, Created
    <3> QED BY <1>1, <2>3, <3>1 DEF mcreate, tcb_init_works, tcb_init_fails
  <2> QED BY <2>1, <2>2, <2>3
<1>5. /\ state'[t] \in {"NONE", "READY"}
      /\ \A u \in Tid \ {main, t} : state'[u] = state[u]
  BY <1>3, <1>4, Sizes DEF PInv, Inv, TypeOK
<1>6. Created'
  <2>1. tids' = Append(tids, IF state'[t] = "READY" THEN t ELSE NULL)
    <3>1. nextTid' - 1 = t
      BY <1>1, <1>2, <1>4
    <3> QED BY <3>1 DEF MainCreates
  <2>2. PICK e \in Tid \cup {NULL} : e = IF state'[t] = "READY" THEN t ELSE NULL
    OBVIOUS
  <2>3. /\ Len(tids') = Len(tids) + 1 /\ tids'[Len(tids) + 1] = e
        /\ \A i \in 1 .. Len(tids) : tids'[i] = tids[i]
    BY <2>1, <2>2, AppendAt DEF PInv, ProgramTypes
  <2>4. ASSUME NEW i \in 1 .. Len(tids') PROVE tids'[i] = IF state'[i] = "NONE" THEN NULL ELSE i
    <3>1. CASE i = t
      BY <1>2, <1>5, <2>2, <2>3, <3>1
    <3>2. CASE i # t
      <4>1. i \in 1 .. Len(tids) /\ i \in Tid /\ i # main
        BY <1>1, <1>2, <2>3, <3>2, Sizes
      <4> QED BY <1>5, <2>3, <3>2, <4>1 DEF JInv, Control, Created
    <3> QED BY <3>1, <3>2
  <2> QED BY <1>1, <1>2, <1>4, <2>3, <2>4 DEF Created
<1>7. MainFirst' /\ InsideLive' /\ Exit'
  BY <1>1, <1>4, Sizes DEF MainFirst, InsideLive, Exit
<1>8. NotStarted'
  <2>1. \A u \in Tid \ {main} : state[u] \in {"NONE", "READY"}
    BY <1>1, Sizes DEF JInv, Control, NotStarted
  <2> QED BY <1>5, <2>1 DEF NotStarted
<1>9. Sections' \/ Chain'
  BY <1>1 DEF JInv, Control, Sections, Chain
<1>10. Mutexes'
  BY <1>1, <1>4, MutexesKept DEF JInv
<1>11. Joins'
  BY <1>1, <1>4 DEF JInv, Joins, Waiters, Linked, MainJoins
<1> QED BY <1>6, <1>7, <1>8, <1>9, <1>10, <1>11 DEF JInv, Control

LEMMA MainWaitsJoin ==
    ASSUME PInv, JInv, MainWaits
    PROVE  JInv'
<1>1. /\ Len(tids) = N /\ waits < N /\ waits \in Nat /\ waits' = waits + 1
      /\ pc' = pc /\ tids' = tids
      /\ running = main /\ state[main] = "RUNNING"
      /\ pc[main] \in {"lock", "wait"}
  <2>1. Len(tids) = N /\ running \in {NULL, main} /\ cpu = "app" /\ waits < N
    BY DEF MainWaits, MainRuns, mwait_if_accepted, mwait
  <2>2. running = main /\ state[main] = "RUNNING"
    BY <2>1, AllCreated, Sizes DEF PInv, Inv, Processor
  <2> QED BY <2>1, <2>2 DEF MainWaits, JInv, Control, Sections, Chain, PInv, ProgramTypes
<1>2. PICK v \in 1 .. N : v = waits + 1
  BY <1>1, Sizes
<1>3. v \in Tid /\ v # main /\ tids[v] = IF state[v] = "NONE" THEN NULL ELSE v
  BY <1>1, Sizes DEF JInv, Control, Created
\* Main was not waiting before.
<1>4. \A b \in blockedWaiting :
          b.blocked \in Tid /\ b.blocked # main /\ state[b.blocked] = "BLOCKED"
  BY <1>1 DEF PInv, Inv, TypeOK, Waits, WaitingList
\* It waits for v, or goes on because v has ended (in the chain).
<1>5. /\ UNCHANGED <<nextTid, flag, queue>> /\ cpu' # "exited"
      /\ \/ /\ state' = [state EXCEPT ![main] = "BLOCKED"] /\ running' = NULL
            /\ blockedWaiting' = blockedWaiting \cup {[waited |-> v, blocked |-> main]}
         \/ /\ UNCHANGED <<state, running, blockedWaiting>>
            /\ Chain => Gone(v)
  <2>1. mwait_if_accepted(tids[v])
    BY <1>2 DEF MainWaits
  <2>2. CASE state[v] = "NONE"
    <3>1. tids[v] = NULL
      BY <1>3, <2>2
    <3> QED BY <2>1, <2>2, <3>1, Sizes DEF mwait_if_accepted, vars, Gone
  <2>3. CASE state[v] # "NONE" /\ mwait(v)
    BY <1>1, <2>3 DEF mwait
  <2>4. CASE state[v] # "NONE" /\ ~mwait(v)
    <3>1. /\ cpu = "app" /\ UNCHANGED vars
          /\ ~(tcb_exists(v) /\ ~find_blocked_waiting_tcb(v))
      BY <1>3, <2>1, <2>4 DEF mwait_if_accepted
    <3>2. ASSUME Chain PROVE ~find_blocked_waiting_tcb(v)
      <4> SUFFICES ASSUME NEW b \in blockedWaiting, b.waited = v PROVE FALSE
        BY DEF find_blocked_waiting_tcb
      <4>1. v = b.blocked + 1 /\ b.blocked \in 1 .. waits
        BY <1>1, <1>2, <1>4, Sizes DEF JInv, Joins, Waiters
      <4>2. Gone(b.blocked)
        BY <1>1, <3>2, <4>1 DEF JInv, Joins, MainJoins
      <4> QED BY <1>4, <4>2 DEF Gone
    <3>3. Chain => Gone(v)
      BY <1>1, <1>3, <3>1, <3>2, Sizes, RefusedIsGone
    <3> QED BY <3>1, <3>3 DEF vars
  <2> QED BY <2>2, <2>3, <2>4
<1>6. \A u \in Tid \ {main} : state'[u] = state[u]
  BY <1>5 DEF PInv, Inv, TypeOK
<1>7. Control'
  <2>1. Sections' \/ Chain'
    BY <1>1 DEF JInv, Control, Sections, Chain
  <2>2. Created'
    <3>1. \A i \in 1 .. N : i \in Tid /\ i # main
      BY Sizes
    <3> QED BY <1>1, <1>5, <1>6, <3>1 DEF JInv, Control, Created
  <2>3. MainFirst' /\ Exit'
    BY <1>1, <1>5, Sizes DEF MainFirst, Exit
  <2>4. NotStarted'
    BY <1>1, <1>6 DEF JInv, Control, NotStarted
  <2>5. InsideLive'
    BY <1>1, <1>6 DEF JInv, Control, InsideLive
  <2> QED BY <2>1, <2>2, <2>3, <2>4, <2>5 DEF Control
<1>8. Mutexes'
  BY <1>1, <1>5, MutexesKept DEF JInv
<1>9. Waiters'
  BY <1>1, <1>2, <1>4, <1>5 DEF JInv, Joins, Waiters
<1>10. Linked'
  <2> SUFFICES ASSUME NEW t \in Tid, pc[t] = "resumed", state'[t] # "BLOCKED"
               PROVE  Gone(t + 1)'
    BY <1>1 DEF Linked
  <2>1. t # main /\ t + 1 \in Tid \ {main}
    BY <1>1, Sizes DEF JInv, Control, Sections, Chain
  <2> QED BY <1>6, <2>1 DEF JInv, Joins, Linked, Gone
<1>11. MainJoins'
  <2> SUFFICES ASSUME Chain, NEW u \in 1 .. waits + 1
               PROVE  Gone(u)' \/ (u = waits + 1 /\ state'[main] = "BLOCKED")
    BY <1>1 DEF MainJoins, Chain
  <2>1. u \in Tid \ {main}
    BY <1>1, Sizes
  <2>2. CASE u = v
    BY <1>2, <1>5, <1>6, <2>1, <2>2, Sizes DEF Gone, PInv, Inv, TypeOK
  <2>3. CASE u # v
    <3>1. Gone(u)
      BY <1>1, <1>2, <2>3 DEF JInv, Joins, MainJoins
    <3> QED BY <1>6, <2>1, <3>1 DEF Gone
  <2> QED BY <2>2, <2>3
<1> QED BY <1>7, <1>8, <1>9, <1>10, <1>11 DEF JInv, Joins

LEMMA MainReturnsJoin ==
    ASSUME PInv, JInv, MainReturns
    PROVE  JInv'
<1>1. /\ waits = N /\ running = main /\ Len(tids) = N
  BY AllCreated, Sizes DEF MainReturns, main_returns, JInv, Control, Created
<1>2. UNCHANGED <<nextTid, state, running, blockedWaiting, flag, queue, pc, tids, waits>>
  BY DEF MainReturns, main_returns
<1>3. Control'
  BY <1>1, <1>2, Sizes DEF JInv, Control, Sections, Chain, Created, MainFirst, NotStarted, InsideLive, Exit
<1>4. Mutexes'
  BY <1>2, MutexesKept DEF JInv
<1>5. Joins'
  BY <1>2 DEF JInv, Joins, Waiters, Linked, MainJoins, Chain, Gone
<1> QED BY <1>3, <1>4, <1>5 DEF JInv

-----------------------------------------------------------------------------
(* The scheduler. *)

LEMMA DispatchJoins ==
    ASSUME PInv, JInv, NEW p \in schedule_scan, dispatch(p), UNCHANGED <<pc, tids, waits>>
    PROVE  JInv'
<1>1. PICK h \in Tid : h = Head(ready[p]) /\ state[h] = "READY"
  <2>1. p \in Prio /\ ready[p] \in Seq(Tid) /\ ready[p] # <<>>
    BY DEF schedule_scan, Prio, dispatch, PInv, Inv, TypeOK
  <2>2. Len(ready[p]) \in Nat \ {0} /\ Head(ready[p]) = ready[p][1] /\ ready[p][1] \in Tid
    BY <2>1, TailAt
  <2> QED BY <2>1, <2>2 DEF PInv, Inv, ReadyQueues
<1>2. /\ Len(tids) = N /\ running = NULL
  BY Sizes DEF dispatch, JInv, Control, MainFirst, PInv, Inv, RunningWhileApp, ProgramTypes
<1>3. /\ running' = h /\ state'[h] = "RUNNING" /\ cpu' = "app"
      /\ \A u \in Tid \ {h} : state'[u] = state[u]
      /\ UNCHANGED <<nextTid, blockedWaiting, flag, queue>>
  BY <1>1 DEF dispatch, PInv, Inv, TypeOK
<1>4. Control'
  <2>1. Created'
    <3>1. \A i \in 1 .. Len(tids) : i \in Tid /\ (state'[i] = "NONE" <=> state[i] = "NONE")
      BY <1>1, <1>2, <1>3, Sizes
    <3> QED BY <1>3, <3>1 DEF JInv, Control, Created
  <2>2. MainFirst' /\ Exit'
    BY <1>2, <1>3, Sizes DEF MainFirst, Exit
  <2>3. NotStarted'
    BY <1>2, <1>3, Sizes DEF JInv, Control, NotStarted
  <2>4. InsideLive'
    BY <1>3 DEF JInv, Control, InsideLive
  <2> QED BY <2>1, <2>2, <2>3, <2>4 DEF JInv, Control, Sections, Chain
<1>5. Mutexes'
  BY <1>3, MutexesKept DEF JInv
<1>6. Waiters'
  BY <1>3 DEF JInv, Joins, Waiters
<1>7. \A u \in Tid : Gone(u) => Gone(u)'
  BY <1>1, <1>3 DEF Gone
<1>8. Linked'
  <2> SUFFICES ASSUME NEW t \in Tid, pc[t] = "resumed", state'[t] # "BLOCKED"
               PROVE  Gone(t + 1)'
    BY DEF Linked
  <2>1. t + 1 \in Tid
    BY Sizes DEF JInv, Control, Sections, Chain
  <2>2. state[t] # "BLOCKED"
    BY <1>1, <1>3
  <2> QED BY <1>7, <2>1, <2>2 DEF JInv, Joins, Linked
<1>9. MainJoins'
  <2>1. \A v \in 1 .. waits : v \in Tid
    BY Sizes DEF PInv, ProgramTypes
  <2>2. state[main] = "BLOCKED" => state'[main] = "BLOCKED"
    BY <1>1, <1>3, Sizes
  <2> QED BY <1>7, <2>1, <2>2 DEF JInv, Joins, MainJoins, Chain
<1> QED BY <1>4, <1>5, <1>6, <1>8, <1>9 DEF JInv, Joins

\* Steps after which all but the processor is as before.
LEMMA QuietJoins ==
    ASSUME PInv, JInv, cpu' \in {cpu, "drained"}, Len(tids) = N \/ cpu' = cpu,
           UNCHANGED <<nextTid, state, running, blockedWaiting, flag, queue, pc, tids, waits>>
    PROVE  JInv'
<1>1. Control'
  BY Sizes DEF JInv, Control, Sections, Chain, Created, MainFirst, NotStarted, InsideLive, Exit
<1>2. Mutexes'
  BY MutexesKept DEF JInv
<1>3. Joins'
  BY DEF JInv, Joins, Waiters, Linked, MainJoins, Chain, Gone
<1> QED BY <1>1, <1>2, <1>3 DEF JInv

LEMMA ScheduleJoins ==
    ASSUME PInv, JInv, LibrarySchedules
    PROVE  JInv'
<1>1. CASE nothing_ready
  <2>1. Len(tids) = N
    BY <1>1, Sizes DEF nothing_ready, JInv, Control, MainFirst, PInv, ProgramTypes
  <2> QED BY <1>1, <2>1, QuietJoins DEF LibrarySchedules, nothing_ready
<1>2. ASSUME NEW p \in schedule_scan, dispatch(p) PROVE JInv'
  BY <1>2, DispatchJoins DEF LibrarySchedules
<1> QED BY <1>1, <1>2 DEF LibrarySchedules, schedule

-----------------------------------------------------------------------------
(* Initially, and step by step. *)

LEMMA InitJoins == PInit => JInv
<1> SUFFICES ASSUME PInit PROVE JInv
  OBVIOUS
<1>1. /\ nextTid = 0 /\ tids = <<>> /\ Len(tids) = 0 /\ waits = 0 /\ cpu = "app" /\ running = NULL
      /\ blockedWaiting = {}
      /\ \A t \in Tid : state[t] = "NONE"
      /\ \A m \in Mutex : Len(queue[m]) = 0 /\ flag[m] = "UNLOCKED"
  BY EmptySeq DEF PInit, Init
<1>2. Sections \/ Chain
  BY Sizes DEF PInit, critical_sections, chain_of_waits, Sections, Chain
<1>3. \A t \in Tid : pc[t] \in {"lock", "wait", "pass"}
  BY DEF PInit, critical_sections, chain_of_waits
<1>4. Control
  BY <1>1, <1>2, <1>3, Sizes DEF Control, Created, MainFirst, NotStarted, InsideLive, Exit
<1>5. Mutexes
  BY <1>1, Sizes DEF Mutexes, Sleepers, Holder
<1>6. Joins
  BY <1>1, <1>3 DEF Joins, Waiters, Linked, MainJoins
<1> QED BY <1>4, <1>5, <1>6 DEF JInv

LEMMA JoinsStep == PInv /\ JInv /\ [PNext]_pvars => JInv'
<1> SUFFICES ASSUME PInv, JInv, [PNext]_pvars PROVE JInv'
  OBVIOUS
<1>1. CASE MainCreates
  BY <1>1, CreatesJoin
<1>2. CASE MainWaits
  BY <1>2, MainWaitsJoin
<1>3. CASE MainReturns
  BY <1>3, MainReturnsJoin
<1>4. CASE WorkerLocks
  BY <1>4, LocksJoin
<1>5. CASE WorkerYields
  BY <1>5, YieldsJoin
<1>6. CASE WorkerUnlocks
  BY <1>6, UnlocksJoin
<1>7. CASE WorkerReturns \/ ThreadEnds
  BY <1>7, TerminateJoins DEF WorkerReturns, ThreadEnds, WorkerCalls
<1>8. CASE ThreadWaits
  BY <1>8, ThreadWaitsJoin
<1>9. CASE ThreadYields
  BY <1>9, ThreadYieldsJoin
<1>10. CASE LibrarySchedules
  BY <1>10, ScheduleJoins
<1>11. CASE ProgramEnded \/ UNCHANGED pvars
  BY <1>11, QuietJoins DEF ProgramEnded, pvars, vars
<1> QED BY <1>1, <1>2, <1>3, <1>4, <1>5, <1>6, <1>7, <1>8, <1>9, <1>10, <1>11 DEF PNext

LEMMA JoinsInvariance == PSpec => [](PInv /\ JInv)
BY ProgramInv, PInvStep, InitJoins, JoinsStep, PTL DEF PSpec

-----------------------------------------------------------------------------
(* Deadlock. *)

\* Among numbers with a bound there is a greatest one.
LEMMA Greatest ==
    ASSUME NEW S, S \subseteq Tid, S # {}
    PROVE  \E x \in S : \A y \in S : y <= x
<1> DEFINE D == { MaxTid - x : x \in S }
<1>1. D \subseteq Nat /\ D # {}
  <2>1. \A x \in S : MaxTid - x \in Nat
    BY Sizes
  <2> QED BY <2>1
<1>2. PICK d \in D : \A y \in D : ~(<<y, d>> \in OpToRel(<, Nat))
  BY <1>1, NatLessThanWellFounded, WFMin, Zenon
<1>3. \A y \in D : <<y, d>> \in OpToRel(<, Nat) <=> y < d
  BY <1>1, Zenon DEF OpToRel
<1>4. PICK x \in S : d = MaxTid - x
  OBVIOUS
<1>5. ASSUME NEW y \in S PROVE y <= x
  <2>1. MaxTid - y \in D
    OBVIOUS
  <2>2. ~(MaxTid - y < d)
    BY <1>2, <1>3, <2>1, Zenon
  <2> QED BY <1>4, <2>2, Sizes
<1> QED BY <1>5

\* In a deadlock main waits for a live thread, so everybody waits for
\* somebody; but the one inside the critical section waits for nobody, and
\* the last live thread of the chain has nobody to wait for.
LEMMA NoDeadlock == PInv /\ JInv /\ DrainedIsDeadlock => NeverDrained
<1> SUFFICES ASSUME PInv, JInv, DrainedIsDeadlock, cpu = "drained" PROVE FALSE
  BY DEF NeverDrained
<1>1. /\ Live(main)
      /\ \A t \in Tid : Live(t) =>
            tcb_is_blocked_waiting(t) \/ \E m \in Mutex : find_thread(queue[m], t)
  BY DEF DrainedIsDeadlock
<1>2. \A m \in Mutex : \A t : find_thread(queue[m], t) => m = mutex /\ pc[t] = "yield"
  BY DEF find_thread, JInv, Mutexes, Sleepers
<1>3. \A b \in blockedWaiting :
          /\ b.blocked \in Tid /\ b.waited \in Tid /\ b.waited # b.blocked
          /\ state[b.blocked] = "BLOCKED" /\ Live(b.waited)
  BY DEF PInv, Inv, TypeOK, Waits, WaitingList
<1>4. PICK w \in Tid \ {main} : Live(w)
  <2>1. tcb_is_blocked_waiting(main)
    BY <1>1, <1>2, Sizes DEF JInv, Control, Sections, Chain
  <2> QED BY <1>3, <2>1 DEF tcb_is_blocked_waiting
<1>5. CASE Sections
  <2>1. \A t \in Tid \ {main} : ~tcb_is_blocked_waiting(t)
    BY <1>5 DEF tcb_is_blocked_waiting, JInv, Joins, Waiters, Sections
  <2>2. mutex \in Mutex /\ find_thread(queue[mutex], w)
    BY <1>1, <1>2, <1>4, <2>1
  <2>3. flag[mutex] = "LOCKED"
    <3>1. Len(queue[mutex]) # 0
      BY <2>2, Sizes DEF find_thread
    <3> QED BY <2>2, <3>1, EmptySeq DEF PInv, Inv, WaitersOnlyBehindLock
  <2>4. PICK t \in Tid : Inside(t)
    BY <2>3 DEF JInv, Mutexes, Holder
  <2>5. t # main /\ Live(t)
    BY <1>5, <2>4, Sizes DEF Inside, Sections, Live, JInv, Control, InsideLive
  <2> QED BY <1>1, <1>2, <2>1, <2>4, <2>5 DEF Inside
<1>6. CASE Chain
  <2>1. PICK x \in Tid \ {main} :
            Live(x) /\ \A y \in Tid \ {main} : Live(y) => y <= x
    <3> DEFINE S == { y \in Tid \ {main} : Live(y) }
    <3>1. S \subseteq Tid /\ S # {}
      BY <1>4
    <3> HIDE DEF S
    <3>2. PICK x \in S : \A y \in S : y <= x
      BY <3>1, Greatest
    <3> QED BY <3>2 DEF S
  <2>2. tcb_is_blocked_waiting(x)
    BY <1>1, <1>2, <1>6, <2>1, Sizes DEF Chain
  <2>3. PICK b \in blockedWaiting : b.blocked = x
    BY <2>2 DEF tcb_is_blocked_waiting
  <2>4. b.waited = x + 1
    BY <2>1, <2>3 DEF JInv, Joins, Waiters
  <2> QED BY <1>3, <2>1, <2>3, <2>4, Sizes
<1> QED BY <1>5, <1>6 DEF JInv, Control

-----------------------------------------------------------------------------
(***************************************************************************)
(* That main joins every worker with a critical section is a matter of     *)
(* order.  mwait refuses a live thread when that is in the queue of the    *)
(* mutex; main passes over the refusal and could return too early.  The    *)
(* inductive invariant Turns excludes it: the worker that holds the mutex  *)
(* has the priority of the refused one, because workers of a lower         *)
(* priority begin after those of a higher one have ended, and was created  *)
(* before it, because workers of one priority take the mutex in the order  *)
(* of their creation; so main, which waits for them in that order, has     *)
(* already joined the holder, and there is none.                           *)
(***************************************************************************)
\* Worker t has run, or runs.
Begun(t) == pc[t] # "lock" \/ running = t

\* Worker t has the mutex or has had it.
Entered(t) == pc[t] # "lock" /\ ~find_thread(queue[mutex], t)

Left(t) == pc[t] \in {"return", "done"}

\* A worker does not begin before those of a higher priority have ended.
HigherEnded ==
    \A s, t \in Tid \ {main} : prio[s] < prio[t] /\ Begun(t) => Gone(s)

\* Workers of one priority begin, and leave the critical section, in the
\* order in which main created them.
InOrder ==
    \A s, t \in Tid \ {main} :
        s < t /\ prio[s] = prio[t] /\ state[s] # "NONE" =>
            /\ Begun(t) => pc[s] # "lock"
            /\ Entered(t) => Left(s)

\* The queues that keep this order.
ReadyInOrder ==
    \A p \in Prio : \A i, j \in 1 .. Len(ready[p]) :
        LET s == ready[p][i]
            t == ready[p][j]
        IN  i < j /\ main \notin {s, t} /\ pc[s] = "lock" /\ pc[t] = "lock" => s < t

QueueInOrder ==
    \A i, j \in 1 .. Len(queue[mutex]) :
        i < j /\ prio[queue[mutex][i]] = prio[queue[mutex][j]] =>
            queue[mutex][i] < queue[mutex][j]

Joined == \A v \in 1 .. waits : Gone(v) \/ (v = waits /\ state[main] = "BLOCKED")

Turns == HigherEnded /\ InOrder /\ ReadyInOrder /\ QueueInOrder /\ Joined

-----------------------------------------------------------------------------
(* What a step that leaves the order alone must do. *)

LEMMA HigherKept ==
    ASSUME HigherEnded, prio' = prio,
           \A t \in Tid \ {main} : (Begun(t)' => Begun(t)) /\ (Gone(t) => Gone(t)')
    PROVE  HigherEnded'
BY DEF HigherEnded

LEMMA InOrderKept ==
    ASSUME InOrder, prio' = prio,
           \A t \in Tid \ {main} :
              /\ Begun(t)' => Begun(t)
              /\ state'[t] # "NONE" => state[t] # "NONE"
              /\ pc[t] # "lock" => pc'[t] # "lock"
              /\ Left(t) => Left(t)',
           \A t \in Tid \ {main} : Entered(t)' =>
              \/ Entered(t)
              \/ \A s \in Tid \ {main} :
                    s < t /\ prio[s] = prio[t] /\ state[s] # "NONE" => Left(s)'
    PROVE  InOrder'
<1> SUFFICES ASSUME NEW s \in Tid \ {main}, NEW t \in Tid \ {main},
                    s < t, prio[s] = prio[t], state'[s] # "NONE"
             PROVE  /\ Begun(t)' => pc'[s] # "lock"
                    /\ Entered(t)' => Left(s)'
  BY DEF InOrder
<1>1. state[s] # "NONE"
  OBVIOUS
<1>2. Begun(t) => pc[s] # "lock"
  BY <1>1 DEF InOrder
<1>3. Entered(t) => Left(s)
  BY <1>1 DEF InOrder
<1> QED BY <1>1, <1>2, <1>3

LEMMA ReadyInOrderKept ==
    ASSUME ReadyInOrder,
           \A p \in Prio : \A i \in 1 .. Len(ready'[p]) :
              \/ ready'[p][i] = main
              \/ pc'[ready'[p][i]] # "lock"
              \/ /\ i \in 1 .. Len(ready[p]) /\ ready'[p][i] = ready[p][i]
                 /\ pc[ready[p][i]] = "lock"
    PROVE  ReadyInOrder'
BY DEF ReadyInOrder

\* The queue of a thread that is appended to the ready queue of its priority.
LEMMA EnqueuedAt ==
    ASSUME TypeOK, NEW t \in Tid, NEW q \in Prio, ready' = enqueue_ready(t, q)
    PROVE  \A p \in Prio : \A i \in 1 .. Len(ready'[p]) :
              \/ p = q /\ ready'[p][i] = t /\ i = Len(ready[p]) + 1
              \/ i \in 1 .. Len(ready[p]) /\ ready'[p][i] = ready[p][i] /\ ready[p][i] \in Tid
<1> SUFFICES ASSUME NEW p \in Prio, NEW i \in 1 .. Len(ready'[p])
             PROVE  \/ p = q /\ ready'[p][i] = t /\ i = Len(ready[p]) + 1
                    \/ i \in 1 .. Len(ready[p]) /\ ready'[p][i] = ready[p][i] /\ ready[p][i] \in Tid
  OBVIOUS
<1>1. ready[p] \in Seq(Tid)
  BY DEF TypeOK
<1>2. CASE p = q
  <2>1. ready'[p] = Append(ready[p], t)
    BY <1>2 DEF enqueue_ready, TypeOK
  <2>2. /\ Len(ready[p]) \in Nat /\ Len(ready'[p]) = Len(ready[p]) + 1
        /\ ready'[p][Len(ready[p]) + 1] = t
        /\ \A k \in 1 .. Len(ready[p]) : ready'[p][k] = ready[p][k] /\ ready[p][k] \in Tid
    BY <1>1, <2>1, AppendAt
  <2> QED BY <1>2, <2>2
<1>3. CASE p # q
  BY <1>1, <1>3 DEF enqueue_ready, TypeOK
<1> QED BY <1>2, <1>3

LEMMA JoinedKept ==
    ASSUME Joined, waits \in Nat, waits' = waits,
           \A v \in 1 .. waits : Gone(v) => Gone(v)',
           state[main] = "BLOCKED" => state'[main] = "BLOCKED" \/ Gone(waits)'
    PROVE  Joined'
BY DEF Joined

-----------------------------------------------------------------------------
(* The program with critical sections. *)

\* Nobody but main waits in mwait, and the threads in the queue of the mutex
\* are workers that have begun.
LEMMA Workers ==
    ASSUME PInv, JInv, Sections
    PROVE  /\ pc \in [Tid -> {"lock", "yield", "unlock", "wait", "resumed", "pass", "return", "done"}]
           /\ state \in [Tid -> {"NONE", "READY", "RUNNING", "BLOCKED", "TERMINATED"}]
           /\ prio \in [Tid -> Prio]
           /\ \A t \in Tid \ {main} : state[t] # "BLOCKED"
           /\ queue[mutex] \in Seq(Tid)
           /\ \A a \in 1 .. Len(queue[mutex]) :
                 /\ queue[mutex][a] \in Tid \ {main} /\ queue[mutex][a] # running
                 /\ pc[queue[mutex][a]] = "yield"
           /\ waits \in Nat /\ waits <= N
<1>1. \A t \in Tid \ {main} : state[t] # "BLOCKED"
  <2> SUFFICES ASSUME NEW t \in Tid \ {main}, state[t] = "BLOCKED" PROVE FALSE
    OBVIOUS
  <2>1. PICK b \in blockedWaiting : b.blocked = t
    BY DEF PInv, Inv, WaitingList
  <2>2. pc[t] = "resumed"
    BY <2>1 DEF JInv, Joins, Waiters
  <2> QED BY <2>2 DEF Sections
<1>2. queue[mutex] \in Seq(Tid)
  BY Sizes DEF PInv, Inv, TypeOK
<1>3. ASSUME NEW a \in 1 .. Len(queue[mutex])
      PROVE  /\ queue[mutex][a] \in Tid \ {main} /\ queue[mutex][a] # running
             /\ pc[queue[mutex][a]] = "yield"
  <2>1. queue[mutex][a] \in Tid
    BY <1>2, <1>3
  <2>2. pc[queue[mutex][a]] = "yield"
    BY <1>3, Sizes DEF JInv, Mutexes, Sleepers
  <2>3. queue[mutex][a] # running
    BY <1>3, Sizes DEF PInv, Inv, MutexQueues, Parked
  <2> QED BY <2>1, <2>2, <2>3 DEF Sections
<1> QED BY <1>1, <1>2, <1>3, Sizes DEF PInv, Inv, TypeOK, ProgramTypes

\* A worker that is called from label "from" and is now at label "to".
LEMMA CallOrder ==
    ASSUME PInv, JInv, Sections, Turns, running \in Tid \ {main}, NEW to,
           to # "lock", pc' = [pc EXCEPT ![running] = to],
           pc[running] \in {"return", "done"} => to \in {"return", "done"},
           UNCHANGED <<prio, waits>>, running' \in {running, NULL},
           \A u \in Tid : (Gone(u) => Gone(u)') /\ (state'[u] # "NONE" => state[u] # "NONE"),
           state[main] = "BLOCKED" => state'[main] = "BLOCKED" \/ Gone(waits)',
           \A t \in Tid \ {main} : Entered(t)' =>
              \/ Entered(t)
              \/ \A s \in Tid \ {main} :
                    s < t /\ prio[s] = prio[t] /\ state[s] # "NONE" => Left(s)'
    PROVE  HigherEnded' /\ InOrder' /\ Joined'
<1>1. \A t \in Tid : t # running => pc'[t] = pc[t]
  BY Workers
<1>2. pc'[running] = to
  BY Workers
<1>3. \A t \in Tid \ {main} : Begun(t)' => Begun(t)
  BY <1>1, Sizes DEF Begun
<1>4. \A t \in Tid \ {main} : (pc[t] # "lock" => pc'[t] # "lock") /\ (Left(t) => Left(t)')
  BY <1>1, <1>2 DEF Left
<1>5. HigherEnded'
  BY <1>3, HigherKept DEF Turns
<1>6. InOrder'
  BY <1>3, <1>4, InOrderKept DEF Turns
<1>7. Joined'
  <2>1. \A v \in 1 .. waits : v \in Tid
    BY Workers, Sizes
  <2> QED BY <2>1, Workers, JoinedKept DEF Turns
<1> QED BY <1>5, <1>6, <1>7

\* The ready queues after such a call, which makes nobody ready but main and
\* workers that have begun.
LEMMA CallReady ==
    ASSUME PInv, JInv, Sections, Turns, running \in Tid \ {main}, NEW to,
           to # "lock", pc' = [pc EXCEPT ![running] = to],
           \/ ready' = ready
           \/ \E t \in Tid : /\ ready' = enqueue_ready(t, prio[t])
                             /\ t = main \/ pc'[t] # "lock"
    PROVE  ReadyInOrder'
<1>1. \A t \in Tid : pc'[t] = "lock" => pc[t] = "lock"
  BY Workers
<1>2. \A p \in Prio : \A i \in 1 .. Len(ready[p]) : ready[p][i] \in Tid
  BY DEF PInv, Inv, TypeOK
<1>3. CASE ready' = ready
  BY <1>1, <1>2, <1>3, ReadyInOrderKept DEF Turns
<1>4. ASSUME NEW t \in Tid, ready' = enqueue_ready(t, prio[t]), t = main \/ pc'[t] # "lock"
      PROVE  ReadyInOrder'
  <2>1. prio[t] \in Prio
    BY Workers
  <2>2. \A p \in Prio : \A i \in 1 .. Len(ready'[p]) :
            \/ ready'[p][i] = t
            \/ i \in 1 .. Len(ready[p]) /\ ready'[p][i] = ready[p][i] /\ ready[p][i] \in Tid
    BY <1>4, <2>1, EnqueuedAt DEF PInv, Inv
  <2> QED BY <1>1, <1>4, <2>2, ReadyInOrderKept DEF Turns
<1> QED BY <1>3, <1>4

-----------------------------------------------------------------------------
(* The calls of a worker. *)

\* A call after which the queue of the mutex is as before.
LEMMA QueueKept ==
    ASSUME QueueInOrder, prio' = prio, queue' = queue
    PROVE  QueueInOrder'
BY DEF QueueInOrder

LEMMA FreeLockTurns ==
    ASSUME PInv, JInv, Sections, Turns, WorkerLocks, mlock_free(mutex)
    PROVE  Turns'
<1>1. /\ running \in Tid \ {main} /\ pc[running] = "lock"
      /\ pc' = [pc EXCEPT ![running] = "yield"]
      /\ UNCHANGED <<prio, waits, state, ready, queue>> /\ running' = running
      /\ flag[mutex] = "UNLOCKED"
  BY DEF WorkerLocks, WorkerCalls, mlock_free
<1>2. pc'[running] = "yield" /\ \A t \in Tid : t # running => pc'[t] = pc[t]
  BY <1>1, Workers
\* The mutex is free: who has begun has left.
<1>3. ASSUME NEW s \in Tid, pc[s] # "lock", s # main PROVE Left(s)
  <2>1. ~Inside(s)
    BY <1>1 DEF PInv, Excluded, InsideLocked
  <2>2. ~find_thread(queue[mutex], s)
    <3>1. queue[mutex] = <<>>
      BY <1>1, Sizes DEF PInv, Inv, WaitersOnlyBehindLock
    <3> QED BY <3>1, EmptySeq DEF find_thread
  <2> QED BY <1>3, <2>1, <2>2 DEF Inside, Left, Sections
<1>4. ASSUME NEW t \in Tid \ {main}, Entered(t)'
      PROVE  \/ Entered(t)
             \/ \A s \in Tid \ {main} : s < t /\ prio[s] = prio[t] /\ state[s] # "NONE" => Left(s)'
  <2>1. CASE t # running
    BY <1>1, <1>2, <1>4, <2>1 DEF Entered, find_thread
  <2>2. CASE t = running
    <3> SUFFICES ASSUME NEW s \in Tid \ {main}, s < t, prio[s] = prio[t], state[s] # "NONE"
                 PROVE  Left(s)'
      OBVIOUS
    <3>1. pc[s] # "lock"
      BY <2>2 DEF Turns, InOrder, Begun
    <3>2. s # running
      BY <1>1, <3>1
    <3> QED BY <1>2, <1>3, <3>1, <3>2 DEF Left
  <2> QED BY <2>1, <2>2
<1>5. HigherEnded' /\ InOrder' /\ Joined'
  BY <1>1, <1>4, CallOrder DEF Gone
<1>6. ReadyInOrder'
  BY <1>1, CallReady
<1>7. QueueInOrder'
  BY <1>1, QueueKept DEF Turns
<1> QED BY <1>5, <1>6, <1>7 DEF Turns

LEMMA TakenLockTurns ==
    ASSUME PInv, JInv, Sections, Turns, WorkerLocks, mlock_taken(mutex)
    PROVE  Turns'
<1>1. /\ running \in Tid \ {main} /\ pc[running] = "lock"
      /\ pc' = [pc EXCEPT ![running] = "yield"]
      /\ UNCHANGED <<prio, waits, state, ready>> /\ running' = NULL
      /\ queue'[mutex] = Append(queue[mutex], running)
  BY Sizes DEF WorkerLocks, WorkerCalls, mlock_taken, PInv, Inv, TypeOK
<1>2. pc'[running] = "yield" /\ \A t \in Tid : t # running => pc'[t] = pc[t]
  BY <1>1, Workers
<1>3. /\ Len(queue[mutex]) \in Nat /\ Len(queue'[mutex]) = Len(queue[mutex]) + 1
      /\ queue'[mutex][Len(queue[mutex]) + 1] = running
      /\ \A i \in 1 .. Len(queue[mutex]) : queue'[mutex][i] = queue[mutex][i]
  BY <1>1, Workers, AppendAt
<1>4. ASSUME NEW t \in Tid \ {main}, Entered(t)'
      PROVE  Entered(t)
  <2>1. t # running
    BY <1>3, <1>4 DEF Entered, find_thread
  <2> QED BY <1>2, <1>3, <1>4, <2>1 DEF Entered, find_thread
<1>5. HigherEnded' /\ InOrder' /\ Joined'
  BY <1>1, <1>4, CallOrder DEF Gone
<1>6. ReadyInOrder'
  BY <1>1, CallReady
\* Those in the queue have begun: the caller was created after them.
<1>7. QueueInOrder'
  <2> SUFFICES ASSUME NEW i \in 1 .. Len(queue'[mutex]), NEW j \in 1 .. Len(queue'[mutex]),
                      i < j, prio[queue'[mutex][i]] = prio[queue'[mutex][j]]
               PROVE  queue'[mutex][i] < queue'[mutex][j]
    BY <1>1 DEF QueueInOrder
  <2>1. i \in 1 .. Len(queue[mutex]) /\ queue'[mutex][i] = queue[mutex][i]
    BY <1>3
  <2>2. CASE j \in 1 .. Len(queue[mutex])
    BY <1>3, <2>1, <2>2 DEF Turns, QueueInOrder
  <2>3. CASE j = Len(queue[mutex]) + 1
    <3>1. PICK u \in Tid \ {main} : u = queue[mutex][i] /\ u # running /\ pc[u] = "yield"
      BY <2>1, Workers
    <3>2. queue'[mutex][j] = running
      BY <1>3, <2>3
    <3>3. state[running] # "NONE"
      BY <1>1, Caller
    <3>4. ~(running < u)
      BY <1>1, <2>1, <3>1, <3>2, <3>3 DEF Turns, InOrder, Begun
    <3> QED BY <1>1, <2>1, <3>1, <3>2, <3>4, Sizes
  <2> QED BY <1>3, <2>2, <2>3
<1> QED BY <1>5, <1>6, <1>7 DEF Turns

LEMMA YieldTurns ==
    ASSUME PInv, JInv, Sections, Turns, WorkerYields
    PROVE  Turns'
<1>1. /\ running \in Tid \ {main} /\ pc[running] = "yield"
      /\ pc' = [pc EXCEPT ![running] = "unlock"]
      /\ UNCHANGED <<prio, waits, queue>> /\ running' = NULL
      /\ state' = [state EXCEPT ![running] = "READY"]
      /\ ready' = enqueue_ready(running, prio[running])
  BY DEF WorkerYields, WorkerCalls, myield
<1>2. pc'[running] = "unlock" /\ \A t \in Tid : t # running => pc'[t] = pc[t]
  BY <1>1, Workers
<1>3. \A t \in Tid \ {main} : Entered(t)' => Entered(t)
  BY <1>1, <1>2 DEF Entered, find_thread
<1>4. state[running] = "RUNNING" /\ \A u \in Tid : u # running => state'[u] = state[u]
  BY <1>1, Caller
<1>5. \A u \in Tid : (Gone(u) => Gone(u)') /\ (state'[u] # "NONE" => state[u] # "NONE")
  BY <1>4 DEF Gone
<1>6. state[main] = "BLOCKED" => state'[main] = "BLOCKED"
  BY <1>1, <1>4, Sizes
<1>7. HigherEnded' /\ InOrder' /\ Joined'
  BY <1>1, <1>3, <1>5, <1>6, CallOrder
<1>8. ReadyInOrder'
  BY <1>1, <1>2, CallReady
<1>9. QueueInOrder'
  BY <1>1, QueueKept DEF Turns
<1> QED BY <1>7, <1>8, <1>9 DEF Turns

LEMMA FreeUnlockTurns ==
    ASSUME PInv, JInv, Sections, Turns, WorkerUnlocks, munlock_free(mutex)
    PROVE  Turns'
<1>1. /\ running \in Tid \ {main} /\ pc[running] = "unlock"
      /\ pc' = [pc EXCEPT ![running] = "return"]
      /\ UNCHANGED <<prio, waits, state, ready, queue>> /\ running' = running
  BY DEF WorkerUnlocks, WorkerCalls, munlock_free
<1>2. \A t \in Tid \ {main} : Entered(t)' => Entered(t)
  BY <1>1, Workers DEF Entered, find_thread
<1>3. HigherEnded' /\ InOrder' /\ Joined'
  BY <1>1, <1>2, CallOrder DEF Gone
<1>4. ReadyInOrder'
  BY <1>1, CallReady
<1>5. QueueInOrder'
  BY <1>1, QueueKept DEF Turns
<1> QED BY <1>3, <1>4, <1>5 DEF Turns

LEMMA HandoverTurns ==
    ASSUME PInv, JInv, Sections, Turns, WorkerUnlocks, munlock_handover(mutex)
    PROVE  Turns'
<1>1. /\ running \in Tid \ {main} /\ pc[running] = "unlock"
      /\ pc' = [pc EXCEPT ![running] = "return"]
      /\ UNCHANGED <<prio, waits>> /\ running' = running
      /\ queue[mutex] # <<>> /\ queue'[mutex] = Tail(queue[mutex])
  BY Sizes DEF WorkerUnlocks, WorkerCalls, munlock_handover, wake_first_waiter, no_waiters,
     PInv, Inv, TypeOK
<1>2. pc'[running] = "return" /\ \A t \in Tid : t # running => pc'[t] = pc[t]
  BY <1>1, Workers
<1>3. PICK h \in Tid : h = Head(queue[mutex])
  BY <1>1, Workers, TailAt
<1>4. /\ Len(queue[mutex]) \in Nat \ {0} /\ h = queue[mutex][1]
      /\ Len(queue'[mutex]) = Len(queue[mutex]) - 1
      /\ \A i \in 1 .. Len(queue[mutex]) - 1 : queue'[mutex][i] = queue[mutex][i + 1]
  BY <1>1, <1>3, Workers, TailAt
<1>5. h \in Tid \ {main} /\ h # running /\ pc[h] = "yield" /\ state[h] = "RUNNING"
  <2>1. 1 \in 1 .. Len(queue[mutex])
    BY <1>4
  <2>2. state[h] = "RUNNING"
    BY <1>4, <2>1, Sizes DEF PInv, Inv, MutexQueues, Parked
  <2> QED BY <1>4, <2>1, <2>2, Workers
<1>6. state' = [state EXCEPT ![h] = "READY"] /\ ready' = enqueue_ready(h, prio[h])
  BY <1>3 DEF WorkerUnlocks, WorkerCalls, munlock_handover, wake_first_waiter
<1>7. ASSUME NEW t \in Tid \ {main}, Entered(t)'
      PROVE  \/ Entered(t)
             \/ \A s \in Tid \ {main} : s < t /\ prio[s] = prio[t] /\ state[s] # "NONE" => Left(s)'
  <2>1. pc[t] # "lock"
    BY <1>1, <1>2, <1>7 DEF Entered
  <2>2. CASE t # h
    <3>1. ASSUME NEW a \in 1 .. Len(queue[mutex]), queue[mutex][a] = t PROVE FALSE
      <4>1. a - 1 \in 1 .. Len(queue'[mutex]) /\ queue'[mutex][a - 1] = t
        BY <1>4, <2>2, <3>1
      <4> QED BY <1>7, <4>1 DEF Entered, find_thread
    <3> QED BY <2>1, <3>1 DEF Entered, find_thread
  <2>3. CASE t = h
    <3> SUFFICES ASSUME NEW s \in Tid \ {main}, s < t, prio[s] = prio[t], state[s] # "NONE"
                 PROVE  Left(s)'
      OBVIOUS
    <3>1. pc[s] # "lock"
      BY <1>5, <2>3 DEF Turns, InOrder, Begun
    \* Who was created before the first in the queue is not in it.
    <3>2. ~find_thread(queue[mutex], s)
      <4> SUFFICES ASSUME NEW a \in 1 .. Len(queue[mutex]), queue[mutex][a] = s PROVE FALSE
        BY DEF find_thread
      <4>1. 1 \in 1 .. Len(queue[mutex]) /\ 1 < a
        BY <1>4, <2>3, Sizes
      <4>2. queue[mutex][1] < queue[mutex][a]
        BY <1>4, <2>3, <4>1 DEF Turns, QueueInOrder
      <4> QED BY <1>4, <2>3, <4>2, Sizes
    \* If it is inside, it is the caller, which leaves.
    <3>3. CASE Inside(s)
      <4>1. Inside(running) /\ running \in Tid
        BY <1>1, Caller, Sizes DEF Inside
      <4>2. s = running
        BY <3>3, <4>1 DEF PInv, Excluded, MutualExclusion
      <4> QED BY <1>2, <4>2 DEF Left
    <3>4. CASE ~Inside(s)
      <4>1. Left(s)
        BY <3>1, <3>2, <3>4 DEF Inside, Left, Sections
      <4> QED BY <1>2, <4>1 DEF Left
    <3> QED BY <3>3, <3>4
  <2> QED BY <2>2, <2>3
<1>8. \A u \in Tid : u # h => state'[u] = state[u]
  BY <1>6, Workers
<1>9. \A u \in Tid : (Gone(u) => Gone(u)') /\ (state'[u] # "NONE" => state[u] # "NONE")
  BY <1>5, <1>8 DEF Gone
<1>10. state[main] = "BLOCKED" => state'[main] = "BLOCKED"
  BY <1>5, <1>8, Sizes
<1>11. HigherEnded' /\ InOrder' /\ Joined'
  BY <1>1, <1>7, <1>9, <1>10, CallOrder
<1>12. ReadyInOrder'
  BY <1>1, <1>2, <1>5, <1>6, CallReady
<1>13. QueueInOrder'
  <2> SUFFICES ASSUME NEW i \in 1 .. Len(queue'[mutex]), NEW j \in 1 .. Len(queue'[mutex]),
                      i < j, prio[queue'[mutex][i]] = prio[queue'[mutex][j]]
               PROVE  queue'[mutex][i] < queue'[mutex][j]
    BY <1>1 DEF QueueInOrder
  <2>1. /\ i + 1 \in 1 .. Len(queue[mutex]) /\ queue'[mutex][i] = queue[mutex][i + 1]
        /\ j + 1 \in 1 .. Len(queue[mutex]) /\ queue'[mutex][j] = queue[mutex][j + 1]
        /\ i + 1 < j + 1
    <3>1. i \in 1 .. Len(queue[mutex]) - 1 /\ j \in 1 .. Len(queue[mutex]) - 1
      BY <1>4
    <3>2. queue'[mutex][i] = queue[mutex][i + 1] /\ queue'[mutex][j] = queue[mutex][j + 1]
      BY <1>4, <3>1
    <3> QED BY <1>4, <3>1, <3>2
  <2> QED BY <2>1 DEF Turns, QueueInOrder
<1> QED BY <1>11, <1>12, <1>13 DEF Turns

\* Only main waits for the thread that ends: it is woken when that is the
\* last one it has called mwait for.
LEMMA ReturnTurns ==
    ASSUME PInv, JInv, Sections, Turns, WorkerReturns
    PROVE  Turns'
<1>1. /\ running \in Tid \ {main} /\ pc[running] = "return"
      /\ pc' = [pc EXCEPT ![running] = "done"]
      /\ UNCHANGED <<prio, waits, queue>> /\ running' = NULL
  BY DEF WorkerReturns, WorkerCalls, terminate
<1>2. \/ /\ state' = [state EXCEPT ![running] = "TERMINATED"]
         /\ ready' = ready
      \/ /\ state' = [state EXCEPT ![running] = "TERMINATED", ![main] = "READY"]
         /\ ready' = enqueue_ready(main, prio[main])
         /\ running = waits
  <2>1. CASE /\ state' = [state EXCEPT ![running] = "TERMINATED"]
             /\ UNCHANGED <<ready, blockedWaiting>>
    BY <2>1
  <2>2. ASSUME NEW b \in waiters_of(running),
               ready' = enqueue_ready(b.blocked, prio[b.blocked]),
               state' = [state EXCEPT ![running] = "TERMINATED", ![b.blocked] = "READY"]
        PROVE  /\ state' = [state EXCEPT ![running] = "TERMINATED", ![main] = "READY"]
               /\ ready' = enqueue_ready(main, prio[main])
               /\ running = waits
    <3>1. b \in blockedWaiting /\ b.waited = running
      BY DEF waiters_of
    <3>2. b.blocked \in Tid
      BY <3>1 DEF PInv, Inv, TypeOK, Waits
    <3>3. b.blocked = main
      BY <3>1, <3>2 DEF JInv, Joins, Waiters, Sections
    <3> QED BY <2>2, <3>1, <3>3 DEF JInv, Joins, Waiters
  <2> QED BY <2>1, <2>2 DEF WorkerReturns, WorkerCalls, terminate
<1>3. pc'[running] = "done" /\ \A t \in Tid : t # running => pc'[t] = pc[t]
  BY <1>1, Workers
<1>4. \A t \in Tid \ {main} : Entered(t)' => Entered(t)
  BY <1>1, <1>3 DEF Entered, find_thread
<1>5. state'[running] = "TERMINATED" /\ state[running] = "RUNNING"
  BY <1>1, <1>2, Caller, Sizes
<1>6. \A u \in Tid \ {main} : u # running => state'[u] = state[u]
  BY <1>2, Workers
<1>7. state'[main] = state[main] \/ (state'[main] = "READY" /\ Gone(waits)')
  BY <1>1, <1>2, <1>5, Workers, Sizes DEF Gone
<1>8. Live(main)
  BY <1>1, Caller, Sizes DEF PInv, Inv, Births
<1>9. \A u \in Tid : (Gone(u) => Gone(u)') /\ (state'[u] # "NONE" => state[u] # "NONE")
  <2> SUFFICES ASSUME NEW u \in Tid
               PROVE  (Gone(u) => Gone(u)') /\ (state'[u] # "NONE" => state[u] # "NONE")
    OBVIOUS
  <2>1. CASE u = main
    BY <1>7, <1>8, <2>1 DEF Gone, Live
  <2>2. CASE u = running
    BY <1>5, <2>2 DEF Gone
  <2>3. CASE u # main /\ u # running
    BY <1>6, <2>3 DEF Gone
  <2> QED BY <2>1, <2>2, <2>3
<1>10. HigherEnded' /\ InOrder' /\ Joined'
  BY <1>1, <1>4, <1>7, <1>9, CallOrder
<1>11. ReadyInOrder'
  BY <1>1, <1>2, Sizes, CallReady
<1>12. QueueInOrder'
  BY <1>1, QueueKept DEF Turns
<1> QED BY <1>10, <1>11, <1>12 DEF Turns

-----------------------------------------------------------------------------
(* The calls of main. *)

\* No worker has begun, and the new one has the greatest id.
LEMMA CreateTurns ==
    ASSUME PInv, JInv, Sections, Turns, MainCreates
    PROVE  Turns'
<1>1. /\ waits = 0 /\ waits' = 0 /\ pc' = pc
      /\ \A t \in Tid : pc[t] = "lock"
  BY DEF MainCreates, JInv, Control, Created, MainFirst, Sections, PInv, ProgramTypes
<1>2. /\ queue' = queue /\ running' \in {NULL, main}
      /\ \/ ready' = ready
         \/ \E q \in Prio : ready' = enqueue_ready(IF nextTid = 0 THEN 1 ELSE nextTid, q)
  <2>1. running \in {NULL, main}
    BY DEF MainCreates, MainRuns
  <2>2. PICK p \in PrioArg : mcreate_first(p) \/ mcreate(p)
    BY DEF MainCreates
  <2>3. CASE mcreate_first(p)
    BY <2>3, Sizes DEF mcreate_first, init, valid_prio, Prio, tcb_init_works, tcb_init_fails
  <2>4. CASE mcreate(p)
    BY <2>1, <2>4, Sizes DEF mcreate, valid_prio, Prio, tcb_init_works, tcb_init_fails
  <2> QED BY <2>2, <2>3, <2>4
<1>3. nextTid \in Nat /\ nextTid < MaxTid
  BY Sizes DEF MainCreates, JInv, Control, Created, PInv, ProgramTypes
<1>4. PICK t \in Tid : t = IF nextTid = 0 THEN 1 ELSE nextTid
  BY <1>3, Sizes, MaxTidAssumption
<1>5. \A u \in Tid \ {main} : ~Begun(u)' /\ ~Entered(u)'
  BY <1>1, <1>2, Sizes DEF Begun, Entered
<1>6. HigherEnded' /\ InOrder'
  BY <1>5 DEF HigherEnded, InOrder
<1>7. ReadyInOrder'
  <2>1. CASE ready' = ready
    BY <1>1, <2>1 DEF Turns, ReadyInOrder
  <2>2. ASSUME NEW q \in Prio, ready' = enqueue_ready(t, q) PROVE ReadyInOrder'
    <3>1. \A p \in Prio : \A i \in 1 .. Len(ready'[p]) :
              \/ p = q /\ ready'[p][i] = t /\ i = Len(ready[p]) + 1
              \/ i \in 1 .. Len(ready[p]) /\ ready'[p][i] = ready[p][i] /\ ready[p][i] \in Tid
      BY <2>2, EnqueuedAt DEF PInv, Inv
    <3>2. \A p \in Prio : Len(ready[p]) \in Nat
      BY DEF PInv, Inv, TypeOK
    <3>3. \A p \in Prio : \A i \in 1 .. Len(ready[p]) : ready[p][i] \in Tid /\ ready[p][i] < t
      <4> SUFFICES ASSUME NEW p \in Prio, NEW i \in 1 .. Len(ready[p])
                   PROVE  ready[p][i] \in Tid /\ ready[p][i] < t
        OBVIOUS
      <4>1. ready[p][i] \in Tid
        BY DEF PInv, Inv, TypeOK
      <4>2. state[ready[p][i]] # "NONE"
        BY DEF PInv, Inv, ReadyQueues
      <4>3. ready[p][i] < nextTid
        BY <1>3, <4>1, <4>2, Sizes DEF PInv, Inv, Births
      <4> QED BY <1>3, <1>4, <4>1, <4>3, Sizes
    <3> SUFFICES ASSUME NEW p \in Prio, NEW i \in 1 .. Len(ready'[p]),
                        NEW j \in 1 .. Len(ready'[p]), i < j,
                        main \notin {ready'[p][i], ready'[p][j]},
                        pc[ready'[p][i]] = "lock", pc[ready'[p][j]] = "lock"
                 PROVE  ready'[p][i] < ready'[p][j]
      BY <1>1 DEF ReadyInOrder
    <3>4. i \in 1 .. Len(ready[p]) /\ ready'[p][i] = ready[p][i] /\ ready[p][i] \in Tid
      BY <3>1, <3>2
    <3>5. CASE ready'[p][j] = t
      BY <3>3, <3>4, <3>5
    <3>6. CASE j \in 1 .. Len(ready[p]) /\ ready'[p][j] = ready[p][j]
      BY <3>4, <3>6 DEF Turns, ReadyInOrder
    <3> QED BY <3>1, <3>5, <3>6
  <2> QED BY <1>2, <1>4, <2>1, <2>2
<1>8. QueueInOrder'
  <2>1. \A i \in 1 .. Len(queue[mutex]) : FALSE
    BY <1>1, Workers
  <2> QED BY <1>2, <2>1 DEF QueueInOrder
<1>9. Joined'
  BY <1>1 DEF Joined
<1> QED BY <1>6, <1>7, <1>8, <1>9 DEF Turns

\* A live worker that is not in a ready queue and does not run is in the
\* queue of the mutex, and another one is inside.
LEMMA BehindHolder ==
    ASSUME PInv, JInv, Sections, NEW v \in Tid \ {main}, ~Gone(v), state[v] # "READY",
           running \in {NULL, main}
    PROVE  /\ find_thread(queue[mutex], v) /\ pc[v] = "yield"
           /\ \E h \in Tid \ {main} : Inside(h) /\ state[h] = "READY"
<1>1. Parked(v)
  BY Workers, Sizes DEF Gone, Parked
<1>2. PICK m \in Mutex : \E i \in 1 .. Len(queue[m]) : queue[m][i] = v
  BY <1>1 DEF PInv, Inv, MutexQueues
<1>3. m = mutex /\ pc[v] = "yield"
  BY <1>2 DEF JInv, Mutexes, Sleepers
<1>4. flag[mutex] = "LOCKED"
  <2>1. queue[mutex] # <<>>
    BY <1>2, <1>3, EmptySeq
  <2> QED BY <2>1, Sizes DEF PInv, Inv, WaitersOnlyBehindLock
<1>5. PICK h \in Tid : Inside(h)
  BY <1>4 DEF JInv, Mutexes, Holder
<1>6. h # main
  BY <1>5 DEF Inside, Sections
<1>7. state[h] \in {"READY", "RUNNING"}
  BY <1>5 DEF Inside, JInv, Control, InsideLive
<1>8. ~Parked(h)
  <2> SUFFICES ASSUME Parked(h) PROVE FALSE
    OBVIOUS
  <2>1. PICK n \in Mutex : \E i \in 1 .. Len(queue[n]) : queue[n][i] = h
    BY DEF PInv, Inv, MutexQueues
  <2>2. n = mutex
    BY <2>1 DEF JInv, Mutexes, Sleepers
  <2> QED BY <1>5, <2>1, <2>2 DEF Inside, find_thread
<1>9. state[h] = "READY"
  BY <1>6, <1>7, <1>8, Sizes DEF Parked
<1> QED BY <1>2, <1>3, <1>5, <1>6, <1>9 DEF find_thread

\* Main passes over a refusal only when the thread has ended.
LEMMA MainWaitsTurns ==
    ASSUME PInv, JInv, Sections, Turns, MainWaits
    PROVE  Turns'
<1>1. /\ Len(tids) = N /\ waits \in Nat /\ waits < N /\ waits' = waits + 1
      /\ pc' = pc /\ UNCHANGED <<prio, ready, queue>>
      /\ running = main /\ state[main] = "RUNNING"
      /\ running' \in {NULL, main}
  <2>1. Len(tids) = N /\ running \in {NULL, main} /\ cpu = "app" /\ waits < N
    BY DEF MainWaits, MainRuns, mwait_if_accepted, mwait
  <2>2. running = main /\ state[main] = "RUNNING"
    BY <2>1, AllCreated, Sizes DEF PInv, Inv, Processor
  <2> QED BY <2>1, <2>2, Workers DEF MainWaits, mwait_if_accepted, mwait, vars
<1>2. PICK v \in 1 .. N : v = waits + 1
  BY <1>1, Sizes
<1>3. v \in Tid /\ v # main /\ tids[v] = IF state[v] = "NONE" THEN NULL ELSE v
  BY <1>1, Sizes DEF JInv, Control, Created
<1>4. \A u \in 1 .. waits : u \in Tid \ {main} /\ Gone(u)
  <2>1. \A u \in 1 .. waits : u \in Tid \ {main}
    BY <1>1, Sizes
  <2> QED BY <1>1, <2>1 DEF Turns, Joined
<1>5. \/ state' = [state EXCEPT ![main] = "BLOCKED"]
      \/ state' = state /\ Gone(v)
  <2>1. mwait_if_accepted(tids[v])
    BY <1>2 DEF MainWaits
  <2>2. CASE state[v] = "NONE"
    <3>1. tids[v] = NULL
      BY <1>3, <2>2
    <3> QED BY <2>1, <2>2, <3>1, Sizes DEF mwait_if_accepted, vars, Gone
  <2>3. CASE state[v] # "NONE" /\ mwait(v)
    BY <1>1, <2>3 DEF mwait
  <2>4. CASE state[v] # "NONE" /\ ~mwait(v)
    <3>1. /\ UNCHANGED vars
          /\ ~(tcb_exists(v) /\ ~find_blocked_waiting_tcb(v))
      BY <1>3, <2>1, <2>4 DEF mwait_if_accepted
    <3>2. state' = state
      BY <3>1 DEF vars
    <3>3. ASSUME ~Gone(v) PROVE FALSE
      \* Nobody waits, for only main could.
      <4>1. ~find_blocked_waiting_tcb(v)
        <5> SUFFICES ASSUME NEW b \in blockedWaiting PROVE FALSE
          BY DEF find_blocked_waiting_tcb
        <5>1. b.blocked \in Tid /\ state[b.blocked] = "BLOCKED"
          BY DEF PInv, Inv, TypeOK, Waits, WaitingList
        <5> QED BY <1>1, <5>1, Workers
      <4>2. state[v] # "READY"
        <5> SUFFICES ASSUME state[v] = "READY" PROVE tcb_exists(v)
          BY <3>1, <4>1
        <5>1. prio[v] \in Prio /\ find_thread(ready[prio[v]], v)
          BY <1>3, Workers DEF PInv, Inv, ReadyQueues, find_thread
        <5>2. v < nextTid
          BY <1>1, AllCreated, Sizes
        <5> QED BY <5>1, <5>2 DEF tcb_exists
      <4>3. find_thread(queue[mutex], v) /\ pc[v] = "yield"
        BY <1>1, <1>3, <3>3, <4>2, BehindHolder
      <4>4. PICK h \in Tid \ {main} : Inside(h) /\ state[h] = "READY"
        BY <1>1, <1>3, <3>3, <4>2, BehindHolder
      <4>5. Begun(h) /\ Entered(h) /\ ~Left(h) /\ ~Gone(h)
        BY <4>4 DEF Begun, Entered, Inside, Left, Gone
      <4>6. Begun(v) /\ ~Left(v)
        BY <4>3 DEF Begun, Left
      <4>7. prio[h] \in Nat /\ prio[v] \in Nat
        BY <1>3, Workers DEF Prio
      <4>8. prio[h] = prio[v]
        BY <1>3, <3>3, <4>5, <4>6, <4>7 DEF Turns, HigherEnded
      <4>9. ~(v < h)
        BY <1>3, <2>4, <4>5, <4>6, <4>8 DEF Turns, InOrder
      <4>10. h # v
        BY <4>3, <4>4 DEF Inside
      <4>11. h \in 1 .. waits
        BY <1>1, <1>2, <4>9, <4>10, Sizes
      <4> QED BY <1>4, <4>5, <4>11
    <3> QED BY <3>2, <3>3
  <2> QED BY <2>2, <2>3, <2>4
<1>6. \A u \in Tid \ {main} : state'[u] = state[u]
  BY <1>5, Workers
<1>7. \A t \in Tid \ {main} :
          (Begun(t)' => Begun(t)) /\ (Left(t) => Left(t)') /\ (Entered(t)' => Entered(t))
  BY <1>1, Sizes DEF Begun, Left, Entered, find_thread
<1>8. HigherEnded'
  BY <1>1, <1>6, <1>7, HigherKept DEF Turns, Gone
<1>9. InOrder'
  BY <1>1, <1>6, <1>7, InOrderKept DEF Turns
<1>10. ReadyInOrder'
  BY <1>1 DEF Turns, ReadyInOrder
<1>11. QueueInOrder'
  BY <1>1, QueueKept DEF Turns
<1>12. Joined'
  <2> SUFFICES ASSUME NEW u \in 1 .. waits + 1
               PROVE  Gone(u)' \/ (u = waits + 1 /\ state'[main] = "BLOCKED")
    BY <1>1 DEF Joined
  <2>1. CASE u \in 1 .. waits
    BY <1>4, <1>6, <2>1 DEF Gone
  <2>2. CASE u = waits + 1
    BY <1>2, <1>3, <1>5, <1>6, <2>2, Workers, Sizes DEF Gone
  <2> QED BY <1>1, <2>1, <2>2
<1> QED BY <1>8, <1>9, <1>10, <1>11, <1>12 DEF Turns

-----------------------------------------------------------------------------
(* The scheduler. *)

\* A worker that begins now finds that those of a higher priority have ended,
\* for they would be ready or behind a holder that has begun before them; and
\* that those of its priority created before it have begun, for they would
\* stand before it in the ready queue.
LEMMA DispatchTurns ==
    ASSUME PInv, JInv, Sections, Turns, NEW p \in schedule_scan, dispatch(p),
           UNCHANGED <<pc, waits>>
    PROVE  Turns'
<1>1. /\ p \in Prio /\ p \in Nat /\ ready[p] # <<>> /\ ready[p] \in Seq(Tid)
      /\ \A q \in Prio : q < p => ready[q] = <<>>
  <2>1. p \in Prio /\ p \in Nat /\ Prio = schedule_scan
    BY DEF schedule_scan, Prio, N_PRIORITIES
  <2>2. ready[p] # <<>> /\ \A q \in schedule_scan : q < p => ready[q] = <<>>
    BY DEF dispatch, no_thread_ready, scanned_before
  <2> QED BY <2>1, <2>2 DEF PInv, Inv, TypeOK
<1>2. PICK h \in Tid : h = Head(ready[p])
  BY <1>1, TailAt
<1>3. /\ Len(ready[p]) \in Nat \ {0} /\ h = ready[p][1]
      /\ state[h] = "READY" /\ prio[h] = p
      /\ ready'[p] = Tail(ready[p]) /\ Len(ready'[p]) = Len(ready[p]) - 1
      /\ \A i \in 1 .. Len(ready[p]) - 1 : ready'[p][i] = ready[p][i + 1]
      /\ \A q \in Prio \ {p} : ready'[q] = ready[q]
  <2>1. ready'[p] = Tail(ready[p]) /\ \A q \in Prio \ {p} : ready'[q] = ready[q]
    BY <1>1 DEF dispatch, PInv, Inv, TypeOK
  <2>2. Len(ready[p]) \in Nat \ {0} /\ h = ready[p][1]
    BY <1>1, <1>2, TailAt
  <2>3. 1 \in 1 .. Len(ready[p])
    BY <2>2
  <2>4. state[h] = "READY" /\ prio[h] = p
    BY <1>1, <2>2, <2>3 DEF PInv, Inv, ReadyQueues
  <2> QED BY <1>1, <2>1, <2>2, <2>4, TailAt
<1>4. /\ running = NULL /\ running' = h /\ state'[h] = "RUNNING"
      /\ \A u \in Tid \ {h} : state'[u] = state[u]
      /\ UNCHANGED <<prio, queue>>
  BY <1>2, Workers DEF dispatch, PInv, Inv, RunningWhileApp
<1>5. \A u \in Tid : (Gone(u) => Gone(u)') /\ (state'[u] # "NONE" => state[u] # "NONE")
  BY <1>3, <1>4 DEF Gone
<1>6. \A t \in Tid \ {main} : Begun(t)' => Begun(t) \/ (t = h /\ pc[h] = "lock")
  BY <1>4 DEF Begun
<1>7. \A t \in Tid : (Entered(t)' => Entered(t)) /\ (Left(t) => Left(t)')
  BY <1>4 DEF Entered, Left, find_thread
<1>8. HigherEnded'
  <2> SUFFICES ASSUME NEW s \in Tid \ {main}, NEW t \in Tid \ {main},
                      prio[s] < prio[t], Begun(t)'
               PROVE  Gone(s)
    BY <1>4, <1>5 DEF HigherEnded
  <2>1. CASE Begun(t)
    BY <2>1 DEF Turns, HigherEnded
  <2>2. CASE t = h /\ pc[h] = "lock"
    <3> SUFFICES ASSUME ~Gone(s) PROVE FALSE
      OBVIOUS
    <3>1. \A u \in Tid : state[u] = "READY" => prio[u] \in Prio /\ ~(prio[u] < p)
      <4> SUFFICES ASSUME NEW u \in Tid, state[u] = "READY" PROVE prio[u] \in Prio /\ ~(prio[u] < p)
        OBVIOUS
      <4>1. prio[u] \in Prio /\ \E i \in 1 .. Len(ready[prio[u]]) : ready[prio[u]][i] = u
        BY Workers DEF PInv, Inv, ReadyQueues
      <4>2. ready[prio[u]] # <<>>
        BY <4>1, EmptySeq
      <4> QED BY <1>1, <4>1, <4>2
    <3>2. state[s] # "READY"
      BY <1>3, <2>2, <3>1
    <3>3. PICK g \in Tid \ {main} : Inside(g) /\ state[g] = "READY"
      BY <1>4, <3>2, BehindHolder
    <3>4. prio[s] < prio[g]
      <4>1. prio[s] \in Nat /\ prio[g] \in Nat
        BY Workers DEF Prio
      <4> QED BY <1>1, <1>3, <2>2, <3>1, <3>3, <4>1
    <3>5. Begun(g)
      BY <3>3 DEF Inside, Begun
    <3> QED BY <3>4, <3>5 DEF Turns, HigherEnded
  <2> QED BY <1>6, <2>1, <2>2
<1>9. InOrder'
  <2> SUFFICES ASSUME NEW s \in Tid \ {main}, NEW t \in Tid \ {main},
                      s < t, prio[s] = prio[t], state[s] # "NONE"
               PROVE  (Begun(t)' => pc[s] # "lock") /\ (Entered(t)' => Left(s)')
    BY <1>4, <1>5 DEF InOrder
  <2>1. (Begun(t) => pc[s] # "lock") /\ (Entered(t) => Left(s))
    BY DEF Turns, InOrder
  <2>2. CASE t = h /\ pc[h] = "lock"
    <3> SUFFICES ASSUME pc[s] = "lock" PROVE FALSE
      BY <1>7, <2>1
    <3>1. state[s] = "READY"
      BY <1>4, Sizes DEF JInv, Control, NotStarted
    <3>2. PICK i \in 1 .. Len(ready[p]) : ready[p][i] = s
      BY <1>3, <2>2, <3>1 DEF PInv, Inv, ReadyQueues
    <3>3. i # 1
      BY <1>3, <2>2, <3>2, Sizes
    <3>4. 1 \in 1 .. Len(ready[p]) /\ 1 < i
      BY <1>3, <3>3
    <3>5. main \notin {h, s}
      BY <2>2
    <3>6. h < s
      BY <1>1, <1>3, <2>2, <3>2, <3>4, <3>5 DEF Turns, ReadyInOrder
    <3> QED BY <2>2, <3>6, Sizes
  <2> QED BY <1>6, <1>7, <2>1, <2>2
<1>10. ReadyInOrder'
  <2> SUFFICES ASSUME NEW q \in Prio, NEW i \in 1 .. Len(ready'[q]), NEW j \in 1 .. Len(ready'[q]),
                      i < j, main \notin {ready'[q][i], ready'[q][j]},
                      pc[ready'[q][i]] = "lock", pc[ready'[q][j]] = "lock"
               PROVE  ready'[q][i] < ready'[q][j]
    BY DEF ReadyInOrder
  <2>1. CASE q = p
    <3>1. /\ i + 1 \in 1 .. Len(ready[p]) /\ ready'[p][i] = ready[p][i + 1]
          /\ j + 1 \in 1 .. Len(ready[p]) /\ ready'[p][j] = ready[p][j + 1]
          /\ i + 1 < j + 1
      <4>1. i \in 1 .. Len(ready[p]) - 1 /\ j \in 1 .. Len(ready[p]) - 1
        BY <1>3, <2>1
      <4>2. ready'[p][i] = ready[p][i + 1] /\ ready'[p][j] = ready[p][j + 1]
        BY <1>3, <4>1
      <4> QED BY <1>3, <4>1, <4>2
    <3> QED BY <2>1, <3>1 DEF Turns, ReadyInOrder
  <2>2. CASE q # p
    BY <1>3, <2>2 DEF Turns, ReadyInOrder
  <2> QED BY <2>1, <2>2
<1>11. QueueInOrder'
  BY <1>4, QueueKept DEF Turns
<1>12. Joined'
  <2>1. \A v \in 1 .. waits : v \in Tid
    BY Workers, Sizes
  <2>2. state[main] = "BLOCKED" => state'[main] = "BLOCKED"
    BY <1>3, <1>4, Sizes
  <2> QED BY <1>5, <2>1, <2>2, Workers, JoinedKept DEF Turns
<1> QED BY <1>8, <1>9, <1>10, <1>11, <1>12 DEF Turns

\* Steps that change no more than which context runs.
LEMMA QuietTurns ==
    ASSUME Turns, UNCHANGED <<prio, state, ready, running, queue, pc, waits>>
    PROVE  Turns'
BY DEF Turns, HigherEnded, InOrder, ReadyInOrder, QueueInOrder, Joined, Begun, Entered, Left,
   Gone, find_thread

-----------------------------------------------------------------------------
(* Initially, and step by step. *)

LEMMA InitTurns == PInit /\ Sections => Turns
<1> SUFFICES ASSUME PInit, Sections PROVE Turns
  OBVIOUS
<1>1. /\ running = NULL /\ waits = 0
      /\ \A p \in Prio : Len(ready[p]) = 0
      /\ Len(queue[mutex]) = 0
      /\ \A t \in Tid : pc[t] = "lock"
  BY EmptySeq, Sizes DEF PInit, Init, critical_sections, chain_of_waits, Sections
<1>2. \A t \in Tid : ~Begun(t) /\ ~Entered(t)
  BY <1>1, Sizes DEF Begun, Entered
<1> QED BY <1>1, <1>2 DEF Turns, HigherEnded, InOrder, ReadyInOrder, QueueInOrder, Joined

\* Which of the two programs runs does not change.
LEMMA SectionsBefore ==
    ASSUME PInv, JInv, [PNext]_pvars, Sections'
    PROVE  Sections
<1>1. pc'[main] = pc[main]
  BY Sizes DEF PNext, pvars, MainCreates, MainWaits, MainReturns, WorkerLocks, WorkerYields,
     WorkerUnlocks, WorkerReturns, ThreadWaits, ThreadEnds, ThreadYields, LibrarySchedules,
     ProgramEnded, WorkerCalls, PInv, ProgramTypes
<1> QED BY <1>1 DEF JInv, Control, Sections, Chain

LEMMA TurnsStep == PInv /\ JInv /\ (Sections => Turns) /\ [PNext]_pvars => (Sections' => Turns')
<1> SUFFICES ASSUME PInv, JInv, Sections, Turns, [PNext]_pvars PROVE Turns'
  BY SectionsBefore
<1>1. CASE MainCreates
  BY <1>1, CreateTurns
<1>2. CASE MainWaits
  BY <1>2, MainWaitsTurns
<1>3. CASE MainReturns
  BY <1>3, QuietTurns DEF MainReturns, main_returns
<1>4. CASE WorkerLocks
  BY <1>4, FreeLockTurns, TakenLockTurns DEF WorkerLocks, WorkerCalls, mlock
<1>5. CASE WorkerYields
  BY <1>5, YieldTurns
<1>6. CASE WorkerUnlocks
  BY <1>6, FreeUnlockTurns, HandoverTurns DEF WorkerUnlocks, WorkerCalls, munlock
<1>7. CASE WorkerReturns
  BY <1>7, ReturnTurns
<1>8. CASE ThreadWaits \/ ThreadEnds \/ ThreadYields
  BY <1>8 DEF ThreadWaits, ThreadEnds, ThreadYields, WorkerCalls, Sections
<1>9. CASE LibrarySchedules
  <2>1. CASE nothing_ready
    BY <1>9, <2>1, QuietTurns DEF LibrarySchedules, nothing_ready
  <2>2. ASSUME NEW p \in schedule_scan, dispatch(p) PROVE Turns'
    BY <1>9, <2>2, DispatchTurns DEF LibrarySchedules
  <2> QED BY <1>9, <2>1, <2>2 DEF LibrarySchedules, schedule
<1>10. CASE ProgramEnded \/ UNCHANGED pvars
  BY <1>10, QuietTurns DEF ProgramEnded, pvars, vars
<1> QED BY <1>1, <1>2, <1>3, <1>4, <1>5, <1>6, <1>7, <1>8, <1>9, <1>10 DEF PNext

LEMMA TurnsInvariance == PSpec => [](Sections => Turns)
<1>1. PInit => (Sections => Turns)
  BY InitTurns
<1> QED BY <1>1, TurnsStep, JoinsInvariance, PTL DEF PSpec

-----------------------------------------------------------------------------
(* The theorems. *)

\* In the chain of testes/mwait.c, of any length, a thread that goes on after
\* its mwait finds that the next one has ended, or was never created.
THEOREM ChainReleasedInSequence == PSpec => []ReleasedInSequence
<1>1. PInv /\ JInv => ReleasedInSequence
  <2> SUFFICES ASSUME PInv, JInv, NEW t \in Tid, running = t, pc[t] = "resumed"
               PROVE  state[t + 1] \in {"TERMINATED", "NONE"}
    BY DEF ReleasedInSequence
  <2>1. state[t] = "RUNNING"
    BY Sizes DEF PInv, Inv, Processor
  <2> QED BY <2>1 DEF JInv, Joins, Linked, Gone
<1> QED BY <1>1, JoinsInvariance, PTL

\* Neither program deadlocks, however many threads it creates and whatever
\* their priorities.
THEOREM ProgramsNeverDrain == PSpec => []NeverDrained
<1>1. PInit => Emptied
  BY DEF PInit, Init, Emptied
<1>2. PInv /\ Emptied /\ [PNext]_pvars => Emptied'
  BY ProgramStep, EmptiedStep DEF PInv
<1>3. PInv /\ JInv /\ Emptied => NeverDrained
  BY NoDeadlock, EmptiedDeadlock DEF PInv
<1> QED BY <1>1, <1>2, <1>3, JoinsInvariance, PTL DEF PSpec

\* When main returns, which ends the process, every thread it created has
\* ended, in either program and whatever the number of threads and their
\* priorities, although main ignores what mwait answers.  In the chain of
\* testes/mwait.c it is refused only for threads that have ended; with
\* critical sections it is never refused for one in the queue of the mutex,
\* because it has joined whoever is inside before.
THEOREM AllJoined == PSpec => []JoinedAll
<1>1. PInv /\ JInv /\ (Sections => Turns) => JoinedAll
  <2> SUFFICES ASSUME PInv, JInv, Sections => Turns, cpu = "exited",
                      NEW i \in 1 .. Len(tids), tids[i] # NULL
               PROVE  state[tids[i]] = "TERMINATED"
    BY DEF JoinedAll
  <2>1. waits = N /\ Len(tids) = N /\ state[main] = "RUNNING"
    BY Sizes DEF JInv, Control, Exit, Created, PInv, Inv, Processor
  <2>2. tids[i] = i /\ state[i] # "NONE"
    BY DEF JInv, Control, Created
  <2>3. Gone(i)
    BY <2>1 DEF JInv, Control, Joins, MainJoins, Turns, Joined
  <2> QED BY <2>2, <2>3 DEF Gone
<1> QED BY <1>1, JoinsInvariance, TurnsInvariance, PTL
=============================================================================
