------------------------------ MODULE Mthread ------------------------------
(***************************************************************************)
(* The mthread library (src/mthread): cooperative threads multiplexed on   *)
(* one kernel thread by swapcontext.  Nothing preempts a thread, so every  *)
(* call of the library runs to its swapcontext (or to its return) in one   *)
(* step; the scheduler context then runs schedule() in a step of its own.  *)
(*                                                                         *)
(* A call the library refuses (it returns -1 and changes nothing) is a     *)
(* stuttering step; the guards of the actions below are the conditions     *)
(* under which the code does not refuse.                                   *)
(*                                                                         *)
(* An operator marked "Mutated" is a wrong variant of the definition that  *)
(* follows it.  No action uses it: it stands in for that definition to     *)
(* show that a property can fail.                                          *)
(***************************************************************************)
EXTENDS Naturals, Sequences, FiniteSets, Functions

CONSTANTS
    MaxTid,      \* bound: thread ids 0..MaxTid-1 are ever given out
    Mutex,       \* the mmutex_t objects of the program
    NULL,        \* the C null pointer
    FreedReads   \* what reading the freed list node in remove_blocked_mutex
                 \* may do in this build: "intact" (the old contents are
                 \* read, and the walk finds nothing more to remove),
                 \* "fault" (the process dies of what it reads), or either

ASSUME MaxTidAssumption == MaxTid \in Nat \ {0, 1}
ASSUME FreedReadsAssumption == FreedReads \subseteq {"intact", "fault"} /\ FreedReads # {}

N_PRIORITIES == 3
Prio == 0 .. N_PRIORITIES - 1
PrioArg == 0 .. N_PRIORITIES     \* what programs pass to mcreate
HIGH == 0
Tid  == 0 .. MaxTid - 1
main == 0

ASSUME NullAssumption == NULL \notin Tid

VARIABLES
    nextTid,          \* _next_tid_
    prio,             \* tcb->prio, per thread
    state,            \* tcb->state, per thread; "NONE" before the TCB exists
    ready,            \* _ready_head_/_ready_tail_: one FIFO per priority
    running,          \* the TCB in _running_head_, or NULL
    blockedWaiting,   \* the _blocked_waiting_ list
    blockedMutex,     \* the _blocked_mutex_ list, newest first
    flag,             \* mtx->flag
    queue,            \* mtx->first/mtx->last: the threads blocked in mlock
    cpu               \* the context the kernel thread executes

vars == <<nextTid, prio, state, ready, running, blockedWaiting, blockedMutex,
          flag, queue, cpu>>

Waits == [waited : Tid, blocked : Tid]

(***************************************************************************)
(* cpu = "app": a thread of the program runs; "sched": the scheduler       *)
(* context runs; "exited": main returned; "drained": schedule() returned   *)
(* with nothing to run, which ends the process because uc_link is NULL;    *)
(* "crashed": the process died.                                            *)
(***************************************************************************)
Ended == cpu \in {"exited", "drained", "crashed"}

\* In C terms the TCB of t is allocated and not yet freed.
Live(t) == state[t] \in {"READY", "RUNNING", "BLOCKED"}

(***************************************************************************)
(* Queues and lists.                                                       *)
(***************************************************************************)
\* Mutated: the tail pointer is not followed and the queue is overwritten.
enqueue_ready_overwrites(t, p) == [ready EXCEPT ![p] = <<t>>]
\* Mutated: the thread goes to the head of the queue.
enqueue_ready_lifo(t, p) == [ready EXCEPT ![p] = <<t>> \o @]

enqueue_ready(t, p) == [ready EXCEPT ![p] = Append(@, t)]

no_thread_ready(P) == \A p \in P : ready[p] = <<>>

\* Mutated: i < N_PRIORITIES - 1.
schedule_scan_short == 0 .. N_PRIORITIES - 2
schedule_scan == 0 .. N_PRIORITIES - 1

\* Mutated: the least urgent queue first.
scanned_before_up(p) == { q \in schedule_scan : q > p }
scanned_before(p) == { q \in schedule_scan : q < p }

find_thread(s, t) == \E i \in 1 .. Len(s) : s[i] = t

tcb_is_blocked_waiting(t) == \E b \in blockedWaiting : b.blocked = t

\* Mutated: the last priority is not looked at.
tcb_exists_two_queues(t) ==
    /\ t < nextTid
    /\ (\E p \in {0, 1} : find_thread(ready[p], t)) \/ tcb_is_blocked_waiting(t)

\* tcb_exists asks tcb_is_blocked_waiting twice and tcb_is_blocked_mutex
\* never: a thread blocked in mlock does not "exist".
tcb_exists(t) ==
    /\ t < nextTid
    /\ (\E p \in Prio : find_thread(ready[p], t)) \/ tcb_is_blocked_waiting(t)

\* Mutated: nobody is ever found.
find_nobody_waiting(t) == FALSE
find_blocked_waiting_tcb(t) == \E b \in blockedWaiting : b.waited = t

\* Mutated: the first node, whomever it waits for.
waiters_of_anyone(t) == blockedWaiting
waiters_of(t) == { b \in blockedWaiting : b.waited = t }

\* Mutated: the head of the list is never removed.
remove_blocked_mutex_skips_head(s, t) ==
    IF \E i \in 2 .. Len(s) : s[i] = t
    THEN LET i == CHOOSE i \in 2 .. Len(s) : s[i] = t
         IN  SubSeq(s, 1, i - 1) \o SubSeq(s, i + 1, Len(s))
    ELSE s

\* The list without the node of thread t (there is one at most,
\* BlockedMutexMirrorsQueues); the other nodes keep their order.
remove_blocked_mutex(s, t) ==
    IF \E i \in 1 .. Len(s) : s[i] = t
    THEN LET i == CHOOSE i \in 1 .. Len(s) : s[i] = t
         IN  SubSeq(s, 1, i - 1) \o SubSeq(s, i + 1, Len(s))
    ELSE s

\* The walk goes on from the node it has just freed when that was the head.
reads_freed_node(s, t) == s # <<>> /\ Head(s) = t

\* Mutated: one waiter does not count.
no_waiters_but_one(m) == Len(queue[m]) <= 1
no_waiters(m) == queue[m] = <<>>

(***************************************************************************)
(* Initially the library knows no thread: main is on the processor, but    *)
(* _running_head_ is NULL until the first mcreate.                         *)
(***************************************************************************)
Init ==
    /\ nextTid = 0
    /\ prio = [t \in Tid |-> HIGH]
    /\ state = [t \in Tid |-> "NONE"]
    /\ ready = [p \in Prio |-> <<>>]
    /\ running = NULL
    /\ blockedWaiting = {}
    /\ blockedMutex = <<>>
    /\ flag = [m \in Mutex |-> "UNLOCKED"]
    /\ queue = [m \in Mutex |-> <<>>]
    /\ cpu = "app"

(***************************************************************************)
(* mcreate.  The first call makes the calling thread thread 0 (init):      *)
(* main is put in the ready queue, the scheduler finds nothing else and    *)
(* resumes it at once, so the round trip is part of the call.  tcb_init    *)
(* may fail for want of a stack; the thread id is then consumed.           *)
(***************************************************************************)
\* Mutated: prio > 2 lets one more value through.
valid_prio_off_by_one(p) == p \in 0 .. N_PRIORITIES
valid_prio(p) == p \in 0 .. N_PRIORITIES - 1

\* Mutated: main is left out of _running_head_.
init_no_running == running' = NULL
init == running' = main

tcb_init_fails(t) ==
    /\ nextTid' = t + 1
    /\ UNCHANGED <<prio, ready>>

\* Mutated: every thread is queued as urgent.
tcb_init_works_high(t, p) ==
    /\ nextTid' = t + 1
    /\ prio' = [prio EXCEPT ![t] = p]
    /\ ready' = enqueue_ready(t, HIGH)

tcb_init_works(t, p) ==
    /\ nextTid' = t + 1
    /\ prio' = [prio EXCEPT ![t] = p]
    /\ ready' = enqueue_ready(t, p)

mcreate_first(p) ==
    /\ cpu = "app" /\ valid_prio(p) /\ nextTid = 0
    /\ init
    /\ \/ tcb_init_works(1, p) /\ state' = [state EXCEPT ![main] = "RUNNING", ![1] = "READY"]
       \/ tcb_init_fails(1)    /\ state' = [state EXCEPT ![main] = "RUNNING"]
    /\ UNCHANGED <<blockedWaiting, blockedMutex, flag, queue, cpu>>

mcreate(p) ==
    /\ cpu = "app" /\ valid_prio(p) /\ nextTid \in 1 .. MaxTid - 1
    /\ \/ tcb_init_works(nextTid, p) /\ state' = [state EXCEPT ![nextTid] = "READY"]
       \/ tcb_init_fails(nextTid)    /\ UNCHANGED state
    /\ UNCHANGED <<running, blockedWaiting, blockedMutex, flag, queue, cpu>>

myield ==
    /\ cpu = "app" /\ running # NULL
    /\ ready' = enqueue_ready(running, prio[running])
    /\ state' = [state EXCEPT ![running] = "READY"]
    /\ running' = NULL
    /\ cpu' = "sched"
    /\ UNCHANGED <<nextTid, prio, blockedWaiting, blockedMutex, flag, queue>>

mwait(t) ==
    /\ cpu = "app" /\ running # NULL
    /\ tcb_exists(t) /\ ~find_blocked_waiting_tcb(t)
    /\ blockedWaiting' = blockedWaiting \cup {[waited |-> t, blocked |-> running]}
    /\ state' = [state EXCEPT ![running] = "BLOCKED"]
    /\ running' = NULL
    /\ cpu' = "sched"
    /\ UNCHANGED <<nextTid, prio, ready, blockedMutex, flag, queue>>

(***************************************************************************)
(* mutexes.  A mutex has no owner: any thread may unlock it, and a thread  *)
(* that locks it twice blocks behind itself.  munlock hands a mutex that   *)
(* has waiters to the first of them without clearing the flag.             *)
(***************************************************************************)
\* Assumption on the program: a mutex with waiters is not initialised again.
mmutex_init(m) ==
    /\ cpu = "app" /\ no_waiters(m)
    /\ flag' = [flag EXCEPT ![m] = "UNLOCKED"]
    /\ UNCHANGED <<nextTid, prio, state, ready, running, blockedWaiting,
                   blockedMutex, queue, cpu>>

\* Mutated: the flag is not tested.
mlock_free_unguarded(m) ==
    /\ cpu = "app" /\ running # NULL
    /\ flag' = [flag EXCEPT ![m] = "LOCKED"]
    /\ UNCHANGED <<nextTid, prio, state, ready, running, blockedWaiting,
                   blockedMutex, queue, cpu>>

mlock_free(m) ==
    /\ cpu = "app" /\ running # NULL
    /\ flag[m] = "UNLOCKED"
    /\ flag' = [flag EXCEPT ![m] = "LOCKED"]
    /\ UNCHANGED <<nextTid, prio, state, ready, running, blockedWaiting,
                   blockedMutex, queue, cpu>>

\* The state field is left at RUNNING.
mlock_taken(m) ==
    /\ cpu = "app" /\ running # NULL
    /\ flag[m] = "LOCKED"
    /\ queue' = [queue EXCEPT ![m] = Append(@, running)]
    /\ blockedMutex' = <<running>> \o blockedMutex
    /\ running' = NULL
    /\ cpu' = "sched"
    /\ UNCHANGED <<nextTid, prio, state, ready, blockedWaiting, flag>>

mlock(m) == mlock_free(m) \/ mlock_taken(m)

munlock_free(m) ==
    /\ cpu = "app" /\ running # NULL
    /\ flag[m] = "LOCKED" /\ no_waiters(m)
    /\ flag' = [flag EXCEPT ![m] = "UNLOCKED"]
    /\ UNCHANGED <<nextTid, prio, state, ready, running, blockedWaiting,
                   blockedMutex, queue, cpu>>

wake_first_waiter(m) ==
    LET t == Head(queue[m]) IN
      /\ queue' = [queue EXCEPT ![m] = Tail(@)]
      /\ ready' = enqueue_ready(t, prio[t])
      /\ state' = [state EXCEPT ![t] = "READY"]
      /\ blockedMutex' = remove_blocked_mutex(blockedMutex, t)
      /\ \E read \in FreedReads :
           cpu' = IF read = "fault" /\ reads_freed_node(blockedMutex, t)
                  THEN "crashed" ELSE cpu

\* Mutated: the mutex is freed as the waiter is woken.
munlock_handover_frees(m) ==
    /\ cpu = "app" /\ running # NULL
    /\ flag[m] = "LOCKED" /\ ~no_waiters(m)
    /\ wake_first_waiter(m)
    /\ flag' = [flag EXCEPT ![m] = "UNLOCKED"]
    /\ UNCHANGED <<nextTid, prio, running, blockedWaiting>>

munlock_handover(m) ==
    /\ cpu = "app" /\ running # NULL
    /\ flag[m] = "LOCKED" /\ ~no_waiters(m)
    /\ wake_first_waiter(m)
    /\ UNCHANGED <<nextTid, prio, running, blockedWaiting, flag>>

munlock(m) == munlock_free(m) \/ munlock_handover(m)

(***************************************************************************)
(* The end of a thread.  A thread other than main returns into the         *)
(* terminator context; main returns from main() and ends the process.      *)
(***************************************************************************)
terminate ==
    /\ cpu = "app" /\ running \notin {NULL, main}
    /\ running' = NULL
    /\ cpu' = "sched"
    /\ \/ /\ ~find_blocked_waiting_tcb(running)
          /\ state' = [state EXCEPT ![running] = "TERMINATED"]
          /\ UNCHANGED <<ready, blockedWaiting>>
       \/ \E b \in waiters_of(running) :
            /\ find_blocked_waiting_tcb(running)
            /\ blockedWaiting' = blockedWaiting \ {b}
            /\ ready' = enqueue_ready(b.blocked, prio[b.blocked])
            /\ state' = [state EXCEPT ![running] = "TERMINATED", ![b.blocked] = "READY"]
    /\ UNCHANGED <<nextTid, prio, blockedMutex, flag, queue>>

main_returns ==
    /\ cpu = "app" /\ running \in {NULL, main}
    /\ cpu' = "exited"
    /\ UNCHANGED <<nextTid, prio, state, ready, running, blockedWaiting,
                   blockedMutex, flag, queue>>

(***************************************************************************)
(* schedule: the first thread of the highest non-empty priority.           *)
(***************************************************************************)
dispatch(p) ==
    /\ cpu = "sched"
    /\ ready[p] # <<>> /\ no_thread_ready(scanned_before(p))
    /\ running' = Head(ready[p])
    /\ ready' = [ready EXCEPT ![p] = Tail(@)]
    /\ state' = [state EXCEPT ![Head(ready[p])] = "RUNNING"]
    /\ cpu' = "app"
    /\ UNCHANGED <<nextTid, prio, blockedWaiting, blockedMutex, flag, queue>>

nothing_ready ==
    /\ cpu = "sched"
    /\ no_thread_ready(schedule_scan)
    /\ cpu' = "drained"
    /\ UNCHANGED <<nextTid, prio, state, ready, running, blockedWaiting,
                   blockedMutex, flag, queue>>

schedule == (\E p \in schedule_scan : dispatch(p)) \/ nothing_ready

\* The process is gone.
Stopped == Ended /\ UNCHANGED vars

Next ==
    \/ \E p \in PrioArg : mcreate_first(p) \/ mcreate(p)
    \/ myield
    \/ \E t \in Tid : mwait(t)
    \/ \E m \in Mutex : mmutex_init(m) \/ mlock(m) \/ munlock(m)
    \/ terminate
    \/ main_returns
    \/ schedule
    \/ Stopped

Spec == Init /\ [][Next]_vars

(***************************************************************************)
(* Fairness.  The scheduler context always runs to its setcontext.  That   *)
(* a running thread gives up the processor sooner or later is not done by  *)
(* the library (there is no preemption): it is the assumption under which  *)
(* cooperative threads make progress at all.                               *)
(***************************************************************************)
GiveUp == Next /\ cpu = "app" /\ cpu' # "app"

FairSpec == Spec /\ WF_vars(schedule) /\ WF_vars(GiveUp)

-----------------------------------------------------------------------------
TypeOK ==
    /\ nextTid \in 0 .. MaxTid
    /\ prio \in [Tid -> Prio]
    /\ state \in [Tid -> {"NONE", "READY", "RUNNING", "BLOCKED", "TERMINATED"}]
    /\ ready \in [Prio -> Seq(Tid)]
    /\ running \in Tid \cup {NULL}
    /\ blockedWaiting \subseteq Waits
    /\ blockedMutex \in Seq(Tid)
    /\ flag \in [Mutex -> {"UNLOCKED", "LOCKED"}]
    /\ queue \in [Mutex -> Seq(Tid)]
    /\ cpu \in {"app", "sched", "exited", "drained", "crashed"}

(***************************************************************************)
(* Where the library's own structures mention thread t.  There is one TCB  *)
(* per thread and one next/prev pair in it, so a thread that were in two   *)
(* queues would tear one of them apart, and a thread in none is lost.      *)
(***************************************************************************)
ReadyPlaces(t) ==
    UNION { { <<"ready", p, i>> : i \in { k \in 1 .. Len(ready[p]) : ready[p][k] = t } } : p \in Prio }
MutexPlaces(t) ==
    UNION { { <<"mutex", m, i>> : i \in { k \in 1 .. Len(queue[m]) : queue[m][k] = t } } : m \in Mutex }
WaitPlaces(t) == { <<"wait", b>> : b \in { c \in blockedWaiting : c.blocked = t } }
ProcessorPlaces(t) == IF running = t THEN { <<"running">> } ELSE {}

Mentions(t) == ReadyPlaces(t) \cup MutexPlaces(t) \cup WaitPlaces(t) \cup ProcessorPlaces(t)

\* A live thread is in exactly one of the ready queues, the mutex queues, the
\* waiting list and the processor; one that never was or has ended in none
\* (enqueue, dequeue, insert_blocked_waiting and their callers).
OnePlace ==
    \A t \in Tid : Cardinality(Mentions(t)) = IF Live(t) THEN 1 ELSE 0

\* A thread is queued under its own priority: the scheduler's scan by
\* priority finds every ready thread where it looks for it.
ReadyUnderOwnPriority ==
    \A p \in Prio : \A i \in 1 .. Len(ready[p]) :
        prio[ready[p][i]] = p /\ state[ready[p][i]] = "READY"

\* No lost wake-up: whoever waits in mwait waits for another thread that has
\* still to terminate, and terminate() wakes it because it is the only one.
WaitersWillBeWoken ==
    /\ \A b \in blockedWaiting : Live(b.waited) /\ b.waited # b.blocked
    /\ \A b, c \in blockedWaiting : b.waited = c.waited => b = c

\* No thread is queued on a free mutex: munlock hands it over instead.
WaitersOnlyBehindLock ==
    \A m \in Mutex : queue[m] # <<>> => flag[m] = "LOCKED"

\* The _blocked_mutex_ list holds each thread queued on some mutex, once.
BlockedMutexMirrorsQueues ==
    /\ IsInjective(blockedMutex)
    /\ Range(blockedMutex) = UNION { Range(queue[m]) : m \in Mutex }

\* Once main has an id, a thread is on the processor exactly while program
\* code runs, so no call is refused for want of a running thread.
RunningWhileApp ==
    /\ cpu = "app" => (running = NULL <=> nextTid = 0)
    /\ cpu \in {"sched", "drained"} => running = NULL

\* schedule() returns, ending the process, only when no thread can ever run
\* again: all that are alive are blocked, and main is one of them.
DrainedIsDeadlock ==
    cpu = "drained" =>
        /\ Live(main)
        /\ \A t \in Tid : Live(t) =>
              tcb_is_blocked_waiting(t) \/ \E m \in Mutex : find_thread(queue[m], t)

\* A thread blocked in mwait leaves the waiting list only by the termination
\* of the thread it waits for, and is ready then.
WaitEndsAtTermination ==
    [][\A b \in blockedWaiting : b \notin blockedWaiting' =>
          /\ state[b.waited] = "RUNNING" /\ state'[b.waited] = "TERMINATED"
          /\ state'[b.blocked] = "READY"]_vars

\* A mutex stays locked when it passes from its holder to a queued thread,
\* and it passes to the thread that has been blocked longest: all others in
\* its queue are nearer the head of _blocked_mutex_, where the newest is
\* (mlock, munlock).
HandOverToLongestBlocked ==
    [][\A m \in Mutex : \A t \in Range(queue[m]) \ Range(queue'[m]) :
          /\ flag[m] = "LOCKED" /\ flag'[m] = "LOCKED"
          /\ \A i, j \in 1 .. Len(blockedMutex) :
                blockedMutex[i] = t /\ blockedMutex[j] \in Range(queue'[m]) => j < i]_vars

\* FIFO within a priority: a thread stays ready for ever only if threads of a
\* higher priority become ready again and again, or the process ends.
NoStarvationWithinPriority ==
    \A t \in Tid :
        <>[](state[t] = "READY") =>
            \/ <>Ended
            \/ []<>(\E q \in Prio : q < prio[t] /\ ready[q] # <<>>)

(***************************************************************************)
(* What the sources say of the library and the library does not do.        *)
(***************************************************************************)
\* testes/mwait.c: mwait answers -1 for "uma thread inexistente"; so every
\* other live thread should be one that tcb_exists knows.
LiveThreadsExist ==
    \A t \in Tid : cpu = "app" /\ Live(t) /\ t # running => tcb_exists(t)

\* testes/munlock.c: munlock works "liberando a primeira da fila, caso ela
\* exista"; releasing the first waiter never kills the process.
MunlockNeverCrashes == cpu # "crashed"
=============================================================================
