--------------------------- MODULE MthreadProgram ---------------------------
(***************************************************************************)
(* Two programs run on the library.  In both main creates N threads and    *)
(* waits for each of them.                                                 *)
(*   - testes/primos.c, mlock.c, munlock.c: a worker takes the mutex,      *)
(*     yields inside the critical section, releases the mutex and returns. *)
(*   - testes/mwait.c: a thread waits for the one created after it; the    *)
(*     last one yields and returns.  Main's mwait of a thread that does    *)
(*     not exist (before) and of itself (after) are refused.               *)
(***************************************************************************)
EXTENDS Mthread

CONSTANTS
    N,       \* number of workers main creates
    mutex    \* the mutex they share

ASSUME ProgramAssumption ==
    /\ N \in 1 .. MaxTid - 1
    /\ mutex \in Mutex

VARIABLES
    pc,     \* where each thread is in its function
    tids,   \* main's array of the values mcreate returned, NULL for -1
    waits   \* how many times main has called mwait

pvars == <<vars, pc, tids, waits>>

critical_sections == [t \in Tid |-> "lock"]
chain_of_waits == [t \in Tid |-> IF t = N THEN "pass" ELSE "wait"]

PInit ==
    /\ Init
    /\ pc \in {critical_sections, chain_of_waits}
    /\ tids = <<>>
    /\ waits = 0

MainRuns == running \in {NULL, main}

\* tids[i] = mcreate(...), with any priority (primos, mwait: i % 3 but for
\* the last thread of mwait; munlock: 1).
MainCreates ==
    /\ MainRuns /\ Len(tids) < N
    /\ \E p \in PrioArg : mcreate_first(p) \/ mcreate(p)
    /\ LET t == nextTid' - 1 IN
         tids' = Append(tids, IF state'[t] = "READY" THEN t ELSE NULL)
    /\ UNCHANGED <<pc, waits>>

\* mwait(t) of a caller that ignores the answer and passes over a refusal.
mwait_if_accepted(t) ==
    IF t \in Tid /\ tcb_exists(t) /\ ~find_blocked_waiting_tcb(t)
    THEN mwait(t)
    ELSE cpu = "app" /\ UNCHANGED vars

MainWaits ==
    /\ MainRuns /\ Len(tids) = N /\ waits < N
    /\ mwait_if_accepted(tids[waits + 1])
    /\ waits' = waits + 1
    /\ UNCHANGED <<pc, tids>>

MainReturns == waits = N /\ main_returns /\ UNCHANGED <<pc, tids, waits>>

\* One call of the worker that runs, from label to label.
WorkerCalls(from, call, to) ==
    /\ running \in Tid \ {main} /\ pc[running] = from
    /\ call
    /\ pc' = [pc EXCEPT ![running] = to]
    /\ UNCHANGED <<tids, waits>>

WorkerLocks   == WorkerCalls("lock", mlock(mutex), "yield")
WorkerYields  == WorkerCalls("yield", myield, "unlock")
WorkerUnlocks == WorkerCalls("unlock", munlock(mutex), "return")
WorkerReturns == WorkerCalls("return", terminate, "done")

\* waiting_thread: mwait(t->id + 1), then the end of the thread.
ThreadWaits == WorkerCalls("wait", mwait_if_accepted(running + 1), "resumed")
ThreadEnds  == WorkerCalls("resumed", terminate, "done")

\* yield_thread.
ThreadYields == WorkerCalls("pass", myield, "return")

LibrarySchedules == schedule /\ UNCHANGED <<pc, tids, waits>>

ProgramEnded == Ended /\ UNCHANGED pvars

PNext ==
    \/ MainCreates \/ MainWaits \/ MainReturns
    \/ WorkerLocks \/ WorkerYields \/ WorkerUnlocks \/ WorkerReturns
    \/ ThreadWaits \/ ThreadEnds \/ ThreadYields
    \/ LibrarySchedules
    \/ ProgramEnded

\* The one kernel thread of the process keeps executing.
PSpec == PInit /\ [][PNext]_pvars /\ WF_pvars(PNext)

-----------------------------------------------------------------------------
PTypeOK ==
    /\ TypeOK
    /\ pc \in [Tid -> {"lock", "yield", "unlock", "wait", "resumed", "pass", "return", "done"}]
    /\ tids \in Seq(Tid \cup {NULL}) /\ Len(tids) <= N
    /\ waits \in 0 .. N

\* A worker is inside the critical section from the return of its mlock to
\* its munlock.
Inside(t) == pc[t] \in {"yield", "unlock"} /\ ~find_thread(queue[mutex], t)

\* Two workers are never inside the critical section together, although the
\* one inside yields there and the mutex is handed over while locked.
MutualExclusion ==
    \A t, u \in Tid : Inside(t) /\ Inside(u) => t = u

\* When main returns, which ends the process, every worker it created has
\* finished: the mwait loop joins them all.
JoinedAll ==
    cpu = "exited" =>
        \A i \in 1 .. Len(tids) : tids[i] # NULL => state[tids[i]] = "TERMINATED"

\* A thread that goes on after its mwait(id + 1) finds that the thread it
\* waited for has ended, if there was one: the chain of testes/mwait.c is
\* released in sequence, and no wait of it is refused for another reason.
ReleasedInSequence ==
    \A t \in Tid : running = t /\ pc[t] = "resumed" =>
        state[t + 1] \in {"TERMINATED", "NONE"}

\* Neither program runs out of ready threads: in the one every worker unlocks
\* what it locked and only main waits, in the other each thread waits for the
\* one after it, so the waits form no cycle.
NeverDrained == cpu # "drained"

\* The program ends by main's return, whatever priorities the workers have.
ProgramEnds == <>(cpu = "exited")
=============================================================================
