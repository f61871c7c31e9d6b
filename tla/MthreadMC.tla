----------------------------- MODULE MthreadMC -----------------------------
(***************************************************************************)
(* Mthread on small instances, and the refinement mapping to what the      *)
(* library promises (ThreadService).                                       *)
(***************************************************************************)
EXTENDS Mthread

\* A thread's condition, read off the queues and lists that hold it.
whereBar ==
    [t \in Tid |->
        CASE \E m \in Mutex : find_thread(queue[m], t) -> "claiming"
          [] tcb_is_blocked_waiting(t)                 -> "joining"
          [] \E p \in Prio : find_thread(ready[p], t)  -> "ready"
          [] t = running                               -> "running"
          [] state[t] = "TERMINATED"                   -> "finished"
          [] OTHER                                     -> "unborn"]

Service == INSTANCE ThreadService WITH
    Thread  <- Tid,
    Main    <- main,
    where   <- whereBar,
    joining <- { <<b.blocked, b.waited>> : b \in blockedWaiting },
    locked  <- { m \in Mutex : flag[m] = "LOCKED" },
    claims  <- [m \in Mutex |-> Range(queue[m])],
    over    <- Ended

\* The library implements the thread service: its FIFOs, lists and lookups
\* never do to a thread what the service does not allow.
ImplementsService == Service!Spec
=============================================================================
