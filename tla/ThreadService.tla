--------------------------- MODULE ThreadService ---------------------------
(***************************************************************************)
(* What the mthread library promises a program, without its queues: who    *)
(* may run, who waits for whom, and which mutexes are held.  Sets stand    *)
(* where the library keeps FIFOs, and a join may be refused at will.       *)
(***************************************************************************)
EXTENDS Naturals

CONSTANTS
    Thread,   \* the threads there may be
    Main,     \* the thread that runs main()
    Prio,     \* priorities, 0 the highest
    Mutex

VARIABLES
    where,    \* the condition of each thread
    prio,     \* its priority
    joining,  \* pairs <<t, u>>: t sleeps until u finishes
    locked,   \* the mutexes that are held
    claims,   \* for each mutex, the threads that sleep until they get it
    over      \* the process has ended

vars == <<where, prio, joining, locked, claims, over>>

In(w) == { t \in Thread : where[t] = w }

\* Program code executes: some thread runs, or main has not made a call yet.
Active == ~over /\ (In("running") # {} \/ where[Main] = "unborn")
Move(t, w) == where' = [where EXCEPT ![t] = w]

Init ==
    /\ where = [t \in Thread |-> "unborn"]
    /\ prio = [t \in Thread |-> 0]
    /\ joining = {}
    /\ locked = {}
    /\ claims = [m \in Mutex |-> {}]
    /\ over = FALSE

\* Main becomes a thread at its first call.
Boot ==
    /\ ~over /\ where[Main] = "unborn" /\ Move(Main, "running")
    /\ UNCHANGED <<prio, joining, locked, claims, over>>

Spawn(t, p) ==
    /\ Active /\ t # Main /\ where[t] = "unborn"
    /\ where' = [where EXCEPT ![Main] = IF @ = "unborn" THEN "running" ELSE @,
                              ![t] = "ready"]
    /\ prio' = [prio EXCEPT ![t] = p]
    /\ UNCHANGED <<joining, locked, claims, over>>

Yield(t) ==
    /\ ~over /\ where[t] = "running" /\ Move(t, "ready")
    /\ UNCHANGED <<prio, joining, locked, claims, over>>

\* At most one thread joins another, and only while the other is alive.
Join(t, u) ==
    /\ ~over /\ where[t] = "running" /\ t # u
    /\ where[u] \in {"ready", "joining", "claiming"}
    /\ \A j \in joining : j[2] # u
    /\ Move(t, "joining")
    /\ joining' = joining \cup {<<t, u>>}
    /\ UNCHANGED <<prio, locked, claims, over>>

\* Whoever joined t is ready when t finishes.
Finish(t) ==
    /\ ~over /\ where[t] = "running" /\ t # Main
    /\ where' = [u \in Thread |->
                    IF u = t THEN "finished"
                    ELSE IF <<u, t>> \in joining THEN "ready" ELSE where[u]]
    /\ joining' = { j \in joining : j[2] # t }
    /\ UNCHANGED <<prio, locked, claims, over>>

Acquire(m) ==
    /\ ~over /\ In("running") # {} /\ m \notin locked
    /\ locked' = locked \cup {m}
    /\ UNCHANGED <<where, prio, joining, claims, over>>

Claim(t, m) ==
    /\ ~over /\ where[t] = "running" /\ m \in locked
    /\ Move(t, "claiming")
    /\ claims' = [claims EXCEPT ![m] = @ \cup {t}]
    /\ UNCHANGED <<prio, joining, locked, over>>

\* Nobody sleeps for a mutex that becomes free ...
Release(m) ==
    /\ Active /\ m \in locked /\ claims[m] = {}
    /\ locked' = locked \ {m}
    /\ UNCHANGED <<where, prio, joining, claims, over>>

\* ... otherwise it passes, still held, to one of them.
Pass(m, t) ==
    /\ ~over /\ In("running") # {} /\ m \in locked /\ t \in claims[m]
    /\ claims' = [claims EXCEPT ![m] = @ \ {t}]
    /\ Move(t, "ready")
    /\ UNCHANGED <<prio, joining, locked, over>>

\* The processor goes to a ready thread than which none is more urgent.
Dispatch(t) ==
    /\ ~over /\ In("running") = {} /\ where[t] = "ready"
    /\ \A u \in In("ready") : prio[t] <= prio[u]
    /\ Move(t, "running")
    /\ UNCHANGED <<prio, joining, locked, claims, over>>

\* The process ends when main returns, or when everybody sleeps.
Stop ==
    /\ ~over
    /\ \/ where[Main] \in {"unborn", "running"}
       \/ In("running") = {} /\ In("ready") = {}
    /\ over' = TRUE
    /\ UNCHANGED <<where, prio, joining, locked, claims>>

Next ==
    \/ Boot \/ Stop
    \/ \E t \in Thread :
          \/ Yield(t) \/ Finish(t) \/ Dispatch(t)
          \/ \E p \in Prio : Spawn(t, p)
          \/ \E u \in Thread : Join(t, u)
          \/ \E m \in Mutex : Claim(t, m) \/ Pass(m, t)
    \/ \E m \in Mutex : Acquire(m) \/ Release(m)

Spec == Init /\ [][Next]_vars
=============================================================================
