------------------------ MODULE MthreadServiceProofs ------------------------
(***************************************************************************)
(* Mthread implements ThreadService, for any number of threads and mutexes,*)
(* in a build where the freed list node of remove_blocked_mutex can still  *)
(* be read.  With the invariant Inv the condition of a thread, which the   *)
(* refinement mapping reads off the queues and lists, is a matter of its   *)
(* state field and of who runs; every action of Mthread is then an action  *)
(* of the service, or changes nothing the service has.                     *)
(***************************************************************************)
EXTENDS MthreadMC, MthreadProofs

Condition(t) ==
    CASE state[t] = "READY"                     -> "ready"
      [] state[t] = "BLOCKED"                   -> "joining"
      [] state[t] = "TERMINATED"                -> "finished"
      [] state[t] = "RUNNING" /\ t = running    -> "running"
      [] state[t] = "RUNNING" /\ t # running    -> "claiming"
      [] OTHER                                  -> "unborn"

JoiningBar == { <<b.blocked, b.waited>> : b \in blockedWaiting }
LockedBar  == { m \in Mutex : flag[m] = "LOCKED" }
ClaimsBar  == [m \in Mutex |-> Range(queue[m])]

-----------------------------------------------------------------------------
(* The mapping. *)

LEMMA WhereIs == Inv => whereBar = [t \in Tid |-> Condition(t)]
<1> SUFFICES ASSUME Inv, NEW t \in Tid
             PROVE  Condition(t) =
                      CASE \E m \in Mutex : find_thread(queue[m], t) -> "claiming"
                        [] tcb_is_blocked_waiting(t)                 -> "joining"
                        [] \E p \in Prio : find_thread(ready[p], t)  -> "ready"
                        [] t = running                               -> "running"
                        [] state[t] = "TERMINATED"                   -> "finished"
                        [] OTHER                                     -> "unborn"
  BY DEF whereBar
<1>1. (\E m \in Mutex : find_thread(queue[m], t)) <=> state[t] = "RUNNING" /\ t # running
  BY DEF Inv, MutexQueues, Parked, find_thread
<1>2. tcb_is_blocked_waiting(t) <=> state[t] = "BLOCKED"
  BY DEF Inv, WaitingList, tcb_is_blocked_waiting
<1>3. (\E p \in Prio : find_thread(ready[p], t)) <=> state[t] = "READY"
  <2>1. prio[t] \in Prio
    BY DEF Inv, TypeOK
  <2> QED BY <2>1 DEF Inv, ReadyQueues, find_thread
<1>4. t = running => state[t] = "RUNNING"
  BY NullAssumption DEF Inv, Processor
<1>5. state[t] \in {"NONE", "READY", "RUNNING", "BLOCKED", "TERMINATED"}
  BY DEF Inv, TypeOK
<1> QED BY <1>1, <1>2, <1>3, <1>4, <1>5 DEF Condition

\* The condition of each thread, without the queues and lists.
Conditions ==
    /\ whereBar \in [Tid -> {"ready", "joining", "finished", "running", "claiming", "unborn"}]
    /\ \A t \in Tid :
          /\ whereBar[t] = "ready" <=> state[t] = "READY"
          /\ whereBar[t] = "joining" <=> state[t] = "BLOCKED"
          /\ whereBar[t] = "finished" <=> state[t] = "TERMINATED"
          /\ whereBar[t] = "running" <=> t = running
          /\ whereBar[t] = "claiming" <=> state[t] = "RUNNING" /\ t # running
          /\ whereBar[t] = "unborn" <=> state[t] = "NONE"

LEMMA WhereAt == Inv => Conditions
<1> SUFFICES ASSUME Inv PROVE Conditions
  OBVIOUS
<1>1. \A t \in Tid : t = running => state[t] = "RUNNING"
  BY NullAssumption DEF Inv, Processor
<1>2. \A t \in Tid : state[t] \in {"NONE", "READY", "RUNNING", "BLOCKED", "TERMINATED"}
  BY DEF Inv, TypeOK
<1> QED BY <1>1, <1>2, WhereIs DEF Condition, Conditions

LEMMA WhereNext == Inv' => whereBar' = [t \in Tid |-> Condition(t)']
<1>1. (Inv => whereBar = [t \in Tid |-> Condition(t)])'
  BY WhereIs, PTL
<1> QED BY <1>1

\* Where a step leaves a thread.
LEMMA MovesTo ==
    ASSUME Inv, Inv', NEW w \in [Tid -> {"ready", "joining", "finished", "running", "claiming", "unborn"}],
           \A t \in Tid : Condition(t)' = w[t]
    PROVE  whereBar' = w
BY WhereNext

\* A step that changes neither states nor the processor moves nobody.
LEMMA WhereKept ==
    ASSUME Inv, Inv', UNCHANGED <<state, running>>
    PROVE  whereBar' = whereBar
<1>1. \A t \in Tid : Condition(t)' = Condition(t)
  BY DEF Condition
<1> QED BY <1>1, WhereIs, WhereNext

\* A step that changes the state of one thread and who runs moves the two.
LEMMA OneMoves ==
    ASSUME Inv, Inv', NEW t \in Tid,
           \A u \in Tid \ {t} : state'[u] = state[u] /\ (u = running' <=> u = running)
    PROVE  whereBar' = [whereBar EXCEPT ![t] = Condition(t)']
<1>1. \A u \in Tid \ {t} : Condition(u)' = Condition(u)
  BY DEF Condition
<1> QED BY <1>1, WhereIs, WhereNext

\* In the initial states of Mthread nobody is anywhere.
LEMMA ServiceInit == Init => Service!Init
<1> SUFFICES ASSUME Init PROVE Service!Init
  OBVIOUS
<1>1. Inv
  BY InitInv
<1>2. whereBar = [t \in Tid |-> "unborn"]
  BY <1>1, WhereIs DEF Init, Condition
<1>3. Range(<<>>) = {}
  BY DEF Range
<1> QED BY <1>2, <1>3 DEF Init, Service!Init, Ended, HIGH

\* The elements of a queue.
LEMMA RangeAt ==
    ASSUME NEW S, NEW s \in Seq(S)
    PROVE  Range(s) = { s[i] : i \in 1 .. Len(s) }
BY DEF Range

-----------------------------------------------------------------------------
(* Each action of the library is one of the service. *)

LEMMA CreateServed ==
    ASSUME Inv, Inv', NEW p \in PrioArg, mcreate(p)
    PROVE  [Service!Next]_Service!vars
<1> DEFINE t == nextTid
<1>1. p \in Prio /\ t \in Tid /\ t > 0 /\ state[t] = "NONE"
  BY MaxTidAssumption DEF mcreate, valid_prio, Prio, Tid, Inv, Births
<1>2. running \in Tid /\ Live(main) /\ main \in Tid /\ t # main /\ cpu = "app"
  BY <1>1, MaxTidAssumption DEF Inv, TypeOK, Births, RunningWhileApp, mcreate, Tid, main
<1>3. Conditions /\ t # running /\ whereBar[main] # "unborn"
  BY <1>1, <1>2, WhereAt DEF Conditions, Live, Inv, Processor
<1>4. Service!Active
  BY <1>2, <1>3 DEF Service!Active, Service!In, Conditions, Ended
<1>5. UNCHANGED <<running, blockedWaiting, flag, queue, cpu>> /\ Ended' = Ended
  BY DEF mcreate, Ended
<1>6. CASE tcb_init_works(t, p) /\ state' = [state EXCEPT ![t] = "READY"]
  <2>1. state'[t] = "READY" /\ \A u \in Tid \ {t} : state'[u] = state[u]
    BY <1>1, <1>6 DEF Inv, TypeOK
  <2>2. whereBar' = [whereBar EXCEPT ![t] = "ready"]
    BY <1>1, <1>5, <2>1, OneMoves DEF Condition
  <2>3. whereBar' = [whereBar EXCEPT ![main] = IF @ = "unborn" THEN "running" ELSE @, ![t] = "ready"]
    BY <1>2, <1>3, <2>2 DEF Conditions
  <2>4. Service!Spawn(t, p)
    BY <1>1, <1>2, <1>3, <1>4, <1>5, <1>6, <2>3 DEF Service!Spawn, Conditions, tcb_init_works
  <2> QED BY <1>1, <2>4 DEF Service!Next
<1>7. CASE tcb_init_fails(t) /\ UNCHANGED state
  BY <1>5, <1>7, WhereKept DEF Service!vars, tcb_init_fails
<1> QED BY <1>6, <1>7 DEF mcreate

LEMMA FirstCreateServed ==
    ASSUME Inv, Inv', NEW p \in PrioArg, mcreate_first(p)
    PROVE  [Service!Next]_Service!vars
<1>1. p \in Prio /\ main \in Tid /\ 1 \in Tid /\ main # 1
  BY MaxTidAssumption DEF mcreate_first, valid_prio, Prio, Tid, main
<1>2. /\ \A u \in Tid : state[u] = "NONE"
      /\ running = NULL /\ running' = main /\ cpu = "app"
      /\ UNCHANGED <<blockedWaiting, flag, queue, cpu>> /\ Ended' = Ended
  BY DEF Inv, Births, RunningWhileApp, Tid, mcreate_first, init, Ended
<1>3. Conditions /\ Service!Active /\ ~Ended
  BY <1>1, <1>2, WhereAt DEF Conditions, Service!Active, Ended
<1>4. CASE tcb_init_works(1, p) /\ state' = [state EXCEPT ![main] = "RUNNING", ![1] = "READY"]
  <2> DEFINE w == [whereBar EXCEPT ![main] = IF @ = "unborn" THEN "running" ELSE @, ![1] = "ready"]
  <2>1. w \in [Tid -> {"ready", "joining", "finished", "running", "claiming", "unborn"}]
    BY <1>1, <1>3 DEF Conditions
  <2>2. \A u \in Tid : Condition(u)' = w[u]
    BY <1>1, <1>2, <1>3, <1>4 DEF Condition, Conditions, Inv, TypeOK
  <2>3. whereBar' = w
    BY <2>1, <2>2, MovesTo
  <2>4. Service!Spawn(1, p)
    BY <1>1, <1>2, <1>3, <1>4, <2>3 DEF Service!Spawn, Conditions, tcb_init_works
  <2> QED BY <1>1, <2>4 DEF Service!Next
<1>5. CASE tcb_init_fails(1) /\ state' = [state EXCEPT ![main] = "RUNNING"]
  <2>1. state'[main] = "RUNNING" /\ \A u \in Tid \ {main} : state'[u] = state[u]
    BY <1>1, <1>5 DEF Inv, TypeOK
  <2>2. whereBar' = [whereBar EXCEPT ![main] = "running"]
    BY <1>1, <1>2, <2>1, NullAssumption, OneMoves DEF Condition
  <2>3. Service!Boot
    BY <1>1, <1>2, <1>3, <1>5, <2>2 DEF Service!Boot, Service!Move, Conditions, tcb_init_fails
  <2> QED BY <2>3 DEF Service!Next
<1> QED BY <1>4, <1>5 DEF mcreate_first

LEMMA YieldServed ==
    ASSUME Inv, Inv', myield
    PROVE  Service!Next
<1>1. /\ running \in Tid /\ running' = NULL /\ ~Ended /\ Ended' = Ended
      /\ UNCHANGED <<prio, blockedWaiting, flag, queue>>
  BY DEF myield, Inv, TypeOK, Ended
<1>2. state'[running] = "READY" /\ \A u \in Tid \ {running} : state'[u] = state[u]
  BY <1>1 DEF myield, Inv, TypeOK
<1>3. whereBar' = [whereBar EXCEPT ![running] = "ready"] /\ whereBar[running] = "running"
  BY <1>1, <1>2, NullAssumption, OneMoves, WhereAt DEF Condition, Conditions
<1>4. Service!Yield(running)
  BY <1>1, <1>3 DEF Service!Yield, Service!Move
<1> QED BY <1>1, <1>4 DEF Service!Next

LEMMA WaitServed ==
    ASSUME Inv, Inv', NEW t \in Tid, mwait(t)
    PROVE  Service!Next
<1>1. /\ running \in Tid /\ running' = NULL /\ ~Ended /\ Ended' = Ended
      /\ blockedWaiting' = blockedWaiting \cup {[waited |-> t, blocked |-> running]}
      /\ UNCHANGED <<prio, flag, queue>>
  BY DEF mwait, Inv, TypeOK, Ended
<1>2. state'[running] = "BLOCKED" /\ \A u \in Tid \ {running} : state'[u] = state[u]
  BY <1>1 DEF mwait, Inv, TypeOK
<1>3. whereBar' = [whereBar EXCEPT ![running] = "joining"] /\ whereBar[running] = "running" /\ Conditions
  BY <1>1, <1>2, NullAssumption, OneMoves, WhereAt DEF Condition, Conditions
<1>4. state[t] \in {"READY", "BLOCKED"} /\ t # running
  <2>1. state[running] = "RUNNING"
    BY <1>1, NullAssumption DEF Inv, Processor
  <2>2. \/ \E p \in Prio : find_thread(ready[p], t)
        \/ tcb_is_blocked_waiting(t)
    BY DEF mwait, tcb_exists
  <2> QED BY <2>1, <2>2 DEF Inv, ReadyQueues, WaitingList, find_thread, tcb_is_blocked_waiting
<1>5. whereBar[t] \in {"ready", "joining", "claiming"}
  BY <1>3, <1>4 DEF Conditions
<1>6. \A b \in blockedWaiting : b.waited # t
  BY DEF mwait, find_blocked_waiting_tcb
<1>7. JoiningBar' = JoiningBar \cup {<<running, t>>} /\ \A j \in JoiningBar : j[2] # t
  <2>1. \A b \in blockedWaiting' : b \in blockedWaiting \/ b = [waited |-> t, blocked |-> running]
    BY <1>1
  <2>2. \A j \in JoiningBar : j[2] # t
    BY <1>6 DEF JoiningBar
  <2>3. JoiningBar' \subseteq JoiningBar \cup {<<running, t>>}
    BY <2>1 DEF JoiningBar
  <2>4. <<running, t>> \in JoiningBar'
    <3>1. [waited |-> t, blocked |-> running] \in blockedWaiting'
      BY <1>1
    <3> QED BY <3>1 DEF JoiningBar
  <2>5. JoiningBar \subseteq JoiningBar'
    BY <1>1 DEF JoiningBar
  <2> QED BY <2>2, <2>3, <2>4, <2>5
<1>8. Service!Join(running, t)
  BY <1>1, <1>3, <1>4, <1>5, <1>7 DEF Service!Join, Service!Move, JoiningBar
<1> QED BY <1>1, <1>8 DEF Service!Next

\* mmutex_init and munlock of a mutex nobody waits for, and mlock of a free
\* one.  A mutex that was free already stays so.
LEMMA FlagServed ==
    ASSUME Inv, Inv', NEW m \in Mutex,
           mmutex_init(m) \/ mlock_free(m) \/ munlock_free(m)
    PROVE  [Service!Next]_Service!vars
<1>1. /\ UNCHANGED <<nextTid, prio, state, running, blockedWaiting, queue, cpu>> /\ cpu = "app"
      /\ Ended' = Ended /\ ~Ended
  BY DEF mmutex_init, mlock_free, munlock_free, Ended
<1>2. whereBar' = whereBar /\ Conditions
  BY <1>1, WhereKept, WhereAt
<1>3. flag \in [Mutex -> {"UNLOCKED", "LOCKED"}]
  BY DEF Inv, TypeOK
<1>4. Service!Active
  <2>1. main \in Tid
    BY MaxTidAssumption DEF Tid, main
  <2>2. CASE running = NULL
    <3>1. nextTid = 0
      BY <1>1, <2>2 DEF Inv, RunningWhileApp
    <3>2. state[main] = "NONE"
      BY <2>1, <3>1 DEF Inv, Births, Tid
    <3> QED BY <1>1, <1>2, <2>1, <3>2 DEF Service!Active, Conditions
  <2>3. CASE running # NULL
    <3>1. running \in Tid
      BY <2>3 DEF Inv, TypeOK
    <3> QED BY <1>1, <1>2, <3>1 DEF Service!Active, Service!In, Conditions
  <2> QED BY <2>2, <2>3
<1>5. ASSUME no_waiters(m), flag' = [flag EXCEPT ![m] = "UNLOCKED"]
      PROVE  [Service!Next]_Service!vars
  <2>1. Range(queue[m]) = {}
    BY <1>5 DEF no_waiters, Range
  <2>2. CASE flag[m] = "LOCKED"
    <3>1. m \in LockedBar /\ LockedBar' = LockedBar \ {m}
      BY <1>3, <1>5, <2>2 DEF LockedBar
    <3>2. Service!Release(m)
      BY <1>1, <1>2, <1>4, <2>1, <3>1 DEF Service!Release, LockedBar
    <3> QED BY <3>2 DEF Service!Next
  <2>3. CASE flag[m] # "LOCKED"
    <3>1. flag' = flag
      BY <1>3, <1>5, <2>3
    <3> QED BY <1>1, <1>2, <3>1 DEF Service!vars
  <2> QED BY <2>2, <2>3
<1>6. CASE mlock_free(m)
  <2>1. m \notin LockedBar /\ LockedBar' = LockedBar \cup {m}
    BY <1>3, <1>6 DEF mlock_free, LockedBar
  <2>2. Service!In("running") # {}
    <3>1. running \in Tid
      BY <1>6 DEF mlock_free, Inv, TypeOK
    <3> QED BY <1>2, <3>1 DEF Service!In, Conditions
  <2>3. Service!Acquire(m)
    BY <1>1, <1>2, <2>1, <2>2 DEF Service!Acquire, LockedBar
  <2> QED BY <2>3 DEF Service!Next
<1> QED BY <1>5, <1>6 DEF mmutex_init, munlock_free

LEMMA ClaimServed ==
    ASSUME Inv, Inv', NEW m \in Mutex, mlock_taken(m)
    PROVE  Service!Next
<1>1. /\ running \in Tid /\ running' = NULL /\ ~Ended /\ Ended' = Ended
      /\ flag[m] = "LOCKED" /\ queue' = [queue EXCEPT ![m] = Append(@, running)]
      /\ UNCHANGED <<prio, state, blockedWaiting, flag>>
  BY DEF mlock_taken, Inv, TypeOK, Ended
<1>2. state[running] = "RUNNING"
  BY <1>1, NullAssumption DEF Inv, Processor
<1>3. whereBar' = [whereBar EXCEPT ![running] = "claiming"] /\ whereBar[running] = "running"
  BY <1>1, <1>2, NullAssumption, OneMoves, WhereAt DEF Condition, Conditions
<1>4. Range(Append(queue[m], running)) = Range(queue[m]) \cup {running}
  <2>1. queue[m] \in Seq(Tid)
    BY DEF Inv, TypeOK
  <2>2. Append(queue[m], running) \in Seq(Tid)
    BY <1>1, <2>1, AppendAt
  <2>3. /\ Range(queue[m]) = { queue[m][i] : i \in 1 .. Len(queue[m]) }
        /\ Range(Append(queue[m], running)) =
              { Append(queue[m], running)[i] : i \in 1 .. Len(queue[m]) + 1 }
    <3>1. Len(Append(queue[m], running)) = Len(queue[m]) + 1
      BY <1>1, <2>1, AppendAt
    <3> QED BY <3>1, <2>1, <2>2, RangeAt
  <2>4. /\ Len(queue[m]) \in Nat /\ Append(queue[m], running)[Len(queue[m]) + 1] = running
        /\ \A i \in 1 .. Len(queue[m]) : Append(queue[m], running)[i] = queue[m][i]
    BY <1>1, <2>1, AppendAt
  <2> QED BY <2>3, <2>4
<1>5. ClaimsBar' = [ClaimsBar EXCEPT ![m] = @ \cup {running}]
  BY <1>1, <1>4 DEF ClaimsBar, Inv, TypeOK
<1>6. Service!Claim(running, m)
  BY <1>1, <1>3, <1>5 DEF Service!Claim, Service!Move, ClaimsBar
<1> QED BY <1>1, <1>6 DEF Service!Next

\* munlock of a mutex with waiters, in a build whose freed node is intact.
LEMMA PassServed ==
    ASSUME Inv, Inv', NEW m \in Mutex, munlock_handover(m), FreedReads = {"intact"}
    PROVE  Service!Next
<1> DEFINE t == Head(queue[m])
<1>1. /\ queue[m] # <<>> /\ flag[m] = "LOCKED" /\ running \in Tid /\ cpu = "app"
      /\ queue' = [queue EXCEPT ![m] = Tail(@)]
      /\ state' = [state EXCEPT ![t] = "READY"]
      /\ UNCHANGED <<prio, running, blockedWaiting, flag>>
  BY DEF munlock_handover, wake_first_waiter, no_waiters, Inv, TypeOK
<1>2. cpu' = cpu /\ ~Ended /\ Ended' = Ended
  BY <1>1 DEF munlock_handover, wake_first_waiter, Ended
<1>3. /\ queue[m] \in Seq(Tid) /\ Tail(queue[m]) \in Seq(Tid) /\ Len(queue[m]) \in Nat \ {0}
      /\ t \in Tid /\ t = queue[m][1] /\ Len(Tail(queue[m])) = Len(queue[m]) - 1
      /\ \A i \in 1 .. Len(queue[m]) - 1 : Tail(queue[m])[i] = queue[m][i + 1]
  BY <1>1, TailAt DEF Inv, TypeOK
<1>4. t # running
  BY <1>3 DEF Inv, MutexQueues, Parked
<1>5. state'[t] = "READY" /\ \A u \in Tid \ {t} : state'[u] = state[u]
  BY <1>1, <1>3 DEF Inv, TypeOK
<1>6. whereBar' = [whereBar EXCEPT ![t] = "ready"] /\ Conditions
  BY <1>1, <1>3, <1>5, OneMoves, WhereAt DEF Condition
<1>7. Range(Tail(queue[m])) = Range(queue[m]) \ {t} /\ t \in Range(queue[m])
  <2>1. \A i \in 2 .. Len(queue[m]) : queue[m][i] # t
    BY <1>3 DEF Inv, MutexQueues
  <2>2. Range(queue[m]) = { queue[m][i] : i \in 1 .. Len(queue[m]) }
        /\ Range(Tail(queue[m])) = { Tail(queue[m])[i] : i \in 1 .. Len(queue[m]) - 1 }
    BY <1>3, RangeAt
  <2>3. ASSUME NEW u \in Range(Tail(queue[m])) PROVE u \in Range(queue[m]) \ {t}
    <3>1. PICK i \in 1 .. Len(queue[m]) - 1 : u = queue[m][i + 1]
      BY <1>3, <2>2
    <3>2. i + 1 \in 2 .. Len(queue[m]) /\ i + 1 \in 1 .. Len(queue[m])
      BY <1>3
    <3> QED BY <2>1, <2>2, <3>1, <3>2
  <2>4. ASSUME NEW u \in Range(queue[m]) \ {t} PROVE u \in Range(Tail(queue[m]))
    <3>1. PICK i \in 1 .. Len(queue[m]) : u = queue[m][i]
      BY <2>2
    <3>2. i - 1 \in 1 .. Len(queue[m]) - 1 /\ (i - 1) + 1 = i
      BY <1>3, <3>1, <2>4
    <3>3. u = Tail(queue[m])[i - 1]
      BY <1>3, <3>1, <3>2
    <3> QED BY <2>2, <3>2, <3>3
  <2>5. t \in Range(queue[m])
    BY <1>3, <2>2
  <2> QED BY <2>3, <2>4, <2>5
<1>8. ClaimsBar' = [ClaimsBar EXCEPT ![m] = @ \ {t}]
  BY <1>1, <1>7 DEF ClaimsBar, Inv, TypeOK
<1>9. Service!In("running") # {}
  BY <1>1, <1>6 DEF Service!In, Conditions
<1>10. Service!Pass(m, t)
  <2> HIDE DEF t
  <2> QED BY <1>1, <1>2, <1>6, <1>7, <1>8, <1>9 DEF Service!Pass, Service!Move, ClaimsBar
<1> QED BY <1>3, <1>10 DEF Service!Next

LEMMA FinishServed ==
    ASSUME Inv, Inv', terminate
    PROVE  Service!Next
<1>0. PICK r \in Tid : r = running
  BY DEF terminate, Inv, TypeOK
<1> DEFINE w == [u \in Tid |-> IF u = r THEN "finished"
                               ELSE IF <<u, r>> \in JoiningBar THEN "ready" ELSE whereBar[u]]
<1>1. /\ r \in Tid \ {main} /\ r = running /\ running' = NULL /\ ~Ended /\ Ended' = Ended
      /\ UNCHANGED <<prio, flag, queue>>
  BY <1>0 DEF terminate, Ended
<1>2. Conditions /\ whereBar[r] = "running" /\ state[r] = "RUNNING"
  BY <1>1, WhereAt, NullAssumption DEF Conditions, Inv, Processor
<1>3. \A u \in Tid : <<u, r>> \in JoiningBar <=> \E b \in blockedWaiting : b.blocked = u /\ b.waited = r
  BY DEF JoiningBar
<1>4. \A b \in blockedWaiting : b.blocked \in Tid /\ b.waited \in Tid /\ state[b.blocked] = "BLOCKED"
  BY DEF Inv, TypeOK, Waits, WaitingList
<1>5. w \in [Tid -> {"ready", "joining", "finished", "running", "claiming", "unborn"}]
  BY <1>2 DEF Conditions
<1>6. /\ \A u \in Tid : Condition(u)' = w[u]
      /\ JoiningBar' = { j \in JoiningBar : j[2] # r }
  <2>1. CASE /\ ~find_blocked_waiting_tcb(r)
             /\ state' = [state EXCEPT ![r] = "TERMINATED"]
             /\ UNCHANGED <<ready, blockedWaiting>>
    <3>1. \A b \in blockedWaiting : b.waited # r
      BY <2>1 DEF find_blocked_waiting_tcb
    <3>2. JoiningBar' = JoiningBar /\ \A j \in JoiningBar : j[2] # r
      BY <2>1, <3>1 DEF JoiningBar
    <3>3. \A u \in Tid : w[u] = IF u = r THEN "finished" ELSE whereBar[u]
      BY <1>3, <3>1
    <3>4. state'[r] = "TERMINATED" /\ \A u \in Tid \ {r} : state'[u] = state[u] /\ u # running /\ u # running'
      BY <1>1, <2>1, NullAssumption DEF Inv, TypeOK
    <3>5. \A u \in Tid \ {r} : whereBar[u] = Condition(u)
      BY WhereIs
    <3>6. ASSUME NEW u \in Tid \ {r} PROVE Condition(u)' = Condition(u)
      BY <3>4 DEF Condition
    <3>7. Condition(r)' = "finished"
      BY <3>4 DEF Condition
    <3> HIDE DEF w
    <3> QED BY <3>2, <3>3, <3>5, <3>6, <3>7
  <2>2. CASE \E b \in waiters_of(r) :
               /\ blockedWaiting' = blockedWaiting \ {b}
               /\ state' = [state EXCEPT ![r] = "TERMINATED", ![b.blocked] = "READY"]
    <3>1. PICK b \in blockedWaiting :
               /\ b.waited = r /\ blockedWaiting' = blockedWaiting \ {b}
               /\ state' = [state EXCEPT ![r] = "TERMINATED", ![b.blocked] = "READY"]
      BY <2>2 DEF waiters_of
    <3>2. \A c \in blockedWaiting : c.waited = r => c = b
      BY <3>1 DEF Inv, WaitingList
    <3>3. JoiningBar' = { j \in JoiningBar : j[2] # r }
      <4>1. \A c \in blockedWaiting : c \in blockedWaiting' <=> c.waited # r
        BY <3>1, <3>2
      <4>2. blockedWaiting' \subseteq blockedWaiting
        BY <3>1
      <4> QED BY <4>1, <4>2 DEF JoiningBar
    <3>4. b.blocked \in Tid \ {r}
      BY <1>2, <1>4, <3>1
    <3>5. \A u \in Tid : w[u] = IF u = r THEN "finished" ELSE IF u = b.blocked THEN "ready" ELSE whereBar[u]
      BY <1>3, <3>1, <3>2
    <3>6. /\ state'[r] = "TERMINATED" /\ state'[b.blocked] = "READY"
          /\ \A u \in Tid \ {r, b.blocked} : state'[u] = state[u] /\ u # running /\ u # running'
      BY <1>1, <3>1, <3>4, NullAssumption DEF Inv, TypeOK
    <3>7. \A u \in Tid \ {r, b.blocked} : whereBar[u] = Condition(u)
      BY WhereIs
    <3>8. ASSUME NEW u \in Tid \ {r, b.blocked} PROVE Condition(u)' = Condition(u)
      BY <3>6 DEF Condition
    <3>9. Condition(r)' = "finished" /\ Condition(b.blocked)' = "ready"
      BY <3>6 DEF Condition
    <3> HIDE DEF w
    <3> QED BY <3>3, <3>5, <3>7, <3>8, <3>9
  <2> QED BY <1>1, <2>1, <2>2 DEF terminate
<1>7. whereBar' = w
  BY <1>5, <1>6, MovesTo
<1>8. Service!Finish(r)
  BY <1>1, <1>2, <1>6, <1>7 DEF Service!Finish, JoiningBar
<1> QED BY <1>1, <1>8 DEF Service!Next

LEMMA DispatchServed ==
    ASSUME Inv, Inv', NEW p \in Prio, dispatch(p)
    PROVE  Service!Next
<1>0. PICK t \in Tid : t = Head(ready[p])
  <2>1. ready[p] \in Seq(Tid) /\ ready[p] # <<>>
    BY DEF dispatch, Inv, TypeOK
  <2> QED BY <2>1, TailAt
<1>1. /\ ready[p] # <<>> /\ running = NULL /\ running' = t /\ t = Head(ready[p])
      /\ no_thread_ready(scanned_before(p))
      /\ state' = [state EXCEPT ![t] = "RUNNING"] /\ ~Ended /\ Ended' = Ended
      /\ UNCHANGED <<prio, blockedWaiting, flag, queue>>
  BY <1>0 DEF dispatch, Inv, RunningWhileApp, Ended
<1>2. t \in Tid /\ state[t] = "READY" /\ prio[t] = p
  <2>1. t = ready[p][1] /\ 1 \in 1 .. Len(ready[p]) /\ t \in Tid
    BY <1>1, TailAt DEF Inv, TypeOK
  <2> QED BY <2>1 DEF Inv, ReadyQueues
<1>3. state'[t] = "RUNNING" /\ \A u \in Tid \ {t} : state'[u] = state[u]
  BY <1>1, <1>2 DEF Inv, TypeOK
<1>4. whereBar' = [whereBar EXCEPT ![t] = "running"] /\ Conditions
  <2>1. Condition(t)' = "running"
    BY <1>1, <1>3 DEF Condition
  <2>2. \A u \in Tid \ {t} : u = running' <=> u = running
    BY <1>1, NullAssumption
  <2> QED BY <1>2, <1>3, <2>1, <2>2, OneMoves, WhereAt
<1>5. ASSUME NEW u \in Tid, state[u] = "READY" PROVE p <= prio[u]
  <2>1. prio[u] \in Prio /\ ready[prio[u]] # <<>>
    <3>1. prio[u] \in Prio /\ ready[prio[u]] \in Seq(Tid)
      BY DEF Inv, TypeOK
    <3>2. PICK i \in 1 .. Len(ready[prio[u]]) : ready[prio[u]][i] = u
      BY <1>5 DEF Inv, ReadyQueues
    <3> QED BY <3>1, <3>2
  <2>2. prio[u] \notin scanned_before(p)
    BY <1>1, <2>1 DEF no_thread_ready
  <2> QED BY <2>1, <2>2 DEF scanned_before, schedule_scan, Prio, N_PRIORITIES
<1>6. Service!In("running") = {} /\ \A u \in Service!In("ready") : prio[t] <= prio[u]
  BY <1>1, <1>2, <1>4, <1>5, NullAssumption DEF Service!In, Conditions
<1>7. Service!Dispatch(t)
  <2> QED BY <1>1, <1>2, <1>4, <1>6 DEF Service!Dispatch, Service!Move, Conditions
<1> QED BY <1>2, <1>7 DEF Service!Next

LEMMA StopServed ==
    ASSUME Inv, Inv', main_returns \/ nothing_ready
    PROVE  Service!Next
<1>1. /\ UNCHANGED <<prio, state, running, blockedWaiting, flag, queue>>
      /\ ~Ended /\ Ended' = TRUE
  BY DEF main_returns, nothing_ready, Ended
<1>2. whereBar' = whereBar /\ Conditions
  BY <1>1, WhereKept, WhereAt
<1>3. main \in Tid
  BY MaxTidAssumption DEF Tid, main
<1>4. CASE main_returns
  <2>1. running = NULL => state[main] = "NONE"
    BY <1>3, <1>4 DEF main_returns, Inv, RunningWhileApp, Births, Tid
  <2>2. whereBar[main] \in {"unborn", "running"}
    BY <1>2, <1>3, <1>4, <2>1 DEF main_returns, Conditions
  <2> QED BY <1>1, <1>2, <2>2 DEF Service!Stop, Service!Next
<1>5. CASE nothing_ready
  <2>1. running = NULL
    BY <1>5 DEF nothing_ready, Inv, RunningWhileApp
  <2>2. \A p \in Prio : ready[p] = <<>>
    BY <1>5 DEF nothing_ready, no_thread_ready, schedule_scan, Prio
  <2>3. ASSUME NEW u \in Tid PROVE state[u] # "READY"
    <3>1. prio[u] \in Prio
      BY DEF Inv, TypeOK
    <3>2. Len(ready[prio[u]]) = 0
      BY <2>2, <3>1
    <3> QED BY <3>2 DEF Inv, ReadyQueues
  <2>4. Service!In("running") = {} /\ Service!In("ready") = {}
    BY <1>2, <2>1, <2>3, NullAssumption DEF Service!In, Conditions
  <2> QED BY <1>1, <1>2, <2>4 DEF Service!Stop, Service!Next
<1> QED BY <1>4, <1>5

-----------------------------------------------------------------------------
LEMMA ServiceStep ==
    FreedReads = {"intact"} /\ Inv /\ Inv' /\ [Next]_vars => [Service!Next]_Service!vars
<1> SUFFICES ASSUME FreedReads = {"intact"}, Inv, Inv', [Next]_vars
             PROVE  [Service!Next]_Service!vars
  OBVIOUS
<1>1. ASSUME UNCHANGED vars PROVE UNCHANGED Service!vars
  <2>1. UNCHANGED <<prio, state, running, blockedWaiting, flag, queue>> /\ Ended' = Ended
    BY <1>1 DEF vars, Ended
  <2> QED BY <2>1, WhereKept DEF Service!vars
<1>2. \/ \E p \in PrioArg : mcreate_first(p) \/ mcreate(p)
      \/ myield \/ terminate \/ main_returns \/ nothing_ready
      \/ \E t \in Tid : mwait(t)
      \/ \E m \in Mutex : mmutex_init(m) \/ mlock_free(m) \/ munlock_free(m)
      \/ \E m \in Mutex : mlock_taken(m) \/ munlock_handover(m)
      \/ \E p \in Prio : dispatch(p)
      \/ UNCHANGED vars
  BY DEF Next, mlock, munlock, schedule, schedule_scan, Prio, Stopped
<1> QED
  BY <1>1, <1>2, FirstCreateServed, CreateServed, YieldServed, WaitServed, FlagServed,
     ClaimServed, PassServed, FinishServed, DispatchServed, StopServed

\* The library implements the thread service, for any number of threads and
\* mutexes: no call of it, and no order of its queues and lists, does to a
\* thread what the service does not allow (mthread.c, mdata.c; a build whose
\* freed list node is intact).
THEOREM ServiceImplemented ==
    ASSUME FreedReads = {"intact"}
    PROVE  Spec => ImplementsService
<1>1. Inv /\ Inv' /\ [Next]_vars => [Service!Next]_Service!vars
  BY ServiceStep
<1> QED BY <1>1, ServiceInit, Invariance, PTL DEF Spec, ImplementsService, Service!Spec
=============================================================================
