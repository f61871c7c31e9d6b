--------------------------- MODULE MthreadProofs ---------------------------
(***************************************************************************)
(* Proofs about Mthread, for any number of threads and mutexes and either  *)
(* behaviour of the freed list node.                                       *)
(*                                                                         *)
(* The inductive invariant Inv ties the state field of every thread to the *)
(* structure that holds it: READY threads are in the ready queue of their  *)
(* priority, BLOCKED ones in the waiting list, and the RUNNING ones that   *)
(* are not on the processor (mlock leaves the field alone) in a mutex      *)
(* queue; and no structure holds anything else, or anything twice.         *)
(***************************************************************************)
EXTENDS Mthread, TLAPS, SequenceTheorems, FiniteSetTheorems

\* Blocked in mlock.
Parked(t) == state[t] = "RUNNING" /\ t # running

Births ==
    /\ \A t \in Tid : t >= nextTid => state[t] = "NONE"
    /\ nextTid > 0 => Live(main)

ReadyQueues ==
    /\ \A p \in Prio : \A i \in 1 .. Len(ready[p]) :
          state[ready[p][i]] = "READY" /\ prio[ready[p][i]] = p
    /\ \A p \in Prio : \A i, j \in 1 .. Len(ready[p]) :
          ready[p][i] = ready[p][j] => i = j
    /\ \A t \in Tid : state[t] = "READY" =>
          \E i \in 1 .. Len(ready[prio[t]]) : ready[prio[t]][i] = t

MutexQueues ==
    /\ \A m \in Mutex : \A i \in 1 .. Len(queue[m]) : Parked(queue[m][i])
    /\ \A m, n \in Mutex : \A i \in 1 .. Len(queue[m]) : \A j \in 1 .. Len(queue[n]) :
          queue[m][i] = queue[n][j] => m = n /\ i = j
    /\ \A t \in Tid : Parked(t) =>
          \E m \in Mutex : \E i \in 1 .. Len(queue[m]) : queue[m][i] = t

WaitingList ==
    /\ \A b \in blockedWaiting :
          state[b.blocked] = "BLOCKED" /\ Live(b.waited) /\ b.waited # b.blocked
    /\ \A b, c \in blockedWaiting : b.waited = c.waited \/ b.blocked = c.blocked => b = c
    /\ \A t \in Tid : state[t] = "BLOCKED" =>
          \E b \in blockedWaiting : b.blocked = t

Processor == running # NULL => state[running] = "RUNNING"

Inv ==
    /\ TypeOK
    /\ Births
    /\ ReadyQueues
    /\ MutexQueues
    /\ WaitingList
    /\ Processor
    /\ WaitersOnlyBehindLock
    /\ RunningWhileApp

-----------------------------------------------------------------------------
(* Appending to a queue and taking its head, element by element. *)

LEMMA AppendAt ==
    ASSUME NEW S, NEW s \in Seq(S), NEW e \in S
    PROVE  /\ Append(s, e) \in Seq(S)
           /\ Len(s) \in Nat /\ Len(Append(s, e)) = Len(s) + 1
           /\ Append(s, e)[Len(s) + 1] = e
           /\ \A i \in 1 .. Len(s) : Append(s, e)[i] = s[i] /\ s[i] \in S
BY AppendProperties

LEMMA TailAt ==
    ASSUME NEW S, NEW s \in Seq(S), s # <<>>
    PROVE  /\ Tail(s) \in Seq(S)
           /\ Len(s) \in Nat \ {0} /\ Len(Tail(s)) = Len(s) - 1
           /\ Head(s) = s[1] /\ s[1] \in S
           /\ \A i \in 1 .. Len(s) - 1 : Tail(s)[i] = s[i + 1] /\ s[i + 1] \in S
BY HeadTailProperties

-----------------------------------------------------------------------------
(* The ready queues under the three things a step does to them. *)

\* A step that leaves the queues alone and makes nobody ready or unready.
LEMMA ReadyKept ==
    ASSUME ReadyQueues, TypeOK, ready' = ready,
           \A u \in Tid : state[u] = "READY" => prio'[u] = prio[u],
           \A u \in Tid : state'[u] = "READY" <=> state[u] = "READY"
    PROVE  ReadyQueues'
<1>1. \A p \in Prio : \A i \in 1 .. Len(ready[p]) : ready[p][i] \in Tid
  BY DEF TypeOK
<1> QED
  BY <1>1 DEF ReadyQueues

\* enqueue_ready of a thread that is not ready.
LEMMA ReadyEnqueued ==
    ASSUME ReadyQueues, TypeOK,
           NEW t \in Tid, NEW p \in Prio,
           ready' = enqueue_ready(t, p),
           state[t] # "READY", state'[t] = "READY", prio'[t] = p,
           \A u \in Tid \ {t} : prio'[u] = prio[u]
                                /\ (state'[u] = "READY" <=> state[u] = "READY")
    PROVE  ReadyQueues'
<1>1. \A q \in Prio : ready[q] \in Seq(Tid) /\ ready'[q] = IF q = p THEN Append(ready[q], t) ELSE ready[q]
  BY DEF TypeOK, enqueue_ready
<1>2. \A q \in Prio : \A i \in 1 .. Len(ready[q]) : ready[q][i] \in Tid \ {t}
  BY <1>1 DEF ReadyQueues
<1>3. Len(ready'[p]) = Len(ready[p]) + 1 /\ ready'[p][Len(ready[p]) + 1] = t
      /\ \A i \in 1 .. Len(ready[p]) : ready'[p][i] = ready[p][i]
  <2>1. ready[p] \in Seq(Tid) /\ ready'[p] = Append(ready[p], t)
    BY <1>1
  <2> QED BY <2>1, AppendAt
<1>4. \A q \in Prio : Len(ready[q]) \in Nat
  BY <1>1
<1>5. \A q \in Prio : \A i \in 1 .. Len(ready'[q]) :
          \/ i \in 1 .. Len(ready[q]) /\ ready'[q][i] = ready[q][i]
          \/ q = p /\ i = Len(ready[p]) + 1 /\ ready'[q][i] = t
  BY <1>1, <1>3, <1>4
<1>6. ASSUME NEW q \in Prio, NEW i \in 1 .. Len(ready'[q])
      PROVE  state'[ready'[q][i]] = "READY" /\ prio'[ready'[q][i]] = q
  BY <1>2, <1>5, <1>6 DEF ReadyQueues
<1>7. ASSUME NEW q \in Prio, NEW i \in 1 .. Len(ready'[q]), NEW j \in 1 .. Len(ready'[q]),
             ready'[q][i] = ready'[q][j]
      PROVE  i = j
  BY <1>2, <1>5, <1>7 DEF ReadyQueues
<1>8. ASSUME NEW u \in Tid, state'[u] = "READY"
      PROVE  \E i \in 1 .. Len(ready'[prio'[u]]) : ready'[prio'[u]][i] = u
  <2>1. CASE u = t
    BY <2>1, <1>3, <1>4
  <2>2. CASE u # t
    <3>1. prio'[u] = prio[u] /\ prio[u] \in Prio /\ state[u] = "READY"
      BY <2>2, <1>8 DEF TypeOK
    <3>2. PICK i \in 1 .. Len(ready[prio[u]]) : ready[prio[u]][i] = u
      BY <3>1 DEF ReadyQueues
    <3>3. i \in 1 .. Len(ready'[prio[u]]) /\ ready'[prio[u]][i] = u
      BY <1>1, <1>3, <1>4, <3>1, <3>2
    <3> QED BY <3>1, <3>3
  <2> QED BY <2>1, <2>2
<1> QED BY <1>6, <1>7, <1>8 DEF ReadyQueues

\* dequeue_ready of the thread that gets the processor.
LEMMA ReadyDequeued ==
    ASSUME ReadyQueues, TypeOK,
           NEW p \in Prio, ready[p] # <<>>,
           ready' = [ready EXCEPT ![p] = Tail(@)],
           prio' = prio,
           state' = [state EXCEPT ![Head(ready[p])] = "RUNNING"]
    PROVE  ReadyQueues'
<1> DEFINE t == Head(ready[p])
<1>1. \A q \in Prio : ready[q] \in Seq(Tid) /\ ready'[q] = IF q = p THEN Tail(ready[q]) ELSE ready[q]
  BY DEF TypeOK
<1>2. /\ t \in Tid /\ t = ready[p][1] /\ Len(ready[p]) \in Nat \ {0}
      /\ Len(ready'[p]) = Len(ready[p]) - 1
      /\ \A i \in 1 .. Len(ready[p]) - 1 : ready'[p][i] = ready[p][i + 1]
  <2>1. ready[p] \in Seq(Tid) /\ ready'[p] = Tail(ready[p])
    BY <1>1
  <2> QED BY <2>1, TailAt, ZenonT(60)
<1>3. \A q \in Prio : Len(ready[q]) \in Nat
  BY <1>1
<1>4. \A q \in Prio : \A i \in 1 .. Len(ready[q]) : ready[q][i] \in Tid
  BY <1>1
<1>5. state[t] = "READY" /\ prio[t] = p /\ \A i \in 2 .. Len(ready[p]) : ready[p][i] # t
  BY <1>2, <1>3 DEF ReadyQueues
<1>6. \A u \in Tid : state'[u] = "READY" <=> state[u] = "READY" /\ u # t
  BY <1>2 DEF TypeOK
<1>7. ASSUME NEW q \in Prio, NEW i \in 1 .. Len(ready'[q])
      PROVE  state'[ready'[q][i]] = "READY" /\ prio'[ready'[q][i]] = q
  <2>1. CASE q = p
    <3>1. i + 1 \in 2 .. Len(ready[p]) /\ ready'[q][i] = ready[p][i + 1]
      BY <2>1, <1>2
    <3>2. state[ready[p][i + 1]] = "READY" /\ prio[ready[p][i + 1]] = p /\ ready[p][i + 1] \in Tid \ {t}
      BY <3>1, <1>3, <1>4, <1>5 DEF ReadyQueues
    <3> QED BY <2>1, <3>1, <3>2, <1>6
  <2>2. CASE q # p
    <3>1. ready'[q] = ready[q] /\ state[ready[q][i]] = "READY" /\ prio[ready[q][i]] = q
          /\ ready[q][i] \in Tid
      BY <2>2, <1>1, <1>4, <1>7 DEF ReadyQueues
    <3> QED BY <3>1, <2>2, <1>5, <1>6
  <2> QED BY <2>1, <2>2
<1>8. ASSUME NEW q \in Prio, NEW i \in 1 .. Len(ready'[q]), NEW j \in 1 .. Len(ready'[q]),
             ready'[q][i] = ready'[q][j]
      PROVE  i = j
  <2>1. CASE q = p
    <3>1. /\ i + 1 \in 1 .. Len(ready[p]) /\ j + 1 \in 1 .. Len(ready[p])
          /\ ready[p][i + 1] = ready[p][j + 1]
      BY <2>1, <1>2, <1>8
    <3> QED BY <3>1, <1>2 DEF ReadyQueues
  <2>2. CASE q # p
    BY <2>2, <1>1, <1>8 DEF ReadyQueues
  <2> QED BY <2>1, <2>2
<1>9. ASSUME NEW u \in Tid, state'[u] = "READY"
      PROVE  \E i \in 1 .. Len(ready'[prio'[u]]) : ready'[prio'[u]][i] = u
  <2>1. state[u] = "READY" /\ u # t /\ prio[u] \in Prio
    BY <1>6, <1>9 DEF TypeOK
  <2>2. PICK i \in 1 .. Len(ready[prio[u]]) : ready[prio[u]][i] = u
    BY <2>1 DEF ReadyQueues
  <2>3. CASE prio[u] = p
    <3>1. i # 1 /\ i - 1 \in 1 .. Len(ready[p]) - 1
      BY <2>1, <2>2, <2>3, <1>2
    <3>2. ready'[p][i - 1] = ready[p][i] /\ i - 1 \in 1 .. Len(ready'[p])
      BY <3>1, <1>2
    <3> QED BY <3>2, <2>2, <2>3
  <2>4. CASE prio[u] # p
    BY <2>1, <2>2, <2>4, <1>1
  <2> QED BY <2>3, <2>4
<1> QED BY <1>7, <1>8, <1>9 DEF ReadyQueues

-----------------------------------------------------------------------------
(* The mutex queues under the three things a step does to them. *)

LEMMA MutexKept ==
    ASSUME MutexQueues, TypeOK, queue' = queue,
           \A u \in Tid : Parked(u)' <=> Parked(u)
    PROVE  MutexQueues'
<1>1. \A m \in Mutex : \A i \in 1 .. Len(queue[m]) : queue[m][i] \in Tid
  BY DEF TypeOK
<1> QED
  BY <1>1 DEF MutexQueues

\* mlock: the running thread goes to the end of the queue of m.
LEMMA MutexEnqueued ==
    ASSUME MutexQueues, TypeOK, NEW m \in Mutex,
           running \in Tid, state[running] = "RUNNING",
           queue' = [queue EXCEPT ![m] = Append(@, running)],
           state' = state, running' = NULL
    PROVE  MutexQueues'
<1>1. \A n \in Mutex : queue[n] \in Seq(Tid) /\ Len(queue[n]) \in Nat
                       /\ queue'[n] = IF n = m THEN Append(queue[n], running) ELSE queue[n]
  BY DEF TypeOK
<1>2. Len(queue'[m]) = Len(queue[m]) + 1 /\ queue'[m][Len(queue[m]) + 1] = running
      /\ \A i \in 1 .. Len(queue[m]) : queue'[m][i] = queue[m][i]
  <2>1. queue[m] \in Seq(Tid) /\ queue'[m] = Append(queue[m], running)
    BY <1>1
  <2> QED BY <2>1, AppendAt
<1>3. \A n \in Mutex : \A i \in 1 .. Len(queue'[n]) :
          \/ i \in 1 .. Len(queue[n]) /\ queue'[n][i] = queue[n][i]
          \/ n = m /\ i = Len(queue[m]) + 1 /\ queue'[n][i] = running
  BY <1>1, <1>2
<1>4. \A n \in Mutex : \A i \in 1 .. Len(queue[n]) :
          queue[n][i] \in Tid \ {running} /\ state[queue[n][i]] = "RUNNING"
  BY <1>1 DEF MutexQueues, Parked
<1>5. \A u \in Tid : Parked(u)' <=> Parked(u) \/ u = running
  BY NullAssumption DEF Parked
<1>6. ASSUME NEW n \in Mutex, NEW i \in 1 .. Len(queue'[n])
      PROVE  state'[queue'[n][i]] = "RUNNING" /\ queue'[n][i] # running'
  BY <1>3, <1>4, <1>6, NullAssumption DEF Parked
<1>7. ASSUME NEW n \in Mutex, NEW o \in Mutex,
             NEW i \in 1 .. Len(queue'[n]), NEW j \in 1 .. Len(queue'[o]),
             queue'[n][i] = queue'[o][j]
      PROVE  n = o /\ i = j
  BY <1>3, <1>4, <1>7 DEF MutexQueues
<1>8. ASSUME NEW u \in Tid, Parked(u)'
      PROVE  \E n \in Mutex : \E i \in 1 .. Len(queue'[n]) : queue'[n][i] = u
  <2>1. CASE u = running
    BY <2>1, <1>1, <1>2
  <2>2. CASE u # running
    <3>1. PICK n \in Mutex : \E i \in 1 .. Len(queue[n]) : queue[n][i] = u
      BY <2>2, <1>5, <1>8 DEF MutexQueues
    <3>2. PICK i \in 1 .. Len(queue[n]) : queue[n][i] = u
      BY <3>1
    <3>3. i \in 1 .. Len(queue'[n]) /\ queue'[n][i] = u
      BY <3>2, <1>1, <1>2
    <3> QED BY <3>3
  <2> QED BY <2>1, <2>2
<1> QED BY <1>6, <1>7, <1>8 DEF MutexQueues, Parked

\* munlock: the first waiter leaves the queue of m and becomes ready.
LEMMA MutexDequeued ==
    ASSUME MutexQueues, TypeOK, NEW m \in Mutex, queue[m] # <<>>,
           queue' = [queue EXCEPT ![m] = Tail(@)],
           state' = [state EXCEPT ![Head(queue[m])] = "READY"],
           running' = running
    PROVE  MutexQueues'
<1> DEFINE t == Head(queue[m])
<1>1. \A n \in Mutex : queue[n] \in Seq(Tid) /\ Len(queue[n]) \in Nat
                       /\ queue'[n] = IF n = m THEN Tail(queue[n]) ELSE queue[n]
  BY DEF TypeOK
<1>2. /\ t \in Tid /\ t = queue[m][1] /\ Len(queue[m]) \in Nat \ {0}
      /\ Len(queue'[m]) = Len(queue[m]) - 1
      /\ \A i \in 1 .. Len(queue[m]) - 1 : queue'[m][i] = queue[m][i + 1]
  <2>1. queue[m] \in Seq(Tid) /\ queue'[m] = Tail(queue[m])
    BY <1>1
  <2> QED BY <2>1, TailAt, ZenonT(60)
<1>3. \A u \in Tid : Parked(u)' <=> Parked(u) /\ u # t
  BY <1>2 DEF TypeOK, Parked
<1>4. \A n \in Mutex : \A i \in 1 .. Len(queue[n]) :
          queue[n][i] \in Tid /\ Parked(queue[n][i]) /\ (queue[n][i] = t => n = m /\ i = 1)
  BY <1>1, <1>2 DEF MutexQueues
<1>5. \A n \in Mutex : \A i \in 1 .. Len(queue'[n]) :
          LET k == IF n = m THEN i + 1 ELSE i
          IN  k \in 1 .. Len(queue[n]) /\ queue'[n][i] = queue[n][k] /\ queue[n][k] # t
  BY <1>1, <1>2, <1>4
<1>6. ASSUME NEW n \in Mutex, NEW i \in 1 .. Len(queue'[n])
      PROVE  state'[queue'[n][i]] = "RUNNING" /\ queue'[n][i] # running'
  <2>1. PICK k \in 1 .. Len(queue[n]) : queue'[n][i] = queue[n][k] /\ queue[n][k] # t
    BY <1>5
  <2> QED BY <2>1, <1>3, <1>4 DEF Parked
<1>7. ASSUME NEW n \in Mutex, NEW o \in Mutex,
             NEW i \in 1 .. Len(queue'[n]), NEW j \in 1 .. Len(queue'[o]),
             queue'[n][i] = queue'[o][j]
      PROVE  n = o /\ i = j
  BY <1>1, <1>5, <1>7 DEF MutexQueues
<1>8. ASSUME NEW u \in Tid, Parked(u)'
      PROVE  \E n \in Mutex : \E i \in 1 .. Len(queue'[n]) : queue'[n][i] = u
  <2>1. PICK n \in Mutex : \E i \in 1 .. Len(queue[n]) : queue[n][i] = u
    BY <1>3, <1>8 DEF MutexQueues
  <2>2. PICK i \in 1 .. Len(queue[n]) : queue[n][i] = u
    BY <2>1
  <2>3. CASE n = m
    <3>1. i # 1 /\ i - 1 \in 1 .. Len(queue[m]) - 1
      BY <2>2, <2>3, <1>2, <1>3, <1>8
    <3>2. queue'[n][i - 1] = u /\ i - 1 \in 1 .. Len(queue'[n])
      BY <3>1, <2>2, <2>3, <1>2
    <3> QED BY <3>2
  <2>4. CASE n # m
    BY <2>2, <2>4, <1>1
  <2> QED BY <2>3, <2>4
<1> QED BY <1>6, <1>7, <1>8 DEF MutexQueues, Parked

-----------------------------------------------------------------------------
(* Type correctness. *)

LEMMA RemoveType ==
    ASSUME NEW s \in Seq(Tid), NEW t
    PROVE  remove_blocked_mutex(s, t) \in Seq(Tid)
<1>1. ASSUME NEW i \in 1 .. Len(s)
      PROVE  SubSeq(s, 1, i - 1) \o SubSeq(s, i + 1, Len(s)) \in Seq(Tid)
  <2>1. SubSeq(s, 1, i - 1) \in Seq(Tid) /\ SubSeq(s, i + 1, Len(s)) \in Seq(Tid)
    BY SubSeqProperties
  <2> QED BY <2>1, ConcatProperties
<1>2. CASE \E i \in 1 .. Len(s) : s[i] = t
  <2> DEFINE k == CHOOSE i \in 1 .. Len(s) : s[i] = t
  <2>1. k \in 1 .. Len(s)
    BY <1>2
  <2>2. remove_blocked_mutex(s, t) = SubSeq(s, 1, k - 1) \o SubSeq(s, k + 1, Len(s))
    BY <1>2 DEF remove_blocked_mutex
  <2> QED BY <1>1, <2>1, <2>2
<1>3. CASE ~ \E i \in 1 .. Len(s) : s[i] = t
  BY <1>3 DEF remove_blocked_mutex
<1> QED BY <1>2, <1>3

\* Every step keeps the types.
LEMMA TypeStep == TypeOK /\ [Next]_vars => TypeOK'
<1> SUFFICES ASSUME TypeOK, [Next]_vars PROVE TypeOK'
  OBVIOUS
<1>1. /\ main \in Tid /\ 1 \in Tid /\ MaxTid \in Nat /\ MaxTid > 1
      /\ \A t \in Tid : t \in Nat /\ t + 1 \in 0 .. MaxTid
      /\ \A n \in 1 .. MaxTid - 1 : n \in Tid
  BY MaxTidAssumption DEF Tid, main
<1>2. \A t \in Tid, p \in Prio : enqueue_ready(t, p) \in [Prio -> Seq(Tid)]
  <2> TAKE t \in Tid, p \in Prio
  <2>1. Append(ready[p], t) \in Seq(Tid)
    BY AppendProperties DEF TypeOK
  <2> QED BY <2>1 DEF TypeOK, enqueue_ready
<1>3. ASSUME NEW p \in PrioArg, mcreate_first(p)
      PROVE  TypeOK'
  <2>1. p \in Prio /\ running' \in Tid
    BY <1>1, <1>3 DEF mcreate_first, valid_prio, Prio, init
  <2>2. CASE tcb_init_works(1, p) /\ state' = [state EXCEPT ![main] = "RUNNING", ![1] = "READY"]
    BY <1>1, <1>2, <1>3, <2>1, <2>2 DEF TypeOK, mcreate_first, tcb_init_works
  <2>3. CASE tcb_init_fails(1) /\ state' = [state EXCEPT ![main] = "RUNNING"]
    BY <1>1, <1>3, <2>1, <2>3 DEF TypeOK, mcreate_first, tcb_init_fails
  <2> QED BY <1>3, <2>2, <2>3 DEF mcreate_first
<1>4. ASSUME NEW p \in PrioArg, mcreate(p)
      PROVE  TypeOK'
  <2>1. p \in Prio /\ nextTid \in Tid /\ nextTid + 1 \in 0 .. MaxTid
    BY <1>1, <1>4 DEF mcreate, valid_prio, Prio
  <2>2. CASE tcb_init_works(nextTid, p) /\ state' = [state EXCEPT ![nextTid] = "READY"]
    BY <1>2, <1>4, <2>1, <2>2 DEF TypeOK, mcreate, tcb_init_works
  <2>3. CASE tcb_init_fails(nextTid) /\ UNCHANGED state
    BY <1>4, <2>1, <2>3 DEF TypeOK, mcreate, tcb_init_fails
  <2> QED BY <1>4, <2>2, <2>3 DEF mcreate
<1>5. ASSUME myield PROVE TypeOK'
  <2>1. running \in Tid /\ prio[running] \in Prio
    BY <1>5 DEF myield, TypeOK
  <2> QED BY <1>2, <1>5, <2>1 DEF TypeOK, myield
<1>6. ASSUME NEW t \in Tid, mwait(t) PROVE TypeOK'
  BY <1>6 DEF TypeOK, mwait, Waits
<1>7. ASSUME NEW m \in Mutex, mmutex_init(m) PROVE TypeOK'
  BY <1>7 DEF TypeOK, mmutex_init
<1>8. ASSUME NEW m \in Mutex, mlock_free(m) PROVE TypeOK'
  BY <1>8 DEF TypeOK, mlock_free
<1>9. ASSUME NEW m \in Mutex, mlock_taken(m) PROVE TypeOK'
  <2>1. running \in Tid /\ <<running>> \in Seq(Tid)
    BY <1>9 DEF mlock_taken, TypeOK
  <2>2. Append(queue[m], running) \in Seq(Tid)
    BY <2>1, AppendProperties DEF TypeOK
  <2>3. <<running>> \o blockedMutex \in Seq(Tid)
    BY <2>1, ConcatProperties DEF TypeOK
  <2> QED BY <1>9, <2>2, <2>3 DEF TypeOK, mlock_taken
<1>10. ASSUME NEW m \in Mutex, munlock_free(m) PROVE TypeOK'
  BY <1>10 DEF TypeOK, munlock_free
<1>11. ASSUME NEW m \in Mutex, munlock_handover(m) PROVE TypeOK'
  <2> DEFINE t == Head(queue[m])
  <2>1. queue[m] \in Seq(Tid) /\ queue[m] # <<>>
    BY <1>11 DEF TypeOK, munlock_handover, no_waiters
  <2>2. t \in Tid /\ Tail(queue[m]) \in Seq(Tid) /\ prio[t] \in Prio
    BY <2>1, HeadTailProperties DEF TypeOK
  <2>3. remove_blocked_mutex(blockedMutex, t) \in Seq(Tid)
    BY RemoveType DEF TypeOK
  <2>4. cpu' \in {cpu, "crashed"}
    BY <1>11 DEF munlock_handover, wake_first_waiter
  <2> QED BY <1>2, <1>11, <2>2, <2>3, <2>4 DEF TypeOK, munlock_handover, wake_first_waiter
<1>12. ASSUME terminate PROVE TypeOK'
  <2>1. running \in Tid
    BY <1>12 DEF terminate, TypeOK
  <2>2. CASE state' = [state EXCEPT ![running] = "TERMINATED"] /\ UNCHANGED <<ready, blockedWaiting>>
    BY <1>12, <2>2 DEF TypeOK, terminate
  <2>3. CASE \E b \in waiters_of(running) :
            /\ blockedWaiting' = blockedWaiting \ {b}
            /\ ready' = enqueue_ready(b.blocked, prio[b.blocked])
            /\ state' = [state EXCEPT ![running] = "TERMINATED", ![b.blocked] = "READY"]
    <3>1. PICK b \in waiters_of(running) :
            /\ blockedWaiting' = blockedWaiting \ {b}
            /\ ready' = enqueue_ready(b.blocked, prio[b.blocked])
            /\ state' = [state EXCEPT ![running] = "TERMINATED", ![b.blocked] = "READY"]
      BY <2>3
    <3>2. b.blocked \in Tid /\ prio[b.blocked] \in Prio
      BY DEF TypeOK, waiters_of, Waits
    <3> QED BY <1>2, <1>12, <3>1, <3>2 DEF TypeOK, terminate
  <2> QED BY <1>12, <2>2, <2>3 DEF terminate
<1>13. ASSUME main_returns PROVE TypeOK'
  BY <1>13 DEF TypeOK, main_returns
<1>14. ASSUME NEW p \in Prio, dispatch(p) PROVE TypeOK'
  <2>1. ready[p] \in Seq(Tid) /\ ready[p] # <<>>
    BY <1>14 DEF TypeOK, dispatch
  <2>2. Head(ready[p]) \in Tid /\ Tail(ready[p]) \in Seq(Tid)
    BY <2>1, HeadTailProperties
  <2> QED BY <1>14, <2>2 DEF TypeOK, dispatch
<1>15. ASSUME nothing_ready PROVE TypeOK'
  BY <1>15 DEF TypeOK, nothing_ready
<1>16. ASSUME UNCHANGED vars PROVE TypeOK'
  BY <1>16 DEF TypeOK, vars
<1> QED
  BY <1>3, <1>4, <1>5, <1>6, <1>7, <1>8, <1>9, <1>10, <1>11, <1>12, <1>13, <1>14, <1>15, <1>16
     DEF Next, mlock, munlock, schedule, schedule_scan, Prio, N_PRIORITIES, Stopped

LEMMA TypeInit == Init => TypeOK
<1>1. <<>> \in Seq(Tid)
  BY EmptySeq
<1> QED BY <1>1, MaxTidAssumption DEF Init, TypeOK, Prio, HIGH, N_PRIORITIES

\* The variables of the library keep their types for every number of threads
\* and mutexes.
THEOREM TypeCorrect == Spec => []TypeOK
BY TypeInit, TypeStep, PTL DEF Spec

-----------------------------------------------------------------------------
(* The inductive invariant. *)

LEMMA WaitingKept ==
    ASSUME WaitingList, TypeOK, blockedWaiting' = blockedWaiting,
           \A u \in Tid : state'[u] = "BLOCKED" <=> state[u] = "BLOCKED",
           \A u \in Tid : Live(u) => Live(u)'
    PROVE  WaitingList'
<1>1. \A b \in blockedWaiting : b.blocked \in Tid /\ b.waited \in Tid
  BY DEF TypeOK, Waits
<1> QED BY <1>1 DEF WaitingList, Live

LEMMA InitInv == Init => Inv
<1> SUFFICES ASSUME Init PROVE Inv
  OBVIOUS
<1>1. TypeOK
  BY TypeInit
<1>2. Births /\ WaitingList /\ Processor
  BY DEF Init, Births, WaitingList, Processor, Live
<1>3. ReadyQueues
  BY DEF Init, ReadyQueues
<1>4. MutexQueues
  BY DEF Init, MutexQueues, Parked
<1>5. WaitersOnlyBehindLock /\ RunningWhileApp
  BY DEF Init, WaitersOnlyBehindLock, RunningWhileApp
<1> QED BY <1>1, <1>2, <1>3, <1>4, <1>5 DEF Inv

\* The first mcreate: main gets the processor as thread 0, and thread 1 is
\* ready unless its stack could not be had.
LEMMA McreateFirstInv ==
    ASSUME Inv, TypeOK', NEW p \in PrioArg, mcreate_first(p)
    PROVE  Inv'
<1>1. p \in Prio /\ main \in Tid /\ 1 \in Tid /\ main # 1 /\ nextTid = 0 /\ nextTid' = 2
  BY MaxTidAssumption
     DEF mcreate_first, valid_prio, Prio, Tid, main, tcb_init_works, tcb_init_fails
<1>2. /\ \A u \in Tid : state[u] = "NONE"
      /\ running = NULL /\ running' = main
      /\ UNCHANGED <<blockedWaiting, flag, queue, cpu>> /\ cpu = "app"
  BY <1>1 DEF Inv, Births, RunningWhileApp, TypeOK, Tid, mcreate_first, init
<1>3. CASE tcb_init_works(1, p) /\ state' = [state EXCEPT ![main] = "RUNNING", ![1] = "READY"]
  <2>1. /\ state'[main] = "RUNNING" /\ state'[1] = "READY"
        /\ \A u \in Tid \ {main, 1} : state'[u] = "NONE"
    BY <1>1, <1>2, <1>3 DEF Inv, TypeOK
  <2>2. ready' = enqueue_ready(1, p) /\ prio' = [prio EXCEPT ![1] = p]
    BY <1>3 DEF tcb_init_works
  <2>3. prio'[1] = p /\ \A u \in Tid \ {1} : prio'[u] = prio[u]
    BY <1>1, <2>2 DEF Inv, TypeOK
  <2>4. ReadyQueues'
    BY <1>1, <1>2, <2>1, <2>2, <2>3, ReadyEnqueued DEF Inv
  <2>5. MutexQueues'
    BY <1>2, <2>1, <1>1, MutexKept DEF Inv, Parked
  <2>6. WaitingList'
    BY <1>2, <2>1, <1>1, WaitingKept DEF Inv, Live
  <2>7. Births'
    BY <1>1, <2>1 DEF Births, Live, Tid, main
  <2>8. Processor' /\ WaitersOnlyBehindLock' /\ RunningWhileApp'
    BY <1>1, <1>2, <2>1, NullAssumption DEF Inv, Processor, WaitersOnlyBehindLock, RunningWhileApp
  <2> QED BY <2>4, <2>5, <2>6, <2>7, <2>8 DEF Inv
<1>4. CASE tcb_init_fails(1) /\ state' = [state EXCEPT ![main] = "RUNNING"]
  <2>1. state'[main] = "RUNNING" /\ \A u \in Tid \ {main} : state'[u] = "NONE"
    BY <1>1, <1>2, <1>4 DEF Inv, TypeOK
  <2>2. ready' = ready /\ prio' = prio
    BY <1>4 DEF tcb_init_fails
  <2>3. ReadyQueues'
    BY <1>2, <2>1, <2>2, ReadyKept DEF Inv
  <2>4. MutexQueues'
    BY <1>2, <2>1, <1>1, MutexKept DEF Inv, Parked
  <2>5. WaitingList'
    BY <1>2, <2>1, <1>1, WaitingKept DEF Inv, Live
  <2>6. Births'
    BY <1>1, <2>1 DEF Births, Live, Tid, main
  <2>7. Processor' /\ WaitersOnlyBehindLock' /\ RunningWhileApp'
    BY <1>1, <1>2, <2>1, NullAssumption DEF Inv, Processor, WaitersOnlyBehindLock, RunningWhileApp
  <2> QED BY <2>3, <2>4, <2>5, <2>6, <2>7 DEF Inv
<1> QED BY <1>3, <1>4 DEF mcreate_first

\* Every later mcreate.
LEMMA McreateInv ==
    ASSUME Inv, TypeOK', NEW p \in PrioArg, mcreate(p)
    PROVE  Inv'
<1> DEFINE t == nextTid
<1>1. /\ p \in Prio /\ t \in Tid /\ t > 0 /\ nextTid' = t + 1 /\ state[t] = "NONE"
      /\ UNCHANGED <<running, blockedWaiting, flag, queue, cpu>>
  BY MaxTidAssumption
     DEF mcreate, valid_prio, Prio, Tid, tcb_init_works, tcb_init_fails, Inv, Births
<1>2. CASE tcb_init_works(t, p) /\ state' = [state EXCEPT ![t] = "READY"]
  <2>1. state'[t] = "READY" /\ \A u \in Tid \ {t} : state'[u] = state[u]
    BY <1>1, <1>2 DEF Inv, TypeOK
  <2>2. ready' = enqueue_ready(t, p) /\ prio'[t] = p /\ \A u \in Tid \ {t} : prio'[u] = prio[u]
    BY <1>1, <1>2 DEF tcb_init_works, Inv, TypeOK
  <2>3. ReadyQueues'
    BY <1>1, <2>1, <2>2, ReadyEnqueued DEF Inv
  <2>4. MutexQueues'
    BY <1>1, <2>1, MutexKept DEF Inv, Parked
  <2>5. WaitingList'
    BY <1>1, <2>1, WaitingKept DEF Inv, Live
  <2>6. Births'
    <3>1. \A u \in Tid : u >= nextTid' => u >= nextTid /\ u # nextTid
      BY MaxTidAssumption, <1>1 DEF Inv, TypeOK, Tid
    <3>2. main \in Tid \ {t}
      BY MaxTidAssumption, <1>1 DEF Tid, main
    <3>3. Live(main)'
      BY <3>2, <1>1, <2>1 DEF Inv, Births, Live
    <3> QED BY <3>1, <3>3, <2>1 DEF Inv, Births
  <2>7. Processor' /\ WaitersOnlyBehindLock' /\ RunningWhileApp'
    BY <1>1, <2>1 DEF Inv, TypeOK, Processor, WaitersOnlyBehindLock, RunningWhileApp
  <2> QED BY <2>3, <2>4, <2>5, <2>6, <2>7 DEF Inv
<1>3. CASE tcb_init_fails(t) /\ UNCHANGED state
  <2>1. ready' = ready /\ prio' = prio /\ state' = state
    BY <1>3 DEF tcb_init_fails
  <2>2. ReadyQueues' /\ MutexQueues' /\ WaitingList'
    BY <1>1, <2>1 DEF Inv, ReadyQueues, MutexQueues, WaitingList, Parked, Live
  <2>3. Births'
    BY <1>1, <2>1 DEF Inv, Births, Live, Tid, main, TypeOK
  <2>4. Processor' /\ WaitersOnlyBehindLock' /\ RunningWhileApp'
    BY <1>1, <2>1 DEF Inv, TypeOK, Processor, WaitersOnlyBehindLock, RunningWhileApp
  <2> QED BY <2>2, <2>3, <2>4 DEF Inv
<1> QED BY <1>2, <1>3 DEF mcreate

LEMMA MyieldInv ==
    ASSUME Inv, TypeOK', myield
    PROVE  Inv'
<1>1. /\ running \in Tid /\ state[running] = "RUNNING" /\ prio[running] \in Prio
      /\ state'[running] = "READY" /\ \A u \in Tid \ {running} : state'[u] = state[u]
      /\ ready' = enqueue_ready(running, prio[running])
      /\ running' = NULL /\ cpu' = "sched"
      /\ UNCHANGED <<nextTid, prio, blockedWaiting, flag, queue>>
  BY DEF myield, Inv, TypeOK, Processor
<1>2. ReadyQueues'
  BY <1>1, ReadyEnqueued DEF Inv
<1>3. MutexQueues'
  BY <1>1, MutexKept, NullAssumption DEF Inv, Parked
<1>4. WaitingList'
  BY <1>1, WaitingKept DEF Inv, Live
<1>5. Births'
  BY MaxTidAssumption, <1>1 DEF Inv, TypeOK, Births, Live, Tid, main
<1>6. Processor' /\ WaitersOnlyBehindLock' /\ RunningWhileApp'
  BY <1>1 DEF Inv, Processor, WaitersOnlyBehindLock, RunningWhileApp
<1> QED BY <1>2, <1>3, <1>4, <1>5, <1>6 DEF Inv

\* mwait blocks only on a thread that is ready or itself waiting: alive, and
\* not the caller.
LEMMA MwaitInv ==
    ASSUME Inv, TypeOK', NEW t \in Tid, mwait(t)
    PROVE  Inv'
<1>1. /\ running \in Tid /\ state[running] = "RUNNING"
      /\ state'[running] = "BLOCKED" /\ \A u \in Tid \ {running} : state'[u] = state[u]
      /\ blockedWaiting' = blockedWaiting \cup {[waited |-> t, blocked |-> running]}
      /\ running' = NULL /\ cpu' = "sched"
      /\ UNCHANGED <<nextTid, prio, ready, flag, queue>>
  BY DEF mwait, Inv, TypeOK, Processor
<1>2. state[t] \in {"READY", "BLOCKED"} /\ t # running
  BY <1>1 DEF mwait, tcb_exists, find_thread, tcb_is_blocked_waiting, Inv, ReadyQueues, WaitingList
<1>3. \A b \in blockedWaiting : b.waited # t /\ b.blocked \in Tid \ {running} /\ b.waited \in Tid
  BY <1>1 DEF mwait, find_blocked_waiting_tcb, Inv, WaitingList, TypeOK, Waits
<1>4. ReadyQueues'
  BY <1>1, ReadyKept DEF Inv
<1>5. MutexQueues'
  BY <1>1, MutexKept, NullAssumption DEF Inv, Parked
<1>6. WaitingList'
  <2> DEFINE new == [waited |-> t, blocked |-> running]
  <2>1. \A b \in blockedWaiting' : state'[b.blocked] = "BLOCKED" /\ Live(b.waited)' /\ b.waited # b.blocked
    BY <1>1, <1>2, <1>3 DEF Inv, WaitingList, Live
  <2>2. \A b, c \in blockedWaiting' : b.waited = c.waited \/ b.blocked = c.blocked => b = c
    BY <1>1, <1>3 DEF Inv, WaitingList
  <2>3. \A u \in Tid : state'[u] = "BLOCKED" => \E b \in blockedWaiting' : b.blocked = u
    <3> TAKE u \in Tid
    <3>1. CASE u = running
      <4>1. new \in blockedWaiting' /\ new.blocked = running
        BY <1>1
      <4> QED BY <3>1, <4>1
    <3>2. CASE u # running
      BY <3>2, <1>1 DEF Inv, WaitingList
    <3> QED BY <3>1, <3>2
  <2> QED BY <2>1, <2>2, <2>3 DEF WaitingList, Live
<1>7. Births'
  BY MaxTidAssumption, <1>1 DEF Inv, TypeOK, Births, Live, Tid, main
<1>8. Processor' /\ WaitersOnlyBehindLock' /\ RunningWhileApp'
  BY <1>1 DEF Inv, Processor, WaitersOnlyBehindLock, RunningWhileApp
<1> QED BY <1>4, <1>5, <1>6, <1>7, <1>8 DEF Inv

\* The calls that change no more than a flag.
LEMMA FlagInv ==
    ASSUME Inv, TypeOK', NEW m \in Mutex,
           mmutex_init(m) \/ mlock_free(m) \/ munlock_free(m)
    PROVE  Inv'
<1>1. UNCHANGED <<nextTid, prio, state, ready, running, blockedWaiting, queue, cpu>>
  BY DEF mmutex_init, mlock_free, munlock_free
<1>2. WaitersOnlyBehindLock'
  BY <1>1 DEF Inv, TypeOK, WaitersOnlyBehindLock, mmutex_init, mlock_free, munlock_free, no_waiters
<1> QED
  BY <1>1, <1>2 DEF Inv, Births, ReadyQueues, MutexQueues, WaitingList, Processor,
     RunningWhileApp, Parked, Live

LEMMA MlockTakenInv ==
    ASSUME Inv, TypeOK', NEW m \in Mutex, mlock_taken(m)
    PROVE  Inv'
<1>1. /\ running \in Tid /\ state[running] = "RUNNING" /\ state' = state
      /\ queue' = [queue EXCEPT ![m] = Append(@, running)] /\ flag[m] = "LOCKED"
      /\ running' = NULL /\ cpu' = "sched"
      /\ UNCHANGED <<nextTid, prio, ready, blockedWaiting, flag>>
  BY DEF mlock_taken, Inv, TypeOK, Processor
<1>2. MutexQueues'
  BY <1>1, MutexEnqueued DEF Inv
<1>3. ReadyQueues' /\ WaitingList' /\ Births' /\ Processor' /\ RunningWhileApp'
  BY <1>1 DEF Inv, ReadyQueues, WaitingList, Births, Processor, RunningWhileApp, Live
<1>4. WaitersOnlyBehindLock'
  BY <1>1 DEF Inv, TypeOK, WaitersOnlyBehindLock
<1> QED BY <1>2, <1>3, <1>4 DEF Inv

LEMMA HandoverInv ==
    ASSUME Inv, TypeOK', NEW m \in Mutex, munlock_handover(m)
    PROVE  Inv'
<1> DEFINE t == Head(queue[m])
<1>1. /\ queue[m] # <<>> /\ flag[m] = "LOCKED"
      /\ queue' = [queue EXCEPT ![m] = Tail(@)]
      /\ ready' = enqueue_ready(t, prio[t])
      /\ state' = [state EXCEPT ![t] = "READY"]
      /\ cpu = "app" /\ cpu' \in {"app", "crashed"}
      /\ UNCHANGED <<nextTid, prio, running, blockedWaiting, flag>>
  BY DEF munlock_handover, wake_first_waiter, no_waiters
<1>2. t \in Tid /\ Parked(t) /\ prio[t] \in Prio
  <2>1. t = queue[m][1] /\ 1 \in 1 .. Len(queue[m]) /\ t \in Tid
    BY <1>1, TailAt DEF Inv, TypeOK
  <2> QED BY <2>1 DEF Inv, TypeOK, MutexQueues
<1>3. state'[t] = "READY" /\ \A u \in Tid \ {t} : state'[u] = state[u]
  BY <1>1, <1>2 DEF Inv, TypeOK
<1>4. ReadyQueues'
  BY <1>1, <1>2, <1>3, ReadyEnqueued DEF Inv, Parked
<1>5. MutexQueues'
  BY <1>1, MutexDequeued DEF Inv
<1>6. WaitingList'
  BY <1>1, <1>2, <1>3, WaitingKept DEF Inv, Live, Parked
<1>7. Births'
  BY <1>1, <1>2, <1>3 DEF Inv, Births, Live, Parked
<1>8. WaitersOnlyBehindLock'
  BY <1>1 DEF Inv, TypeOK, WaitersOnlyBehindLock
<1>9. Processor' /\ RunningWhileApp'
  BY <1>1, <1>2, <1>3 DEF Inv, TypeOK, Processor, RunningWhileApp, Parked
<1> QED BY <1>4, <1>5, <1>6, <1>7, <1>8, <1>9 DEF Inv

\* A terminating thread leaves nobody waiting for it: it wakes the one waiter.
LEMMA TerminateInv ==
    ASSUME Inv, TypeOK', terminate
    PROVE  Inv'
<1>1. /\ running \in Tid \ {main} /\ state[running] = "RUNNING"
      /\ running' = NULL /\ cpu' = "sched"
      /\ UNCHANGED <<nextTid, prio, flag, queue>>
  BY DEF terminate, Inv, TypeOK, Processor
<1>2. Processor' /\ WaitersOnlyBehindLock' /\ RunningWhileApp'
  BY <1>1 DEF Inv, Processor, WaitersOnlyBehindLock, RunningWhileApp
<1>3. CASE /\ ~find_blocked_waiting_tcb(running)
           /\ state' = [state EXCEPT ![running] = "TERMINATED"]
           /\ UNCHANGED <<ready, blockedWaiting>>
  <2>1. state'[running] = "TERMINATED" /\ \A u \in Tid \ {running} : state'[u] = state[u]
    BY <1>1, <1>3 DEF Inv, TypeOK
  <2>2. \A b \in blockedWaiting : b.waited \in Tid \ {running} /\ b.blocked \in Tid
    BY <1>3 DEF find_blocked_waiting_tcb, Inv, TypeOK, Waits
  <2>3. ReadyQueues'
    BY <1>1, <1>3, <2>1, ReadyKept DEF Inv
  <2>4. MutexQueues'
    BY <1>1, <2>1, MutexKept, NullAssumption DEF Inv, Parked
  <2>5. WaitingList'
    BY <1>1, <1>3, <2>1, <2>2 DEF Inv, WaitingList, Live
  <2>6. Births'
    BY MaxTidAssumption, <1>1, <2>1 DEF Inv, TypeOK, Births, Live, Tid, main
  <2> QED BY <1>2, <2>3, <2>4, <2>5, <2>6 DEF Inv
<1>4. ASSUME NEW b \in waiters_of(running),
             blockedWaiting' = blockedWaiting \ {b},
             ready' = enqueue_ready(b.blocked, prio[b.blocked]),
             state' = [state EXCEPT ![running] = "TERMINATED", ![b.blocked] = "READY"]
      PROVE  Inv'
  <2> DEFINE t == b.blocked
  <2>1. b \in blockedWaiting /\ b.waited = running /\ t \in Tid /\ state[t] = "BLOCKED" /\ t # running
    BY <1>1 DEF waiters_of, Inv, WaitingList, TypeOK, Waits
  <2>2. /\ state'[running] = "TERMINATED" /\ state'[t] = "READY"
        /\ \A u \in Tid \ {running, t} : state'[u] = state[u]
    BY <1>1, <1>4, <2>1 DEF Inv, TypeOK
  <2>3. \A c \in blockedWaiting \ {b} :
            c.waited \in Tid \ {running} /\ c.blocked \in Tid \ {t, running}
    BY <1>1, <2>1 DEF Inv, WaitingList, TypeOK, Waits
  <2>4. ReadyQueues'
    <3>1. prio[t] \in Prio
      BY <2>1 DEF Inv, TypeOK
    <3> QED BY <1>1, <1>4, <2>1, <2>2, <3>1, ReadyEnqueued DEF Inv
  <2>5. MutexQueues'
    BY <1>1, <2>1, <2>2, MutexKept, NullAssumption DEF Inv, Parked
  <2>6. WaitingList'
    <3>1. \A c \in blockedWaiting' : state'[c.blocked] = "BLOCKED" /\ Live(c.waited)' /\ c.waited # c.blocked
      <4> TAKE c \in blockedWaiting'
      <4>1. /\ c \in blockedWaiting \ {b} /\ state[c.blocked] = "BLOCKED"
            /\ Live(c.waited) /\ c.waited # c.blocked
        BY <1>4 DEF Inv, WaitingList
      <4>2. state'[c.waited] \in {state[c.waited], "READY"} /\ state'[c.blocked] = state[c.blocked]
        BY <2>2, <2>3, <4>1
      <4> QED BY <4>1, <4>2 DEF Live
    <3>2. \A u \in Tid : state'[u] = "BLOCKED" => \E c \in blockedWaiting' : c.blocked = u
      BY <1>4, <2>2 DEF Inv, WaitingList
    <3> QED BY <1>4, <3>1, <3>2, ZenonT(60) DEF Inv, WaitingList, Live
  <2>7. Births'
    <3>1. running < nextTid /\ t < nextTid /\ main \in Tid
      BY MaxTidAssumption, <1>1, <2>1 DEF Inv, Births, TypeOK, Tid, main
    <3>2. \A u \in Tid : u >= nextTid => state'[u] = "NONE"
      <4> TAKE u \in Tid
      <4>1. u >= nextTid => u # running /\ u # t
        BY <3>1, MaxTidAssumption, <1>1, <2>1 DEF Inv, TypeOK, Tid
      <4> QED BY <4>1, <2>2 DEF Inv, Births
    <3>3. nextTid > 0 => Live(main)'
      BY <3>1, <1>1, <2>2 DEF Inv, Births, Live
    <3> QED BY <3>2, <3>3, <1>1 DEF Births
  <2> QED BY <1>2, <2>4, <2>5, <2>6, <2>7 DEF Inv
<1> QED BY <1>3, <1>4 DEF terminate

LEMMA DispatchInv ==
    ASSUME Inv, TypeOK', NEW p \in Prio, dispatch(p)
    PROVE  Inv'
<1> DEFINE t == Head(ready[p])
<1>1. /\ ready[p] # <<>> /\ running = NULL /\ running' = t
      /\ ready' = [ready EXCEPT ![p] = Tail(@)]
      /\ state' = [state EXCEPT ![t] = "RUNNING"]
      /\ cpu' = "app"
      /\ UNCHANGED <<nextTid, prio, blockedWaiting, flag, queue>>
  BY DEF dispatch, Inv, RunningWhileApp
<1>2. t \in Tid /\ state[t] = "READY"
  <2>1. t = ready[p][1] /\ 1 \in 1 .. Len(ready[p]) /\ t \in Tid
    BY <1>1, TailAt DEF Inv, TypeOK
  <2> QED BY <2>1 DEF Inv, ReadyQueues
<1>3. state'[t] = "RUNNING" /\ \A u \in Tid \ {t} : state'[u] = state[u]
  BY <1>1, <1>2 DEF Inv, TypeOK
<1>4. ReadyQueues'
  BY <1>1, ReadyDequeued DEF Inv
<1>5. MutexQueues'
  BY <1>1, <1>2, <1>3, MutexKept, NullAssumption DEF Inv, Parked
<1>6. WaitingList'
  BY <1>1, <1>2, <1>3, WaitingKept DEF Inv, Live
<1>7. Births' /\ nextTid > 0
  BY <1>1, <1>2, <1>3 DEF Inv, TypeOK, Births, Live, Tid
<1>8. Processor' /\ WaitersOnlyBehindLock' /\ RunningWhileApp'
  BY <1>1, <1>2, <1>3, <1>7, NullAssumption
     DEF Inv, Processor, WaitersOnlyBehindLock, RunningWhileApp
<1> QED BY <1>4, <1>5, <1>6, <1>7, <1>8 DEF Inv

\* The process ends, or nothing happens.
LEMMA QuietInv ==
    ASSUME Inv, TypeOK', main_returns \/ nothing_ready \/ UNCHANGED vars
    PROVE  Inv'
<1>1. UNCHANGED <<nextTid, prio, state, ready, running, blockedWaiting, flag, queue>>
  BY DEF main_returns, nothing_ready, vars
<1>2. RunningWhileApp'
  BY <1>1 DEF Inv, RunningWhileApp, main_returns, nothing_ready, vars
<1> QED
  BY <1>1, <1>2 DEF Inv, Births, ReadyQueues, MutexQueues, WaitingList, Processor,
     WaitersOnlyBehindLock, Parked, Live

LEMMA StepInv == Inv /\ [Next]_vars => Inv'
<1> SUFFICES ASSUME Inv, [Next]_vars PROVE Inv'
  OBVIOUS
<1>1. TypeOK'
  BY TypeStep DEF Inv
<1> QED
  BY <1>1, McreateFirstInv, McreateInv, MyieldInv, MwaitInv, FlagInv, MlockTakenInv,
     HandoverInv, TerminateInv, DispatchInv, QuietInv
     DEF Next, mlock, munlock, schedule, schedule_scan, Prio, N_PRIORITIES, Stopped

THEOREM Invariance == Spec => []Inv
BY InitInv, StepInv, PTL DEF Spec

-----------------------------------------------------------------------------
(* What follows from the inductive invariant. *)

LEMMA InvOnePlace == Inv => OnePlace
<1> SUFFICES ASSUME Inv, NEW t \in Tid
             PROVE  Cardinality(Mentions(t)) = IF Live(t) THEN 1 ELSE 0
  BY DEF OnePlace
<1>1. \A p \in Prio : \A i \in 1 .. Len(ready[p]) : ready[p][i] = t => state[t] = "READY" /\ prio[t] = p
  BY DEF Inv, ReadyQueues
<1>2. \A m \in Mutex : \A i \in 1 .. Len(queue[m]) : queue[m][i] = t => Parked(t)
  BY DEF Inv, MutexQueues
<1>3. \A b \in blockedWaiting : b.blocked = t => state[t] = "BLOCKED"
  BY DEF Inv, WaitingList
<1>4. running = t => state[t] = "RUNNING"
  BY NullAssumption DEF Inv, Processor
<1>5. state[t] # "READY" => ReadyPlaces(t) = {}
  BY <1>1 DEF ReadyPlaces
<1>6. ~Parked(t) => MutexPlaces(t) = {}
  BY <1>2 DEF MutexPlaces
<1>7. state[t] # "BLOCKED" => WaitPlaces(t) = {}
  BY <1>3 DEF WaitPlaces
<1>8. state[t] # "RUNNING" => ProcessorPlaces(t) = {}
  BY <1>4 DEF ProcessorPlaces
<1>9. ASSUME Live(t) PROVE \E x : Mentions(t) = {x}
  <2>1. CASE state[t] = "READY"
    <3>1. prio[t] \in Prio
      BY DEF Inv, TypeOK
    <3>2. PICK i \in 1 .. Len(ready[prio[t]]) : ready[prio[t]][i] = t
      BY <2>1 DEF Inv, ReadyQueues
    <3>3. \A p \in Prio : \A k \in 1 .. Len(ready[p]) : ready[p][k] = t => p = prio[t] /\ k = i
      BY <3>1, <3>2, <1>1 DEF Inv, ReadyQueues
    <3>4. ReadyPlaces(t) = {<<"ready", prio[t], i>>}
      BY <3>1, <3>2, <3>3 DEF ReadyPlaces
    <3> QED BY <3>4, <2>1, <1>6, <1>7, <1>8 DEF Mentions, Parked
  <2>2. CASE Parked(t)
    <3>1. PICK m \in Mutex : \E i \in 1 .. Len(queue[m]) : queue[m][i] = t
      BY <2>2 DEF Inv, MutexQueues
    <3>2. PICK i \in 1 .. Len(queue[m]) : queue[m][i] = t
      BY <3>1
    <3>3. \A n \in Mutex : \A k \in 1 .. Len(queue[n]) : queue[n][k] = t => n = m /\ k = i
      BY <3>2 DEF Inv, MutexQueues
    <3>4. MutexPlaces(t) = {<<"mutex", m, i>>}
      BY <3>2, <3>3 DEF MutexPlaces
    <3>5. ProcessorPlaces(t) = {}
      BY <2>2 DEF Parked, ProcessorPlaces
    <3> QED BY <3>4, <3>5, <2>2, <1>5, <1>7 DEF Mentions, Parked
  <2>3. CASE state[t] = "BLOCKED"
    <3>1. PICK b \in blockedWaiting : b.blocked = t
      BY <2>3 DEF Inv, WaitingList
    <3>2. \A c \in blockedWaiting : c.blocked = t => c = b
      BY <3>1 DEF Inv, WaitingList
    <3>3. WaitPlaces(t) = {<<"wait", b>>}
      BY <3>1, <3>2 DEF WaitPlaces
    <3> QED BY <3>3, <2>3, <1>5, <1>6, <1>8 DEF Mentions, Parked
  <2>4. CASE state[t] = "RUNNING" /\ running = t
    <3>1. ProcessorPlaces(t) = {<<"running">>}
      BY <2>4 DEF ProcessorPlaces
    <3> QED BY <3>1, <2>4, <1>5, <1>6, <1>7 DEF Mentions, Parked
  <2> QED BY <1>9, <2>1, <2>2, <2>3, <2>4 DEF Live, Parked
<1>10. ASSUME ~Live(t) PROVE Mentions(t) = {}
  BY <1>10, <1>5, <1>6, <1>7, <1>8 DEF Live, Mentions, Parked
<1> QED BY <1>9, <1>10, FS_EmptySet, FS_Singleton

LEMMA InvReadyUnderOwnPriority == Inv => ReadyUnderOwnPriority
BY DEF Inv, ReadyQueues, ReadyUnderOwnPriority

LEMMA InvWaitersWillBeWoken == Inv => WaitersWillBeWoken
BY DEF Inv, WaitingList, WaitersWillBeWoken

\* No thread is lost or in two places, for any number of threads: a live one
\* is in exactly one of the queues, lists and the processor.
THEOREM NoThreadLost == Spec => []OnePlace
BY Invariance, InvOnePlace, PTL

\* Each ready thread is where the scheduler's scan by priority looks for it.
THEOREM ReadyFound == Spec => []ReadyUnderOwnPriority
BY Invariance, InvReadyUnderOwnPriority, PTL

\* No lost wake-up in mwait: the thread waited for is another one, has still
\* to terminate, and has no second waiter.
THEOREM NoLostWakeup == Spec => []WaitersWillBeWoken
BY Invariance, InvWaitersWillBeWoken, PTL

\* No thread queues on a free mutex.
THEOREM NoWaiterOnFreeMutex == Spec => []WaitersOnlyBehindLock
<1>1. Inv => WaitersOnlyBehindLock
  BY DEF Inv
<1> QED BY <1>1, Invariance, PTL

\* Program code always runs on a thread the library knows.
THEOREM SomeoneRuns == Spec => []RunningWhileApp
<1>1. Inv => RunningWhileApp
  BY DEF Inv
<1> QED BY <1>1, Invariance, PTL

-----------------------------------------------------------------------------
(* The end of the process by the scheduler's return. *)

\* The scheduler context is entered only by threads, and its return leaves
\* the ready queues empty.
Emptied ==
    /\ cpu \in {"sched", "drained"} => nextTid > 0
    /\ cpu = "drained" => no_thread_ready(Prio)

LEMMA EmptiedStep == Inv /\ Emptied /\ [Next]_vars => Emptied'
<1> SUFFICES ASSUME Inv, Emptied, [Next]_vars PROVE Emptied'
  OBVIOUS
<1>1. nextTid \in Nat
  BY MaxTidAssumption DEF Inv, TypeOK
<1>2. CASE cpu' = "sched" /\ cpu = "app"
  <2>1. running # NULL /\ nextTid' = nextTid
    BY <1>2 DEF Next, mcreate_first, mcreate, myield, mwait, mmutex_init, mlock, mlock_free,
       mlock_taken, munlock, munlock_free, munlock_handover, wake_first_waiter, terminate,
       main_returns, schedule, dispatch, nothing_ready, Stopped, Ended, vars
  <2> QED BY <1>1, <1>2, <2>1 DEF Emptied, Inv, RunningWhileApp
<1>3. CASE cpu' = "drained" /\ cpu # "drained"
  <2>1. nothing_ready
    BY <1>3 DEF Next, mcreate_first, mcreate, myield, mwait, mmutex_init, mlock, mlock_free,
       mlock_taken, munlock, munlock_free, munlock_handover, wake_first_waiter, terminate,
       main_returns, schedule, dispatch, Stopped, Ended, vars
  <2> QED BY <1>3, <2>1 DEF nothing_ready, Emptied, no_thread_ready, schedule_scan, Prio, N_PRIORITIES
<1>4. CASE cpu' \in {"sched", "drained"} /\ cpu' = cpu
  <2>1. UNCHANGED vars
    BY <1>4 DEF Next, mcreate_first, mcreate, myield, mwait, mmutex_init, mlock, mlock_free,
       mlock_taken, munlock, munlock_free, munlock_handover, wake_first_waiter, terminate,
       main_returns, schedule, dispatch, nothing_ready, Stopped, Ended, vars
  <2> QED BY <1>4, <2>1 DEF Emptied, no_thread_ready, vars
<1>5. CASE cpu' = "sched" /\ cpu \notin {"app", "sched"}
  BY <1>5 DEF Next, mcreate_first, mcreate, myield, mwait, mmutex_init, mlock, mlock_free,
     mlock_taken, munlock, munlock_free, munlock_handover, wake_first_waiter, terminate,
     main_returns, schedule, dispatch, nothing_ready, Stopped, Ended, vars
<1>6. CASE cpu' \notin {"sched", "drained"}
  BY <1>6 DEF Emptied
<1> QED BY <1>2, <1>3, <1>4, <1>5, <1>6

LEMMA EmptiedDeadlock == Inv /\ Emptied => DrainedIsDeadlock
<1> SUFFICES ASSUME Inv, Emptied, cpu = "drained"
             PROVE  /\ Live(main)
                    /\ \A t \in Tid : Live(t) =>
                          tcb_is_blocked_waiting(t) \/ \E m \in Mutex : find_thread(queue[m], t)
  BY DEF DrainedIsDeadlock
<1>1. Live(main) /\ running = NULL
  BY DEF Emptied, Inv, Births, RunningWhileApp
<1>2. ASSUME NEW t \in Tid, state[t] = "READY" PROVE FALSE
  <2>1. prio[t] \in Prio /\ \E i \in 1 .. Len(ready[prio[t]]) : ready[prio[t]][i] = t
    BY <1>2 DEF Inv, TypeOK, ReadyQueues
  <2>2. Len(ready[prio[t]]) = 0
    BY <2>1, EmptySeq DEF Emptied, no_thread_ready
  <2> QED BY <2>1, <2>2
<1>3. ASSUME NEW t \in Tid, state[t] = "RUNNING"
      PROVE  \E m \in Mutex : find_thread(queue[m], t)
  BY <1>1, <1>3, NullAssumption DEF Inv, MutexQueues, Parked, find_thread
<1>4. ASSUME NEW t \in Tid, state[t] = "BLOCKED"
      PROVE  tcb_is_blocked_waiting(t)
  BY <1>4 DEF Inv, WaitingList, tcb_is_blocked_waiting
<1> QED BY <1>1, <1>2, <1>3, <1>4 DEF Live

\* When the scheduler ends the process, main and every other live thread are
\* blocked, so no work that could still be done is cut off.
THEOREM OnlyDeadlockDrains == Spec => []DrainedIsDeadlock
<1>1. Init => Emptied
  BY DEF Init, Emptied
<1> QED BY <1>1, Invariance, EmptiedStep, EmptiedDeadlock, PTL DEF Spec

-----------------------------------------------------------------------------
(* Waking up. *)

LEMMA WakeStep ==
    Inv /\ [Next]_vars =>
        \A b \in blockedWaiting : b \notin blockedWaiting' =>
            /\ state[b.waited] = "RUNNING" /\ state'[b.waited] = "TERMINATED"
            /\ state'[b.blocked] = "READY"
<1> SUFFICES ASSUME Inv, [Next]_vars, NEW b \in blockedWaiting, b \notin blockedWaiting'
             PROVE  /\ state[b.waited] = "RUNNING" /\ state'[b.waited] = "TERMINATED"
                    /\ state'[b.blocked] = "READY"
  OBVIOUS
<1>1. terminate
  BY DEF Next, mcreate_first, mcreate, myield, mwait, mmutex_init, mlock, mlock_free,
     mlock_taken, munlock, munlock_free, munlock_handover, wake_first_waiter,
     main_returns, schedule, dispatch, nothing_ready, Stopped, vars
<1>2. PICK c \in waiters_of(running) :
          /\ blockedWaiting' = blockedWaiting \ {c}
          /\ state' = [state EXCEPT ![running] = "TERMINATED", ![c.blocked] = "READY"]
  BY <1>1 DEF terminate
<1>3. b = c /\ c.waited = running
  BY <1>2 DEF waiters_of
<1>4. running \in Tid /\ c.blocked \in Tid /\ c.blocked # running /\ state[running] = "RUNNING"
  BY <1>1, <1>3 DEF terminate, Inv, TypeOK, Waits, WaitingList, Processor
<1> QED BY <1>2, <1>3, <1>4 DEF Inv, TypeOK

\* A thread leaves mwait in exactly the step in which the thread it waits for
\* terminates, and is ready from then on.
THEOREM WokenByTermination == Spec => WaitEndsAtTermination
BY Invariance, WakeStep, PTL DEF Spec, WaitEndsAtTermination
=============================================================================
