------------------------- MODULE MthreadListProofs -------------------------
(***************************************************************************)
(* Proofs about the list _blocked_mutex_, which mlock and munlock update   *)
(* next to the queues of the mutexes: it holds the same threads, and a     *)
(* thread queued behind another on a mutex is nearer to its head.  Both    *)
(* are inductive beside Inv, which says that no thread is in two places of *)
(* the queues and that the running thread is in none.                      *)
(***************************************************************************)
EXTENDS MthreadProofs

NoneTwice ==
    \A i, j \in 1 .. Len(blockedMutex) : blockedMutex[i] = blockedMutex[j] => i = j

\* Where a thread of the list is queued, and where one queued is in the list.
Listed ==
    \A i \in 1 .. Len(blockedMutex) :
        \E m \in Mutex : \E a \in 1 .. Len(queue[m]) : queue[m][a] = blockedMutex[i]

Queued ==
    \A m \in Mutex : \A a \in 1 .. Len(queue[m]) :
        \E i \in 1 .. Len(blockedMutex) : blockedMutex[i] = queue[m][a]

NewestFirst ==
    \A m \in Mutex : \A a, b \in 1 .. Len(queue[m]) :
        \A i, j \in 1 .. Len(blockedMutex) :
            a < b /\ blockedMutex[i] = queue[m][a] /\ blockedMutex[j] = queue[m][b] => j < i

MutexList == NoneTwice /\ Listed /\ Queued /\ NewestFirst

-----------------------------------------------------------------------------
(* Putting an element before a list and taking one out of it. *)

LEMMA PushAt ==
    ASSUME NEW S, NEW s \in Seq(S), NEW e \in S
    PROVE  /\ Len(s) \in Nat /\ Len(<<e>> \o s) = Len(s) + 1
           /\ (<<e>> \o s)[1] = e
           /\ \A i \in 1 .. Len(s) : (<<e>> \o s)[i + 1] = s[i]
<1>1. <<e>> \in Seq(S) /\ Len(<<e>>) = 1 /\ <<e>>[1] = e /\ Len(s) \in Nat
  OBVIOUS
<1>2. /\ Len(<<e>> \o s) = Len(<<e>>) + Len(s)
      /\ \A i \in 1 .. Len(<<e>>) + Len(s) :
            (<<e>> \o s)[i] = IF i <= Len(<<e>>) THEN <<e>>[i] ELSE s[i - Len(<<e>>)]
  BY <1>1, ConcatProperties
<1>3. ASSUME NEW i \in 1 .. Len(s) PROVE (<<e>> \o s)[i + 1] = s[i]
  <2>1. i + 1 \in 1 .. 1 + Len(s) /\ ~(i + 1 <= 1) /\ (i + 1) - 1 = i
    BY <1>1
  <2> QED BY <1>1, <1>2, <2>1
<1> QED BY <1>1, <1>2, <1>3

\* The list without the element at k.
LEMMA CutAt ==
    ASSUME NEW S, NEW s \in Seq(S), NEW k \in 1 .. Len(s)
    PROVE  LET r == SubSeq(s, 1, k - 1) \o SubSeq(s, k + 1, Len(s))
           IN  /\ Len(s) \in Nat /\ Len(r) = Len(s) - 1
               /\ \A i \in 1 .. Len(s) - 1 : r[i] = IF i < k THEN s[i] ELSE s[i + 1]
<1> DEFINE u == SubSeq(s, 1, k - 1)
           v == SubSeq(s, k + 1, Len(s))
<1>1. Len(s) \in Nat /\ k \in Nat /\ 1 <= k /\ k <= Len(s)
  BY LenProperties
<1>2. /\ u \in Seq(S) /\ Len(u) = k - 1
      /\ \A i \in 1 .. k - 1 : u[i] = s[i]
  <2>1. \A i \in 1 .. k - 1 : s[i] \in S
    BY <1>1, ElementOfSeq
  <2>2. /\ u \in Seq(S) /\ Len(u) = IF 1 <= k - 1 THEN k - 1 - 1 + 1 ELSE 0
        /\ \A i \in 1 .. k - 1 - 1 + 1 : u[i] = s[1 + i - 1]
    BY <1>1, <2>1, SubSeqProperties
  <2> QED BY <1>1, <2>2
<1>3. /\ v \in Seq(S) /\ Len(v) = Len(s) - k
      /\ \A i \in 1 .. Len(s) - k : v[i] = s[k + i]
  <2>1. \A i \in k + 1 .. Len(s) : s[i] \in S
    BY <1>1, ElementOfSeq
  <2>2. /\ v \in Seq(S) /\ Len(v) = IF k + 1 <= Len(s) THEN Len(s) - (k + 1) + 1 ELSE 0
        /\ \A i \in 1 .. Len(s) - (k + 1) + 1 : v[i] = s[k + 1 + i - 1]
    BY <1>1, <2>1, SubSeqProperties
  <2> QED BY <1>1, <2>2
<1> HIDE DEF u, v
<1>4. /\ Len(u \o v) = Len(u) + Len(v)
      /\ \A i \in 1 .. Len(u) + Len(v) :
            (u \o v)[i] = IF i <= Len(u) THEN u[i] ELSE v[i - Len(u)]
  BY <1>2, <1>3, ConcatProperties
<1>5. ASSUME NEW i \in 1 .. Len(s) - 1
      PROVE  (u \o v)[i] = IF i < k THEN s[i] ELSE s[i + 1]
  <2>1. (u \o v)[i] = IF i <= k - 1 THEN u[i] ELSE v[i - (k - 1)]
    BY <1>1, <1>2, <1>3, <1>4
  <2>2. CASE i < k
    BY <1>1, <1>2, <2>1, <2>2
  <2>3. CASE ~(i < k)
    <3>1. i - (k - 1) \in 1 .. Len(s) - k /\ k + (i - (k - 1)) = i + 1
      BY <1>1, <2>3
    <3> QED BY <1>1, <1>3, <2>1, <2>3, <3>1
  <2> QED BY <2>2, <2>3
<1>6. Len(s) \in Nat /\ Len(u \o v) = Len(s) - 1
  BY <1>1, <1>2, <1>3, <1>4
<1> QED BY ONLY <1>5, <1>6 DEF u, v

\* remove_blocked_mutex of a thread that is at position k, and nowhere else.
LEMMA RemoveAt ==
    ASSUME NEW S, NEW s \in Seq(S), NEW k \in 1 .. Len(s),
           \A i \in 1 .. Len(s) : s[i] = s[k] => i = k
    PROVE  LET r == remove_blocked_mutex(s, s[k])
           IN  /\ Len(s) \in Nat /\ Len(r) = Len(s) - 1
               /\ \A i \in 1 .. Len(s) - 1 : r[i] = IF i < k THEN s[i] ELSE s[i + 1]
<1>1. (CHOOSE i \in 1 .. Len(s) : s[i] = s[k]) = k
  OBVIOUS
<1>2. remove_blocked_mutex(s, s[k]) = SubSeq(s, 1, k - 1) \o SubSeq(s, k + 1, Len(s))
  BY <1>1 DEF remove_blocked_mutex
<1> QED BY <1>2, CutAt

-----------------------------------------------------------------------------
(* The three things a step does to the list and the queues. *)

LEMMA ListKept ==
    ASSUME MutexList, blockedMutex' = blockedMutex, queue' = queue
    PROVE  MutexList'
BY DEF MutexList, NoneTwice, Listed, Queued, NewestFirst

\* mlock puts the running thread before the list and behind a queue.
LEMMA ListPushed ==
    ASSUME Inv, MutexList, NEW m \in Mutex, mlock_taken(m)
    PROVE  MutexList'
<1> DEFINE n == Len(blockedMutex)
           l == Len(queue[m])
<1>1. running \in Tid /\ queue[m] \in Seq(Tid) /\ blockedMutex \in Seq(Tid)
  BY DEF mlock_taken, Inv, TypeOK
<1>2. /\ n \in Nat /\ Len(blockedMutex') = n + 1 /\ blockedMutex'[1] = running
      /\ \A i \in 1 .. n : blockedMutex'[i + 1] = blockedMutex[i]
  <2>1. blockedMutex' = <<running>> \o blockedMutex
    BY DEF mlock_taken
  <2> QED BY <1>1, <2>1, PushAt
<1>3. /\ l \in Nat /\ Len(queue'[m]) = l + 1 /\ queue'[m][l + 1] = running
      /\ \A a \in 1 .. l : queue'[m][a] = queue[m][a]
      /\ \A o \in Mutex : o # m => queue'[o] = queue[o]
  <2>1. queue'[m] = Append(queue[m], running) /\ \A o \in Mutex : o # m => queue'[o] = queue[o]
    BY DEF mlock_taken, Inv, TypeOK
  <2> QED BY <1>1, <2>1, AppendAt
<1> HIDE DEF n, l
\* The running thread is in no queue, so it is not in the list either.
<1>4. \A o \in Mutex : \A a \in 1 .. Len(queue[o]) : queue[o][a] # running
  BY DEF Inv, MutexQueues, Parked
<1>5. \A i \in 1 .. n : blockedMutex[i] # running
  BY <1>4 DEF MutexList, Listed, n
<1>6. \A i \in 1 .. n + 1 :
          \/ i = 1 /\ blockedMutex'[i] = running
          \/ i - 1 \in 1 .. n /\ blockedMutex'[i] = blockedMutex[i - 1]
  <2> TAKE i \in 1 .. n + 1
  <2>1. CASE i = 1
    BY <2>1, <1>2
  <2>2. CASE i # 1
    <3>1. i - 1 \in 1 .. n /\ (i - 1) + 1 = i
      BY <2>2, <1>2
    <3> QED BY <3>1, <1>2
  <2> QED BY <2>1, <2>2
<1>7. \A o \in Mutex : \A a \in 1 .. Len(queue'[o]) :
          \/ o = m /\ a = l + 1 /\ queue'[o][a] = running
          \/ a \in 1 .. Len(queue[o]) /\ queue'[o][a] = queue[o][a]
  BY <1>3 DEF l
<1>8. NoneTwice'
  BY <1>2, <1>5, <1>6 DEF MutexList, NoneTwice, n
<1>9. Listed'
  <2> SUFFICES ASSUME NEW i \in 1 .. n + 1
               PROVE  \E o \in Mutex : \E a \in 1 .. Len(queue'[o]) : queue'[o][a] = blockedMutex'[i]
    BY <1>2 DEF Listed
  <2>1. CASE blockedMutex'[i] = running
    BY <2>1, <1>3
  <2>2. CASE i - 1 \in 1 .. n /\ blockedMutex'[i] = blockedMutex[i - 1]
    <3>1. PICK o \in Mutex : \E a \in 1 .. Len(queue[o]) : queue[o][a] = blockedMutex[i - 1]
      BY <2>2 DEF MutexList, Listed, n
    <3> PICK a \in 1 .. Len(queue[o]) : queue[o][a] = blockedMutex[i - 1]
      BY <3>1
    <3>2. a \in 1 .. Len(queue'[o]) /\ queue'[o][a] = queue[o][a]
      BY <1>3 DEF l
    <3> QED BY <2>2, <3>1, <3>2
  <2> QED BY <1>6, <2>1, <2>2
<1>10. Queued'
  <2> SUFFICES ASSUME NEW o \in Mutex, NEW a \in 1 .. Len(queue'[o])
               PROVE  \E i \in 1 .. n + 1 : blockedMutex'[i] = queue'[o][a]
    BY <1>2 DEF Queued
  <2>1. CASE queue'[o][a] = running
    BY <2>1, <1>2
  <2>2. CASE a \in 1 .. Len(queue[o]) /\ queue'[o][a] = queue[o][a]
    <3>1. PICK i \in 1 .. n : blockedMutex[i] = queue[o][a]
      BY <2>2 DEF MutexList, Queued, n
    <3>2. i + 1 \in 1 .. n + 1 /\ blockedMutex'[i + 1] = blockedMutex[i]
      BY <1>2
    <3> QED BY <2>2, <3>1, <3>2
  <2> QED BY <1>7, <2>1, <2>2
<1>11. NewestFirst'
  <2> SUFFICES ASSUME NEW o \in Mutex,
                      NEW a \in 1 .. Len(queue'[o]), NEW b \in 1 .. Len(queue'[o]),
                      NEW i \in 1 .. n + 1, NEW j \in 1 .. n + 1,
                      a < b, blockedMutex'[i] = queue'[o][a], blockedMutex'[j] = queue'[o][b]
               PROVE  j < i
    BY <1>2 DEF NewestFirst
  \* Behind a there is b, so a is not the place of the new thread.
  <2>1. a \in 1 .. Len(queue[o]) /\ queue'[o][a] = queue[o][a]
    BY <1>3, <1>7 DEF l
  <2>2. i - 1 \in 1 .. n /\ blockedMutex[i - 1] = queue[o][a]
    BY <2>1, <1>4, <1>6
  <2>3. CASE blockedMutex'[j] = running
    BY <2>2, <2>3, <1>2, <1>5, <1>6, SMTT(30)
  <2>4. CASE blockedMutex'[j] # running
    <3>1. j - 1 \in 1 .. n /\ blockedMutex[j - 1] = queue'[o][b]
      BY <2>4, <1>6
    <3>2. b \in 1 .. Len(queue[o]) /\ queue'[o][b] = queue[o][b]
      BY <2>4, <1>7
    <3>3. j - 1 < i - 1
      BY <2>1, <2>2, <3>1, <3>2 DEF MutexList, NewestFirst, n
    <3> QED BY <3>3, <2>2, <3>1, <1>2
  <2> QED BY <2>3, <2>4
<1> QED BY <1>8, <1>9, <1>10, <1>11 DEF MutexList

\* munlock takes the thread it wakes out of both.
LEMMA ListCut ==
    ASSUME Inv, MutexList, NEW m \in Mutex, munlock_handover(m)
    PROVE  MutexList'
<1> DEFINE n == Len(blockedMutex)
           l == Len(queue[m])
           t == queue[m][1]
<1>1. queue[m] \in Seq(Tid) /\ queue[m] # <<>> /\ blockedMutex \in Seq(Tid)
  BY DEF munlock_handover, no_waiters, Inv, TypeOK
<1>2. /\ l \in Nat \ {0} /\ Len(queue'[m]) = l - 1
      /\ \A a \in 1 .. l - 1 : queue'[m][a] = queue[m][a + 1]
      /\ \A o \in Mutex : o # m => queue'[o] = queue[o]
  <2>1. queue'[m] = Tail(queue[m]) /\ \A o \in Mutex : o # m => queue'[o] = queue[o]
    BY DEF munlock_handover, wake_first_waiter, Inv, TypeOK
  <2> QED BY <1>1, <2>1, TailAt
<1>3. PICK k \in 1 .. n : blockedMutex[k] = t
  BY <1>2 DEF MutexList, Queued
<1>4. /\ n \in Nat /\ Len(blockedMutex') = n - 1
      /\ \A i \in 1 .. n - 1 :
            blockedMutex'[i] = IF i < k THEN blockedMutex[i] ELSE blockedMutex[i + 1]
  <2>1. blockedMutex' = remove_blocked_mutex(blockedMutex, blockedMutex[k])
    BY <1>1, <1>3, TailAt DEF munlock_handover, wake_first_waiter
  <2>2. \A i \in 1 .. n : blockedMutex[i] = blockedMutex[k] => i = k
    BY DEF MutexList, NoneTwice
  <2> QED BY <1>1, <2>1, <2>2, RemoveAt
<1> HIDE DEF n, l, t
<1>5. \A o \in Mutex : \A a \in 1 .. Len(queue[o]) : queue[o][a] = t => o = m /\ a = 1
  BY <1>2 DEF Inv, MutexQueues, l, t
<1>6. \A i \in 1 .. n : blockedMutex[i] = t => i = k
  BY <1>3 DEF MutexList, NoneTwice, n
\* Where the elements of the new list and the new queues were.
<1> DEFINE in_list(i) == IF i < k THEN i ELSE i + 1
           in_queue(o, a) == IF o = m THEN a + 1 ELSE a
<1>7. \A i \in 1 .. n - 1 :
          /\ in_list(i) \in 1 .. n /\ blockedMutex'[i] = blockedMutex[in_list(i)]
          /\ blockedMutex'[i] # t
  BY <1>3, <1>4, <1>6
<1>8. \A o \in Mutex : \A a \in 1 .. Len(queue'[o]) :
          /\ in_queue(o, a) \in 1 .. Len(queue[o])
          /\ queue'[o][a] = queue[o][in_queue(o, a)]
          /\ queue'[o][a] # t
  <2> TAKE o \in Mutex
  <2>1. CASE o = m
    <3> SUFFICES ASSUME NEW a \in 1 .. l - 1
                 PROVE  a + 1 \in 1 .. l /\ queue'[m][a] = queue[m][a + 1] /\ queue'[m][a] # t
      BY <2>1, <1>2 DEF l
    <3>1. a + 1 \in 1 .. l /\ a + 1 # 1 /\ queue'[m][a] = queue[m][a + 1]
      BY <1>2
    <3> QED BY <3>1, <1>5 DEF l
  <2>2. CASE o # m
    BY <2>2, <1>2, <1>5
  <2> QED BY <2>1, <2>2
<1>9. \A i, j \in 1 .. n - 1 : (in_list(i) < in_list(j) => i < j) /\ (in_list(i) = in_list(j) => i = j)
  BY <1>3, <1>4
<1>10. \A o \in Mutex : \A a, b \in 1 .. Len(queue'[o]) :
          a < b => in_queue(o, a) < in_queue(o, b)
  <2> TAKE o \in Mutex
  <2>1. Len(queue'[o]) \in Nat
    BY <1>2, LenProperties DEF munlock_handover, wake_first_waiter, Inv, TypeOK, l
  <2> QED BY <2>1
\* Where the elements that stay are now.
<1>11. \A i \in 1 .. n : blockedMutex[i] # t =>
          \E i2 \in 1 .. n - 1 : blockedMutex'[i2] = blockedMutex[i]
  <2> TAKE i \in 1 .. n
  <2>1. CASE i < k
    BY <2>1, <1>3, <1>4
  <2>2. CASE i > k
    <3>1. i - 1 \in 1 .. n - 1 /\ ~(i - 1 < k) /\ (i - 1) + 1 = i
      BY <2>2, <1>3, <1>4
    <3> QED BY <3>1, <1>4
  <2> QED BY <2>1, <2>2, <1>3, <1>4
<1>12. \A o \in Mutex : \A a \in 1 .. Len(queue[o]) : queue[o][a] # t =>
          \E a2 \in 1 .. Len(queue'[o]) : queue'[o][a2] = queue[o][a]
  <2> TAKE o \in Mutex
  <2>1. CASE o = m
    <3> SUFFICES ASSUME NEW a \in 1 .. l, queue[m][a] # t
                 PROVE  \E a2 \in 1 .. l - 1 : queue'[m][a2] = queue[m][a]
      BY <2>1, <1>2 DEF l
    <3>1. a - 1 \in 1 .. l - 1 /\ (a - 1) + 1 = a
      BY <1>2 DEF t
    <3> QED BY <3>1, <1>2
  <2>2. CASE o # m
    BY <2>2, <1>2
  <2> QED BY <2>1, <2>2
<1> HIDE DEF in_list, in_queue
<1>13. NoneTwice'
  BY <1>4, <1>7, <1>9 DEF MutexList, NoneTwice, n
<1>14. Listed'
  <2> SUFFICES ASSUME NEW i \in 1 .. n - 1
               PROVE  \E o \in Mutex : \E a \in 1 .. Len(queue'[o]) : queue'[o][a] = blockedMutex'[i]
    BY <1>4 DEF Listed
  <2>1. PICK o \in Mutex : \E a \in 1 .. Len(queue[o]) : queue[o][a] = blockedMutex'[i]
    BY <1>7 DEF MutexList, Listed, n
  <2> QED BY <2>1, <1>7, <1>12
<1>15. Queued'
  <2> SUFFICES ASSUME NEW o \in Mutex, NEW a \in 1 .. Len(queue'[o])
               PROVE  \E i \in 1 .. n - 1 : blockedMutex'[i] = queue'[o][a]
    BY <1>4 DEF Queued
  <2>1. PICK i \in 1 .. n : blockedMutex[i] = queue'[o][a]
    BY <1>8 DEF MutexList, Queued, n
  <2> QED BY <2>1, <1>8, <1>11
<1>16. NewestFirst'
  <2> SUFFICES ASSUME NEW o \in Mutex,
                      NEW a \in 1 .. Len(queue'[o]), NEW b \in 1 .. Len(queue'[o]),
                      NEW i \in 1 .. n - 1, NEW j \in 1 .. n - 1,
                      a < b, blockedMutex'[i] = queue'[o][a], blockedMutex'[j] = queue'[o][b]
               PROVE  j < i
    BY <1>4 DEF NewestFirst
  <2> DEFINE a0 == in_queue(o, a)
             b0 == in_queue(o, b)
             i0 == in_list(i)
             j0 == in_list(j)
  <2>1. a0 \in 1 .. Len(queue[o]) /\ b0 \in 1 .. Len(queue[o]) /\ a0 < b0
    BY <1>8, <1>10
  <2>2. i0 \in 1 .. n /\ j0 \in 1 .. n
        /\ blockedMutex[i0] = queue[o][a0] /\ blockedMutex[j0] = queue[o][b0]
    BY <1>7, <1>8
  <2> HIDE DEF a0, b0, i0, j0
  <2>3. j0 < i0
    BY <2>1, <2>2 DEF MutexList, NewestFirst, n
  <2> QED BY <2>3, <1>9 DEF i0, j0
<1> QED BY <1>13, <1>14, <1>15, <1>16 DEF MutexList

-----------------------------------------------------------------------------
(* The theorems. *)

LEMMA ListInit == Init => MutexList
BY EmptySeq DEF Init, MutexList, NoneTwice, Listed, Queued, NewestFirst

LEMMA ListStep == Inv /\ MutexList /\ [Next]_vars => MutexList'
<1> SUFFICES ASSUME Inv, MutexList, [Next]_vars PROVE MutexList'
  OBVIOUS
<1>1. \/ blockedMutex' = blockedMutex /\ queue' = queue
      \/ \E m \in Mutex : mlock_taken(m) \/ munlock_handover(m)
  BY DEF Next, mcreate_first, mcreate, myield, mwait, mmutex_init, mlock, mlock_free,
     munlock, munlock_free, terminate, main_returns, schedule, dispatch, nothing_ready,
     Stopped, vars
<1> QED BY <1>1, ListKept, ListPushed, ListCut

THEOREM ListInvariance == Spec => [](Inv /\ MutexList)
BY InitInv, StepInv, ListInit, ListStep, PTL DEF Spec

LEMMA ListIsMirror == Inv /\ MutexList => BlockedMutexMirrorsQueues
<1> SUFFICES ASSUME Inv, MutexList PROVE BlockedMutexMirrorsQueues
  OBVIOUS
<1>1. /\ DOMAIN blockedMutex = 1 .. Len(blockedMutex)
      /\ \A m \in Mutex : DOMAIN queue[m] = 1 .. Len(queue[m])
  BY LenProperties DEF Inv, TypeOK
<1>2. IsInjective(blockedMutex)
  BY <1>1 DEF IsInjective, MutexList, NoneTwice
<1>3. ASSUME NEW t \in Range(blockedMutex) PROVE \E m \in Mutex : t \in Range(queue[m])
  <2>1. PICK i \in 1 .. Len(blockedMutex) : blockedMutex[i] = t
    BY <1>1 DEF Range
  <2>2. PICK m \in Mutex : \E a \in 1 .. Len(queue[m]) : queue[m][a] = t
    BY <2>1 DEF MutexList, Listed
  <2> QED BY <2>2, <1>1 DEF Range
<1>4. ASSUME NEW m \in Mutex, NEW t \in Range(queue[m]) PROVE t \in Range(blockedMutex)
  <2>1. PICK a \in 1 .. Len(queue[m]) : queue[m][a] = t
    BY <1>1 DEF Range
  <2>2. PICK i \in 1 .. Len(blockedMutex) : blockedMutex[i] = t
    BY <2>1 DEF MutexList, Queued
  <2> QED BY <2>2, <1>1 DEF Range
<1> QED BY <1>2, <1>3, <1>4 DEF BlockedMutexMirrorsQueues

\* _blocked_mutex_ holds the threads that are queued on mutexes, each once,
\* although mlock, munlock and remove_blocked_mutex update it on its own.
THEOREM ListMirrorsQueues == Spec => []BlockedMutexMirrorsQueues
BY ListInvariance, ListIsMirror, PTL

LEMMA HandOverStep ==
    Inv /\ MutexList /\ [Next]_vars =>
        \A m \in Mutex : \A t \in Range(queue[m]) \ Range(queue'[m]) :
            /\ flag[m] = "LOCKED" /\ flag'[m] = "LOCKED"
            /\ \A i, j \in 1 .. Len(blockedMutex) :
                  blockedMutex[i] = t /\ blockedMutex[j] \in Range(queue'[m]) => j < i
<1> SUFFICES ASSUME Inv, MutexList, [Next]_vars,
                    NEW m \in Mutex, NEW t \in Range(queue[m]) \ Range(queue'[m])
             PROVE  /\ flag[m] = "LOCKED" /\ flag'[m] = "LOCKED"
                    /\ \A i, j \in 1 .. Len(blockedMutex) :
                          blockedMutex[i] = t /\ blockedMutex[j] \in Range(queue'[m]) => j < i
  OBVIOUS
<1>1. queue[m] \in Seq(Tid) /\ DOMAIN queue[m] = 1 .. Len(queue[m])
  BY LenProperties DEF Inv, TypeOK
<1>2. PICK o \in Mutex : mlock_taken(o) \/ munlock_handover(o)
  <2>1. queue' # queue
    OBVIOUS
  <2> QED
    BY <2>1 DEF Next, mcreate_first, mcreate, myield, mwait, mmutex_init, mlock, mlock_free,
       munlock, munlock_free, terminate, main_returns, schedule, dispatch, nothing_ready,
       Stopped, vars
<1>3. o = m
  BY <1>2 DEF mlock_taken, munlock_handover, wake_first_waiter, Inv, TypeOK
\* A thread leaves a queue in munlock only: mlock makes it longer.
<1>4. munlock_handover(m)
  <2> SUFFICES ASSUME mlock_taken(m) PROVE FALSE
    BY <1>2, <1>3
  <2>1. running \in Tid /\ queue'[m] = Append(queue[m], running)
    BY DEF mlock_taken, Inv, TypeOK
  <2>2. queue'[m] \in Seq(Tid) /\ Len(queue'[m]) = Len(queue[m]) + 1 /\ Len(queue[m]) \in Nat
        /\ \A a \in 1 .. Len(queue[m]) : queue'[m][a] = queue[m][a]
    BY <1>1, <2>1, AppendAt
  <2>3. PICK a \in 1 .. Len(queue[m]) : queue[m][a] = t
    BY <1>1 DEF Range
  <2>4. a \in DOMAIN queue'[m]
    BY <2>2, LenProperties
  <2> QED BY <2>2, <2>3, <2>4 DEF Range
<1>5. /\ queue[m] # <<>> /\ queue'[m] = Tail(queue[m])
      /\ flag[m] = "LOCKED" /\ flag'[m] = "LOCKED"
  BY <1>4 DEF munlock_handover, wake_first_waiter, no_waiters, Inv, TypeOK
<1>6. /\ Len(queue[m]) \in Nat \ {0} /\ queue'[m] \in Seq(Tid) /\ Len(queue'[m]) = Len(queue[m]) - 1
      /\ \A a \in 1 .. Len(queue[m]) - 1 : queue'[m][a] = queue[m][a + 1]
  BY <1>1, <1>5, TailAt
<1>7. DOMAIN queue'[m] = 1 .. Len(queue[m]) - 1
  BY <1>6, LenProperties
<1>8. t = queue[m][1]
  <2>1. PICK a \in 1 .. Len(queue[m]) : queue[m][a] = t
    BY <1>1 DEF Range
  <2>2. CASE a # 1
    <3>1. a - 1 \in 1 .. Len(queue[m]) - 1 /\ (a - 1) + 1 = a
      BY <2>2, <1>6
    <3> QED BY <2>1, <3>1, <1>6, <1>7 DEF Range
  <2> QED BY <2>1, <2>2
<1>9. ASSUME NEW i \in 1 .. Len(blockedMutex), NEW j \in 1 .. Len(blockedMutex),
             blockedMutex[i] = t, blockedMutex[j] \in Range(queue'[m])
      PROVE  j < i
  <2>1. PICK a \in 1 .. Len(queue[m]) - 1 : queue'[m][a] = blockedMutex[j]
    BY <1>7, <1>9 DEF Range
  <2>2. /\ a + 1 \in 1 .. Len(queue[m]) /\ 1 \in 1 .. Len(queue[m]) /\ 1 < a + 1
        /\ blockedMutex[j] = queue[m][a + 1]
    BY <2>1, <1>6
  <2> QED BY <2>2, <1>8, <1>9 DEF MutexList, NewestFirst
<1> QED BY <1>5, <1>9

\* munlock hands a mutex over, still locked, to the thread that mlock has
\* kept waiting longest.
THEOREM HandedOverInOrder == Spec => HandOverToLongestBlocked
BY ListInvariance, HandOverStep, PTL DEF Spec, HandOverToLongestBlocked
=============================================================================
