\* Main and three threads, two mutexes, and a freed list node that may or
\* may not be readable.
SPECIFICATION Spec
CONSTANTS
  MaxTid = 4
  Mutex = {m1, m2}
  NULL = NULL
  FreedReads = {"intact", "fault"}
INVARIANTS
  TypeOK
  OnePlace
  ReadyUnderOwnPriority
  WaitersWillBeWoken
  WaitersOnlyBehindLock
  BlockedMutexMirrorsQueues
  RunningWhileApp
  DrainedIsDeadlock
PROPERTIES
  WaitEndsAtTermination
  HandOverToLongestBlocked
