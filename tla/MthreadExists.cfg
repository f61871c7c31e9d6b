SPECIFICATION Spec
CONSTANTS
  MaxTid = 4
  Mutex = {m1}
  NULL = NULL
  FreedReads = {"intact"}
INVARIANT LiveThreadsExist
