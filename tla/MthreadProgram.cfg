SPECIFICATION PSpec
CONSTANTS
  MaxTid = 5
  N = 4
  Mutex = {m1}
  mutex = m1
  NULL = NULL
  FreedReads = {"intact"}
INVARIANTS
  PTypeOK
  MutualExclusion
  JoinedAll
  ReleasedInSequence
  NeverDrained
PROPERTIES
  ProgramEnds
