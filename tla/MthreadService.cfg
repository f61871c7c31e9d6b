\* The refinement and the liveness of the library, for a build in which the
\* freed list node of remove_blocked_mutex is still readable.
SPECIFICATION FairSpec
CONSTANTS
  MaxTid = 4
  Mutex = {m1}
  NULL = NULL
  FreedReads = {"intact"}
PROPERTIES
  ImplementsService
  NoStarvationWithinPriority
