\* Three i-nodes, the root's among them, directories that spill into a second
\* block behind the single indirect pointer, and two files open at a time.
SPECIFICATION Spec
CONSTANTS
  NI = 3
  NB = 5
  RPB = 3
  DIRECT = 1
  Name = {"a", "b"}
  MAX_FILE = 2
  MAX_DIR = 1
  CarefulRmdir = TRUE
  MaxPath = 2
  PlainPaths = TRUE
INVARIANTS
  TypeOK
  DirWellFormed
  UniqueNames
  TreeShape
  BlocksOwnedOnce
  OneHandlePerFile
  HandleNamesFile
  EmptyCheckSound
  CwdNamesCurrent
PROPERTIES
  RmdirOnlyEmptyDirs
  ReaddirNeverRepeats
  ImplementsFileTree
VIEW LiveView
