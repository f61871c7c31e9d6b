\* The same instance, rmdir2 called on any name.
SPECIFICATION Spec
CONSTANTS
  NI = 3
  NB = 5
  RPB = 3
  DIRECT = 1
  Name = {"a", "b"}
  MAX_FILE = 2
  MAX_DIR = 1
  CarefulRmdir = FALSE
  MaxPath = 2
  PlainPaths = FALSE
PROPERTIES
  RmdirOnlyEmptyDirs
