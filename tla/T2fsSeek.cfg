\* The instance of T2fsFile.cfg, about seek2.
SPECIFICATION Spec
CONSTANTS
  File = {f, g}
  Value = {x, y}
  unwritten = unwritten
  NBYTES = 3
  BITS = 2
  BS = 2
  DIRECT = 1
  PTRS = 2
  BYTE = 6
  MaxBytes = 5
  MaxIO = 3
  FullDisk = FALSE
INVARIANTS
  SeekAccepted
