\* More blocks than a byte can address.
SPECIFICATION Spec
CONSTANTS
  File = {f, g}
  Value = {x, y}
  unwritten = unwritten
  NBYTES = 4
  BITS = 2
  BS = 1
  DIRECT = 1
  PTRS = 2
  BYTE = 4
  MaxBytes = 3
  MaxIO = 2
  FullDisk = FALSE
INVARIANTS
  LogicBlockAddr
