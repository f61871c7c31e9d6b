\* One file that outgrows its single indirect block.
SPECIFICATION Spec
CONSTANTS
  File = {f}
  Value = {x, y}
  unwritten = unwritten
  NBYTES = 4
  BITS = 2
  BS = 1
  DIRECT = 1
  PTRS = 2
  BYTE = 8
  MaxBytes = 4
  MaxIO = 2
  FullDisk = FALSE
PROPERTIES
  ExpandKeepsBlocks
