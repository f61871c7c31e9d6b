\* Two files of up to three blocks, two of them behind the single indirect
\* pointer, on a disk that one of them almost fills.
SPECIFICATION Spec
CONSTANTS
  File = {f, g}
  Value = {x, y}
  unwritten = unwritten
  NBYTES = 3
  BITS = 2
  BS = 2
  DIRECT = 1
  PTRS = 2
  BYTE = 6
  MaxBytes = 5
  MaxIO = 3
  FullDisk = FALSE
INVARIANTS
  TypeOK
  StoredIsWritten
  ReadReturnsWritten
  PointerWithinFile
  HandleRecordCurrent
  BlocksOwnedOnce
VIEW LiveView
SYMMETRY Symmetry
