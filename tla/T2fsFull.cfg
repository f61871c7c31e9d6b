\* Two files of up to two blocks, on a disk of three: writes run out of
\* blocks at any turn.
SPECIFICATION Spec
CONSTANTS
  File = {f, g}
  Value = {x, y}
  unwritten = unwritten
  NBYTES = 1
  BITS = 3
  BS = 2
  DIRECT = 2
  PTRS = 2
  BYTE = 3
  MaxBytes = 3
  MaxIO = 3
  FullDisk = TRUE
INVARIANTS
  RecordedBytesHaveBlocks
  HandleRecordCurrent
  BlocksNeverShared
  StoredIsWritten
VIEW LiveView
SYMMETRY Symmetry
