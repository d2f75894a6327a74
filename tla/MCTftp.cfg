\* Two readers and a writer, two of them at a time and as many pcbs, one of them
\* mortal; the volume may be unusable; the datagrams of the writer are lost,
\* repeated and reordered.
CONSTANTS
  Readers = {"r1", "r2"}
  Writers = {"w"}
  Strangers = {}
  Missing = {}
  Blocks = 2
  BlockMod = 16
  MaxPort = 3
  PoolSize = 2
  MaxActive = 2
  Overlap = TRUE
  Mortal = {"r2"}
  Repeats = {"wrDATA", "wrACK"}
  AllocFails = FALSE
  OpendirFails = TRUE
  DiskFills = FALSE
SPECIFICATION Spec
INVARIANT TypeOK
INVARIANT InStep
INVARIANT ReaderGetsFile
INVARIANT AckedIsStored
INVARIANT NoOrphan
INVARIANT WildNeedsRival
\* Every client makes one transfer, and nothing is left to do.
CHECK_DEADLOCK FALSE
