\* Two workers, chunks of three units, packets of one to four units.
CONSTANTS
  None = None
  Threads = {t1, t2}
  Blocks = {m1, m2, m3}
  AllocSize = 1
  Chunks = {c1, c2, c3}
  ChunkSize = 3
  Sizes = {1, 2, 3, 4}
SPECIFICATION Spec
INVARIANTS NoSharedBytes ChunkInOnePlace BlockInOnePlace CountersAgree NoOtherAssertionFails
SYMMETRY Symmetric
CHECK_DEADLOCK FALSE
