\* One worker, chunks of three units, packets of up to four.
CONSTANTS
  None = None
  Threads = {t1}
  Blocks = {m1, m2}
  AllocSize = 1
  Chunks = {c1, c2}
  ChunkSize = 3
  Sizes = {1, 2, 3, 4}
SPECIFICATION Spec
INVARIANT PacketFitsChunk
CHECK_DEADLOCK FALSE
