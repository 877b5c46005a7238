SPECIFICATION Spec
CONSTANTS
  Fanout = 8
  FrameCount = 16
  MemoryMap <- MapInParts
  FrameBuffer <- Buffer
  Leftover <- Zeroed
  Regions = {"init", "heap"}
  RegionBase <- HighBase
  MaxMapped = 3
INVARIANT TablesNotExecutable
CHECK_DEADLOCK FALSE
