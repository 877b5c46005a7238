SPECIFICATION Spec
CONSTANTS
  Fanout = 8
  FrameCount = 16
  MemoryMap <- Map
  FrameBuffer <- Buffer
  Leftover <- Zeroed
  Regions = {"init", "heap"}
  RegionBase <- HighBase
  MaxMapped = 3
INVARIANT FreePagesNotPresent
CHECK_DEADLOCK FALSE
