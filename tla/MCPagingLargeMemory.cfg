SPECIFICATION Spec
CONSTANTS
  Fanout = 8
  FrameCount = 16
  MemoryMap <- Map
  FrameBuffer <- Buffer
  Leftover <- Zeroed
  Regions = {"init", "heap"}
  RegionBase <- LowBase
  MaxMapped = 3
INVARIANT MapsTheGivenPage
CHECK_DEADLOCK FALSE
