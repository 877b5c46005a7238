SPECIFICATION Spec
CONSTANTS
  Fanout = 8
  FrameCount = 16
  MemoryMap <- Map
  FrameBuffer <- Buffer
  Leftover <- LooksPresent
  Regions = {"init", "heap"}
  RegionBase <- HighBase
  MaxMapped = 3
INVARIANT EntriesLeadToTables
CHECK_DEADLOCK FALSE
