SPECIFICATION Spec
CONSTANTS
  Fanout = 8
  FrameCount = 16
  MemoryMap <- Map
  FrameBuffer <- Buffer
  Leftover <- Zeroed
  Regions = {"init", "heap"}
  RegionBase <- HighBase
  MaxMapped = 3
INVARIANTS TypeOK TranslationSound TablesAreATree WalkStaysInTables CodeAndDataProtected
PROPERTY ImplementsAllocator
CHECK_DEADLOCK FALSE
