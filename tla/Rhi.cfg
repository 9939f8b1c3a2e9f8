CONSTANTS
  Devices <- MCDevices
  Surfaces = {TRUE, FALSE}
  Junk <- MCJunk
  BufferTypes <- MCBufferTypes
  Null = Null
  Capabilities <- MCCapabilities
  FormatLists <- MCFormatLists
  MaxChains = 3
  IndexLimit = 3
  Names = {a, b}
  MaxAttachments = 3
  MaxRefs = 1
  MaxSubpasses = 2
  MaxDependencies = 1
  MaxCalls = 8
SPECIFICATION Spec
INVARIANTS QueuesServe ImagesMatchChain RefsHit
SYMMETRY MCSymmetry
CHECK_DEADLOCK FALSE
