\* Requests whose end wraps size_t.
CONSTANTS
  SizeBits = 5
  AddrBits = 4
  LaneCount = 2
  ScratchSize = 16
  LdsSize = 10
  RawAddrs <- MCRawAddrs
  Sizes <- MCWrapSizes
  MappedExtents <- MCAllMapped
SPECIFICATION Spec
INVARIANT TransferWithinRegion
