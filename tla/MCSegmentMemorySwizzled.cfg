\* A swizzled read across the end of a lane's scratch, memory all mapped.
CONSTANTS
  SizeBits = 5
  AddrBits = 4
  LaneCount = 2
  ScratchSize = 16
  LdsSize = 10
  RawAddrs <- MCRawAddrs
  Sizes <- MCSizes
  MappedExtents <- MCAllMapped
SPECIFICATION Spec
INVARIANT SwizzledAsSpecified
