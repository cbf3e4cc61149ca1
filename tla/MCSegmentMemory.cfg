\* Bounds checks and truncation of all four transfers, without size_t wrap.
CONSTANTS
  SizeBits = 5
  AddrBits = 4
  LaneCount = 2
  ScratchSize = 16
  LdsSize = 10
  RawAddrs <- MCRawAddrs
  Sizes <- MCSizes
  MappedExtents <- MCMappedExtents
SPECIFICATION Spec
INVARIANT TypeOK
INVARIANT TransferWithinRegion
INVARIANT UnswizzledAsSpecified
INVARIANT SwizzledTransfersPrefix
