--------------------------- MODULE MCSegmentMemory ---------------------------
(* Small instances of SegmentMemory: a 5-bit size_t, 4-bit private and    *)
(* local address spaces, a wave of 2 lanes with 2 dwords of scratch per   *)
(* lane, an LDS that is not a whole number of dwords.                     *)
EXTENDS SegmentMemory

\* Addresses inside and past the 4-bit spaces (the zero-extension), sizes
\* small enough that no request wraps size_t.
MCRawAddrs == 0..19
MCSizes == 0..9

\* Mapped memory ends inside the scratch (short and failed partial
\* transfers), or covers the whole space.
MCMappedExtents == {6, 2^SizeBits}
MCAllMapped == {2^SizeBits}

\* Sizes up to the top of size_t, which wrap segment_address + *size.
MCWrapSizes == {0, 4, 13, 20, 28, 30, 31}
=============================================================================
