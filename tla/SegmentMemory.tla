---------------------------- MODULE SegmentMemory ----------------------------
(***************************************************************************)
(* Segment memory transfers of a stopped wave (src/src/wave.cpp,           *)
(* xfer_segment_memory and the three transfers it dispatches to): one      *)
(* client call at a time, the swizzled private transfer one dword chunk    *)
(* per step.  Only the bytes a call touches are recorded (as offsets from  *)
(* the base of the region it addresses), not their values.                 *)
(*                                                                         *)
(* size_t is SizeBits wide and wraps; segment addresses are zero-extended  *)
(* to the address space's AddrBits.  read/write_global_memory_partial      *)
(* transfers bytes up to the first unmapped one, and fails when not even   *)
(* the first is mapped; Mapped is the extent of mapped memory from the     *)
(* region's base, chosen per call.                                         *)
(***************************************************************************)
EXTENDS Integers, FiniteSets

CONSTANTS
  SizeBits,     \* width of size_t and of global addresses
  AddrBits,     \* address_space.address_size () of the private and local spaces
  LaneCount,    \* lane_count () of the wave
  ScratchSize,  \* the scratch_size of scratch_memory_region
  LdsSize,      \* m_cwsr_record->lds_size ()
  RawAddrs,     \* the segment addresses a client passes
  Sizes,        \* the sizes a client passes
  MappedExtents \* the extents of mapped memory the model chooses from

ASSUME
  /\ AddrBits < SizeBits
  /\ LaneCount \in {1, 2, 4}
  /\ RawAddrs \subseteq 0..(2^SizeBits - 1)
  /\ Sizes \subseteq 0..(2^SizeBits - 1)

\* "other" stands for the address spaces xfer_segment_memory does not support.
Kinds == {"private_swizzled", "private_unswizzled", "local", "global", "other"}
LaneNone == -1                       \* AMD_DBGAPI_LANE_NONE
SizeMax == 2^SizeBits
Wrap(x) == x % SizeMax               \* size_t arithmetic
MinOf(a, b) == IF a < b THEN a ELSE b
Range(lo, n) == {lo + i : i \in 0..(n - 1)}

VARIABLES
  st,        \* "idle", "loop" (swizzled chunks), "end" (loop left), "done"
  in,        \* the call's arguments and the mapped extent
  addr,      \* segment_address as the swizzled loop advances it
  bytes,     \* bytes still to transfer in the swizzled loop
  touched,   \* offsets from the region base that the call transferred
  result     \* the status and *size the call returns

vars == <<st, in, addr, bytes, touched, result>>

-----------------------------------------------------------------------------

\* read_global_memory_partial / write_global_memory_partial of n bytes at
\* offset off: up to the first unmapped byte, an error when none is mapped.
PartialXfer(off, n) ==
  IF n = 0 THEN [status |-> "SUCCESS", n |-> 0]
  ELSE IF off >= in'.mapped THEN [status |-> "ERROR_MEMORY_ACCESS", n |-> 0]
  ELSE [status |-> "SUCCESS", n |-> MinOf(n, in'.mapped - off)]

\* segment_address &= bit_mask (0, address_size () - 1); the global address
\* space is as wide as size_t.
ZeroExtend(a, kind) == a % 2^(IF kind = "global" THEN SizeBits ELSE AddrBits)

\* The byte of lane `lane` at segment_address a in the swizzled layout.
SwizzledOffset(a, lane) == (a \div 4) * LaneCount * 4 + lane * 4 + (a % 4)

\* The truncation of the unswizzled and local transfers: the size left
\* within the limit, or -1 for the MEMORY_ACCESS error.  The sum is a
\* size_t and wraps.
TruncatedNoZeroCase(a, size, limit) ==      \* mutant: *size != 0 dropped
  IF Wrap(a + size) > limit
  THEN IF a < limit THEN limit - a ELSE -1
  ELSE size

Truncated(a, size, limit) ==
  IF Wrap(a + size) > limit
  THEN LET max == IF a < limit THEN limit - a ELSE 0
       IN IF max = 0 /\ size # 0 THEN -1 ELSE max
  ELSE size

\* A transfer of the first n bytes at offset a of a region, as one partial
\* read or write, after the truncation t.
OnePartial(a, t) ==
  IF t = -1
  THEN /\ result' = [status |-> "ERROR_MEMORY_ACCESS", size |-> in'.size]
       /\ touched' = {}
  ELSE LET r == PartialXfer(a, t) IN
       /\ result' = [status |-> r.status,
                      size |-> IF r.status = "SUCCESS" THEN r.n ELSE in'.size]
       /\ touched' = Range(a, r.n)

XferUnswizzled(a) == OnePartial(a, Truncated(a, in'.size, ScratchSize))

XferLocal(a) == OnePartial(a, Truncated(a, in'.size, LdsSize))

\* The start of xfer_private_memory_swizzled: the lane check.
XferSwizzledStart(a) ==
  IF in'.lane = LaneNone \/ in'.lane >= LaneCount
  THEN /\ st' = "done"
       /\ result' = [status |-> "ERROR_INVALID_LANE_ID", size |-> in'.size]
       /\ touched' = {}
  ELSE /\ st' = "loop"
       /\ result' = [status |-> "SUCCESS", size |-> in'.size]
       /\ touched' = {}

\* xfer_segment_memory: zero-extend the address and dispatch on the kind of
\* the address space; an unsupported one is a MEMORY_ACCESS error.  A
\* global address is an offset from address 0.
XferSegmentMemory ==
  /\ st = "idle"
  /\ \E kind \in Kinds, raw \in RawAddrs, size \in Sizes, m \in MappedExtents,
        lane \in {LaneNone} \cup 0..LaneCount :
       /\ lane # LaneNone => kind = "private_swizzled"
       /\ in' = [kind |-> kind, lane |-> lane, raw |-> raw, size |-> size,
                 mapped |-> m]
  /\ LET a == ZeroExtend(in'.raw, in'.kind) IN
     /\ addr' = a
     /\ bytes' = in'.size
     /\ CASE in'.kind = "private_swizzled" -> XferSwizzledStart(a)
          [] in'.kind = "private_unswizzled" -> st' = "done" /\ XferUnswizzled(a)
          [] in'.kind = "local" -> st' = "done" /\ XferLocal(a)
          [] in'.kind = "global" -> st' = "done" /\ OnePartial(a, in'.size)
          [] in'.kind = "other" ->
               /\ st' = "done"
               /\ result' = [status |-> "ERROR_MEMORY_ACCESS", size |-> in'.size]
               /\ touched' = {}

\* The bytes of a chunk of request bytes at offset off that lie within the
\* scratch (0 when none does).
ChunkSizeUnchecked(off, request) == request     \* mutant: no bounds check

ChunkSizeUnderflow(off, request) ==           \* mutant: offset < scratch_size dropped
  IF off + request > ScratchSize THEN Wrap(ScratchSize - off) ELSE request

ChunkSize(off, request) ==
  IF off + request > ScratchSize
  THEN IF off < ScratchSize THEN ScratchSize - off ELSE 0
  ELSE request

\* bytes -= xfer_size.
RemainingByRequest(b, request, xfer) == b - request  \* mutant: request_size

Remaining(b, request, xfer) == b - xfer

\* One iteration of the swizzled loop: an aligned dword (or the unaligned
\* head or tail), bounds-checked against scratch_size, transferred with
\* one partial read or write; a short transfer leaves the loop.
SwizzledChunk ==
  LET request == MinOf(4 - (addr % 4), bytes)
      off == SwizzledOffset(addr, in.lane)
      x0 == ChunkSize(off, request)
      r == PartialXfer(off, x0)
  IN
  /\ st = "loop"
  /\ bytes > 0
  /\ UNCHANGED in
  /\ \/ /\ x0 = 0
        /\ st' = "done"
        /\ result' = [status |-> "ERROR_MEMORY_ACCESS", size |-> in.size]
        /\ UNCHANGED <<addr, bytes, touched>>
     \/ /\ x0 > 0
        /\ r.status # "SUCCESS"
        /\ st' = "done"
        /\ result' = [status |-> r.status, size |-> in.size]
        /\ UNCHANGED <<addr, bytes, touched>>
     \/ /\ x0 > 0
        /\ r.status = "SUCCESS"
        /\ touched' = touched \cup Range(off, r.n)
        /\ bytes' = Remaining(bytes, request, r.n)
        /\ st' = IF request # r.n THEN "end" ELSE "loop"
        /\ addr' = IF request # r.n THEN addr ELSE addr + r.n
        /\ UNCHANGED result

\* After the loop: an error if nothing at all was transferred, else the
\* size transferred.
SwizzledEnd ==
  /\ \/ st = "end"
     \/ st = "loop" /\ bytes = 0
  /\ st' = "done"
  /\ result' = IF bytes # 0 /\ bytes = in.size
               THEN [status |-> "ERROR_MEMORY_ACCESS", size |-> in.size]
               ELSE [status |-> "SUCCESS", size |-> in.size - bytes]
  /\ UNCHANGED <<in, addr, bytes, touched>>

\* The client makes its next call.
NextCall ==
  /\ st = "done"
  /\ st' = "idle"
  /\ UNCHANGED <<in, addr, bytes, touched, result>>

Init ==
  /\ st = "idle"
  /\ in = [kind |-> "global", lane |-> LaneNone, raw |-> 0, size |-> 0, mapped |-> 0]
  /\ addr = 0
  /\ bytes = 0
  /\ touched = {}
  /\ result = [status |-> "SUCCESS", size |-> 0]

Next == XferSegmentMemory \/ SwizzledChunk \/ SwizzledEnd \/ NextCall

Spec == Init /\ [][Next]_vars

-----------------------------------------------------------------------------
(* The reference: the spec's per-byte reading of a transfer.  Byte i of a  *)
(* call lives at ByteOffset(a + i) of its region, and can be transferred   *)
(* when it is inside the region and mapped.  A call transfers the longest  *)
(* prefix of such bytes, and fails when it asked for bytes and none is.    *)

RegionLimit(kind) ==
  CASE kind \in {"private_swizzled", "private_unswizzled"} -> ScratchSize
    [] kind = "local" -> LdsSize
    [] OTHER -> SizeMax

ByteOffset(a) ==
  IF in.kind = "private_swizzled" THEN SwizzledOffset(a, in.lane) ELSE a

Transferable(a) == ByteOffset(a) < MinOf(RegionLimit(in.kind), in.mapped)

RefSize ==
  LET a0 == ZeroExtend(in.raw, in.kind)
  IN CHOOSE k \in 0..in.size :
       /\ \A i \in 0..(k - 1) : Transferable(a0 + i)
       /\ k < in.size => ~Transferable(a0 + k)

RefResult ==
  IF in.size > 0 /\ RefSize = 0
  THEN [status |-> "ERROR_MEMORY_ACCESS", size |-> in.size]
  ELSE [status |-> "SUCCESS", size |-> RefSize]

\* Two outcomes agree on the status, and on the size when it is a success
\* (an error leaves *size to be ignored).
SameOutcome(r1, r2) ==
  /\ r1.status = r2.status
  /\ r1.status = "SUCCESS" => r1.size = r2.size

\* The bytes the reference transfers, as offsets of the region.
RefTouched ==
  {ByteOffset(ZeroExtend(in.raw, in.kind) + i) : i \in 0..(RefSize - 1)}

\* The request stays below the top of size_t.
NoWrap == in.raw + in.size < SizeMax

Done == st = "done"

TypeOK ==
  /\ st \in {"idle", "loop", "end", "done"}
  /\ in.kind \in Kinds
  /\ bytes \in 0..(SizeMax - 1)
  /\ touched \subseteq Nat
  /\ result.status \in {"SUCCESS", "ERROR_MEMORY_ACCESS", "ERROR_INVALID_LANE_ID"}

\* No transfer, of any kind and any size, touches a byte outside the region
\* its address space names: the scratch for private memory, the LDS for
\* local memory (the bounds checks of the three xfer_* functions).
TransferWithinRegion ==
  \A o \in touched : o < RegionLimit(in.kind)

\* An unswizzled, local or global transfer that does not wrap size_t
\* returns what the per-byte reference returns and transfers exactly its
\* bytes: truncation at the end of the region, a zero-size request
\* succeeding, MEMORY_ACCESS only when no requested byte can be moved.
UnswizzledAsSpecified ==
  Done /\ NoWrap /\ in.kind \in {"private_unswizzled", "local", "global"}
    => /\ SameOutcome(result, RefResult)
       /\ touched = RefTouched

\* A swizzled transfer that succeeds reports exactly the bytes it moved: its
\* *size is the length of a prefix of the request, whose swizzled images
\* are the bytes it touched, and no longer than the reference's.
SwizzledTransfersPrefix ==
  Done /\ in.kind = "private_swizzled" /\ result.status = "SUCCESS"
    => /\ result.size <= RefSize
       /\ touched = {SwizzledOffset(ZeroExtend(in.raw, in.kind) + i, in.lane) :
                      i \in 0..(result.size - 1)}

\* spec.md 4.8: a swizzled transfer that meets the end of the scratch
\* "terminates the loop and returns what was transferred"; only a transfer
\* of zero bytes is a MEMORY_ACCESS error.
SwizzledAsSpecified ==
  Done /\ in.kind = "private_swizzled" /\ in.lane \in 0..(LaneCount - 1)
    => SameOutcome(result, RefResult)

=============================================================================
