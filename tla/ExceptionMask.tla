---------------------------- MODULE ExceptionMask ----------------------------
(***************************************************************************)
(* The exceptions argument of amd_dbgapi_wave_resume (src/src/wave.cpp):   *)
(* its validation, and the loop at the end of wave_t::set_state that peels *)
(* the lowest set bit off the amd_dbgapi_exceptions_t and ORs the          *)
(* os_exception_mask_t of each into the mask sent to the queue.  The OS    *)
(* mask is a set of bit names: the bits OR-ed in are distinct, so OR is    *)
(* union.  Bit 64 stands for every bit the API does not define.            *)
(***************************************************************************)
EXTENDS Integers, Bitwise

\* AMD_DBGAPI_EXCEPTION_WAVE_* bits and the os_exception_mask_t bit of each.
OsBit == [b \in {1, 2, 4, 8, 16, 32} |->
           CASE b = 1  -> "queue_wave_abort"
             [] b = 2  -> "queue_wave_trap"
             [] b = 4  -> "queue_wave_math_error"
             [] b = 8  -> "queue_wave_illegal_instruction"
             [] b = 16 -> "queue_wave_memory_violation"
             [] b = 32 -> "queue_wave_aperture_violation"]
MemoryViolation == 16
UndefinedBit == 64
QueueExceptions == {OsBit[b] : b \in DOMAIN OsBit}
NotReached == "assert_not_reached"     \* convert_one_exception's assertion

VARIABLES
  exceptions,  \* the argument of the last resume
  agentDMV,    \* device_memory_violation in agent ().exceptions ()
  status,      \* what amd_dbgapi_wave_resume returned
  sent         \* the os_exception_mask_t passed to send_exceptions

vars == <<exceptions, agentDMV, status, sent>>

-----------------------------------------------------------------------------

\* The check of amd_dbgapi_wave_resume: no bit outside the six it knows.
ValidNoCheck(e) == TRUE                          \* mutant: the check dropped

\* exceptions & ~(ABORT | TRAP | ... | APERTURE_VIOLATION), ~ taken within the
\* model's 7 bits.
Valid(e) == e & ((2 * UndefinedBit - 1) ^^ 63) = 0

\* convert_one_exception.
ConvertOneNoDMV(one, dmv) ==        \* mutant: the agent's bit left out
  IF one \in DOMAIN OsBit THEN {OsBit[one]} ELSE {NotReached}

ConvertOne(one, dmv) ==
  IF one \in DOMAIN OsBit
  THEN {OsBit[one]} \cup
       (IF one = MemoryViolation /\ dmv THEN {"device_memory_violation"} ELSE {})
  ELSE {NotReached}

\* exceptions ^ (exceptions & (exceptions - 1)): the lowest set bit.
LowestBit(e) == e ^^ (e & (e - 1))

\* while (exceptions) { one = lowest bit; os |= convert (one); exceptions ^= one; }
RECURSIVE Convert(_, _)
Convert(e, dmv) ==
  IF e = 0 THEN {}
  ELSE LET one == LowestBit(e)
       IN ConvertOne(one, dmv) \cup Convert(e ^^ one, dmv)

\* A resume with some exceptions of a stopped wave: rejected, or converted
\* and sent (an empty argument sends nothing).
Resume ==
  \E e \in 0..(2 * UndefinedBit - 1), dmv \in BOOLEAN :
    /\ exceptions' = e
    /\ agentDMV' = dmv
    /\ IF Valid(e)
       THEN /\ status' = "SUCCESS"
            /\ sent' = IF e # 0 THEN Convert(e, dmv) ELSE {}
       ELSE /\ status' = "ERROR_INVALID_ARGUMENT"
            /\ sent' = {}

Init ==
  /\ exceptions = 0
  /\ agentDMV = FALSE
  /\ status = "SUCCESS"
  /\ sent = {}

Next == Resume

Spec == Init /\ [][Next]_vars

-----------------------------------------------------------------------------

\* The bits set in e, computed by arithmetic rather than by the loop.
BitsOf(e) == {2^i : i \in {j \in 0..6 : (e \div 2^j) % 2 = 1}}

\* The reference conversion: each exception to its OS bit, a memory
\* violation with the agent's device_memory_violation bit.
RefMask(e, dmv) ==
  {OsBit[b] : b \in BitsOf(e) \cap DOMAIN OsBit} \cup
  (IF MemoryViolation \in BitsOf(e) /\ dmv THEN {"device_memory_violation"} ELSE {})

TypeOK ==
  /\ exceptions \in 0..(2 * UndefinedBit - 1)
  /\ agentDMV \in BOOLEAN
  /\ status \in {"SUCCESS", "ERROR_INVALID_ARGUMENT"}
  /\ sent \subseteq QueueExceptions \cup {"device_memory_violation"}

\* spec.md 9: every recognised exception bit is consumed by the peeling
\* loop, convert_one_exception never meets a bit it does not know (the API
\* check rejected it), and a non-empty argument always sends some queue
\* exception (set_state's dbgapi_assert before send_exceptions).
ConversionComplete ==
  status = "SUCCESS" /\ exceptions # 0 =>
    /\ sent = RefMask(exceptions, agentDMV)
    /\ sent \cap QueueExceptions # {}

=============================================================================
