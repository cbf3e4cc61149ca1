---------------------------- MODULE RegisterCache ----------------------------
(***************************************************************************)
(* The registers of one wave as read_register and write_register           *)
(* (src/src/wave.cpp) see them, with the hwreg/ttmp register cache that    *)
(* wave_t::update resets or relocates, across suspensions and resumptions  *)
(* of the wave's queue and runs of the hardware.                           *)
(*                                                                         *)
(* Four registers stand for their classes: a cached hwreg, a cached ttmp,  *)
(* an SGPR outside the cache window, and an SGPR beyond the wave's         *)
(* allocation (which has no address).  The cache (memory_cache_t) and the  *)
(* queue's flush of dirty caches on resumption are outside src/ and are    *)
(* modelled from the spec.                                                 *)
(***************************************************************************)
EXTENDS Integers

CONSTANT Values      \* the register values, including 0

ASSUME 0 \in Values

Regs == {"hwreg", "ttmp", "sgpr", "sgpr_oor"}
Real == {"hwreg", "ttmp", "sgpr"}        \* the registers with an address
Cached == {"hwreg", "ttmp"}              \* first_hwreg .. last_ttmp
None == -1                               \* a cache line not yet fetched

VARIABLES
  susp,      \* the queue is suspended
  lib,       \* m_state: "RUN" or "STOP"
  first,     \* the wave has not been updated yet (no m_cwsr_record)
  hwr,       \* the registers in the hardware
  rec,       \* the registers in the context save area
  priv,      \* m_cwsr_record->is_priv ()
  cache,     \* the cached value of each register of the window, or None
  dirty,     \* the registers written in the cache and not yet flushed
  registered,\* the cache is registered with the queue for a flush
  want,      \* history: the value the client last wrote or the wave computed
  ttmpsSetup \* process_t::flag_t::ttmps_setup_enabled, fixed for the process

vars == <<susp, lib, first, hwr, rec, priv, cache, dirty, registered, want,
          ttmpsSetup>>

-----------------------------------------------------------------------------

\* read_register's view of a register of a stopped wave: out-of-range SGPRs
\* alias s0, a ttmp reads 0 unless privileged, a register of the window
\* comes from the cache (fetched from the save area on first use), any
\* other from the save area.
Alias(r) == IF r = "sgpr_oor" THEN "sgpr" ELSE r

ReadValue(r) ==
  LET a == Alias(r) IN
  IF a = "ttmp" /\ ~priv THEN 0
  ELSE IF a \in Cached /\ cache[a] # None THEN cache[a]
  ELSE rec[a]

\* is_register_available: a register with an address in the context save
\* area (an SGPR beyond the wave's allocation has none).
IsRegisterAvailable(r) == r \in Real

\* register_cache_policy: the cache's policy (write_back, as the wave_t
\* constructor creates it) for a register inside the cache window,
\* uncached for any other.
RegisterCachePolicy(r) == IF r \in Cached THEN "write_back" ELSE "uncached"

\* A read of a window register not yet in the cache fetches it.
ReadRegister(r) ==
  LET a == Alias(r) IN
  /\ lib = "STOP"
  /\ a \in Cached
  /\ ~(a = "ttmp" /\ ~priv)
  /\ cache[a] = None
  /\ cache' = [cache EXCEPT ![a] = rec[a]]
  /\ UNCHANGED <<susp, lib, first, hwr, rec, priv, dirty, registered, want>>

\* "If the cache is dirty, register it with the queue."
RegisterDirtyNever(reg, d) == reg             \* mutant: never registered

RegisterDirty(reg, d) == reg \/ d

\* write_register: out-of-range SGPRs and unprivileged ttmps drop the
\* write; a window register goes to the cache, which becomes dirty and is
\* registered for a flush; any other register is written to the save area
\* while the queue is suspended.
WriteRegister(r, v) ==
  /\ lib = "STOP"
  /\ \/ /\ r = "sgpr_oor" \/ (r = "ttmp" /\ ~priv)
        /\ UNCHANGED <<rec, cache, dirty, registered, want>>
     \/ /\ r \in Cached
        /\ ~(r = "ttmp" /\ ~priv)
        /\ cache' = [cache EXCEPT ![r] = v]
        /\ dirty' = dirty \cup {r}
        /\ registered' = RegisterDirty(registered, dirty' # {})
        /\ want' = [want EXCEPT ![r] = v]
        /\ UNCHANGED rec
     \/ /\ r = "sgpr"
        /\ susp
        /\ rec' = [rec EXCEPT ![r] = v]
        /\ want' = [want EXCEPT ![r] = v]
        /\ UNCHANGED <<cache, dirty, registered>>
  /\ UNCHANGED <<susp, lib, first, hwr, priv>>

\* update resets the cache of a wave that was running (or is new), and
\* only relocates that of a wave that stayed stopped.
ResetsFirstOnly == first                       \* mutant: relocate after a run

Resets == lib # "STOP"

\* The queue is suspended: its waves are saved to the context save area,
\* and the refresh calls wave_t::update.  A wave that was running gets a
\* reset cache, its ttmps zeroed on its first update (unless the hardware
\* set them up), and its state read back; a stopped wave keeps its cache.
SuspendAndUpdate ==
  /\ ~susp
  /\ susp' = TRUE
  /\ rec' = hwr
  /\ first' = FALSE
  /\ IF Resets
     THEN \E p \in BOOLEAN, s \in {"RUN", "STOP"} :
            LET zero == first /\ ~ttmpsSetup /\ p IN
            /\ priv' = p
            /\ lib' = s
            /\ cache' = [r \in Cached |-> IF zero /\ r = "ttmp" THEN 0 ELSE None]
            /\ dirty' = IF zero THEN {"ttmp"} ELSE {}
            /\ registered' = zero
            /\ want' = IF zero THEN [want EXCEPT !["ttmp"] = 0] ELSE want
     ELSE UNCHANGED <<priv, lib, cache, dirty, registered, want>>
  /\ UNCHANGED hwr

\* The queue is resumed: the dirty cache is flushed to the save area, and
\* the hardware restores the waves from it.
FlushedWindow == [r \in Real |-> IF r \in Cached THEN cache[r] ELSE rec[r]]  \* mutant

Flushed == [r \in Real |-> IF r \in dirty THEN cache[r] ELSE rec[r]]

ResumeQueue ==
  /\ susp
  /\ susp' = FALSE
  /\ rec' = IF registered THEN Flushed ELSE rec
  /\ hwr' = rec'
  /\ dirty' = IF registered THEN {} ELSE dirty
  /\ registered' = FALSE
  /\ UNCHANGED <<lib, first, priv, cache, want>>

\* A running wave changes its registers.
HwRun ==
  /\ ~susp
  /\ lib # "STOP"
  /\ \E v \in [Real -> Values] : hwr' = v /\ v # hwr
  /\ want' = hwr'
  /\ UNCHANGED <<susp, lib, first, rec, priv, cache, dirty, registered>>

\* set_state by a stop or resume call, with the queue suspended.
SetState(s) ==
  /\ susp
  /\ ~first
  /\ lib # s
  /\ lib' = s
  /\ UNCHANGED <<susp, first, hwr, rec, priv, cache, dirty, registered, want>>

Init ==
  /\ susp = FALSE
  /\ lib = "RUN"
  /\ first = TRUE
  /\ hwr \in [Real -> Values]
  /\ rec = hwr
  /\ priv = FALSE
  /\ cache = [r \in Cached |-> None]
  /\ dirty = {}
  /\ registered = FALSE
  /\ want = hwr
  /\ ttmpsSetup \in BOOLEAN

Next ==
  /\ \/ \E r \in Regs : ReadRegister(r)
     \/ \E r \in Regs, v \in Values : WriteRegister(r, v)
     \/ SuspendAndUpdate \/ ResumeQueue \/ HwRun
     \/ \E s \in {"RUN", "STOP"} : SetState(s)
  /\ UNCHANGED ttmpsSetup

Spec == Init /\ [][Next]_vars

-----------------------------------------------------------------------------

TypeOK ==
  /\ susp \in BOOLEAN /\ first \in BOOLEAN /\ priv \in BOOLEAN
  /\ lib \in {"RUN", "STOP"}
  /\ hwr \in [Real -> Values] /\ rec \in [Real -> Values]
  /\ want \in [Real -> Values]
  /\ cache \in [Cached -> Values \cup {None}]
  /\ dirty \subseteq Cached /\ registered \in BOOLEAN
  /\ ttmpsSetup \in BOOLEAN

\* A register of a stopped wave reads as the value the client last wrote
\* to it, or else the value the wave last computed: a cache kept
\* across a run of the wave (update must reset it) or a write lost in the
\* cache would show a stale value.
ReadsSeeWrites ==
  lib = "STOP" =>
    \A r \in Real : (r = "ttmp" => priv) => ReadValue(r) = want[r]

\* When the queue resumes, the hardware restores every register with the
\* value the client last wrote or the wave last saved: dirty cache lines
\* are flushed before the context is restored.
WritesReachHardware ==
  [][susp /\ ~susp' => hwr' = want]_vars

=============================================================================
