# TLA+ models of the ROCdbgapi wave control

This directory holds TLA+ models of the wave control core of the AMD GPU
debugger library, `src/src/wave.cpp` (class `wave_t` and the
`amd_dbgapi_wave_*` entry points). It also holds the TLC configurations that
check them. `src/unnamed/part_000` is the CMake build script and has no
run-time behaviour.

## The system

A *wave* is a hardware thread group running on a queue of a GPU agent. The
library keeps one `wave_t` object per wave. It sees the hardware only while
the wave's queue is suspended, because the wave's context is then saved in a
context save area. The parts and how they interact:

| Part | Code | State | Operations |
|---|---|---|---|
| wave object | `wave_t` | `m_state`, `m_stop_reason`, `m_stop_requested`, `m_visibility`, `m_last_stop_event_id` | `set_state`, `update`, `terminate`, destructor |
| parking | `park`, `unpark` | `m_is_parked`, `m_parked_pc`, the saved pc | called by `update` and `set_state` |
| displaced stepping | `displaced_stepping_start/complete` | `m_displaced_stepping`; shared buffers keyed by queue and pc, with a reference count | start, complete, terminate, destructor |
| stop events | `raise_event`, `last_stop_event`, `client_visible_state` | the process's event queue; each event is pending, then reported, then processed (destroyed) | raised by `update` and `set_state`; reported and processed by the client |
| API calls | `amd_dbgapi_wave_stop`, `_resume`, `_process_wave_list` | the queue suspension | check, suspend the wave's queue, update its waves, look the wave up again, `set_state`, resume the queue |
| exceptions | end of `set_state` | the agent's `device_memory_violation` bit; the OS exception mask sent to the queue | resume with exceptions; clearing the bit when a wave leaves STOP |
| hardware | (not code) | alive, halted or running, the saved stop reason, the pc | executes instructions of waves whose queue runs |

Behaviours that make this code hard:
- the hardware runs concurrently with the library whenever a queue is not
  suspended, so the library's cached state of a wave goes stale;
- a wave can exit between an API call's checks and its queue suspension;
- several waves share one displaced-stepping buffer;
- a stop is hidden from the client until its event is reported, and a wave
  cannot be resumed until that event is processed;
- parking redirects the pc register;
- single-stepping an `s_endpgm` is turned into termination;
- exceptions forwarded to the OS interact with the agent's memory-violation
  bit.

## Modules

`WaveControl.tla` models all of the above for the waves of one process on one
agent.
- **State.**
  - `wv` holds one record per wave object: `live`, `state`, `reason`,
    `stopReq`, `parked`, `parkedPc`, the context-save-area `pc`, `vis`,
    `ds` (the `from` pc of the wave's displaced stepping, or 0), and
    `lastEv`.
  - `hw` is the hardware wave: alive, mode, the stop reason it saved, and
    the halt bit of a wave halted at launch.
  - `suspended` and `toUpdate` model the queue suspension and the refresh
    that calls `update` on every wave of the suspended queue.
  - `api` is the API call in progress. The library is single-threaded, so a
    call is split only where the refresh runs in the middle of it.
  - `events` is the live event queue. `dsBuf` is the displaced-stepping
    buffers. `agentDMV` is the agent's device memory violation bit. `sent`
    is the last OS exception mask sent to each queue. `progress` is
    `forward_progress_needed`.
  - `told` is history only: whether the client has been given the event of
    the stop the wave is in.
- **Actions.** One action per operation or handler:
  - `Update` is `wave_t::update`. `Destroy` is the refresh destroying a
    wave that left the hardware (`~wave_t`).
  - `StopBegin` and `ResumeBegin` are the API checks plus the suspension.
    `CallEnd` is the re-find, `set_state` and the queue's resumption.
  - `ListBegin` and `RefreshEnd` are `amd_dbgapi_process_wave_list`.
    As in the code, the queues to resume are chosen when they are
    suspended (`NeedingResume`, only if forward progress is needed).
  - `DisplacedStart` and `DisplacedComplete` are displaced stepping.
    `WritePcCall` is a client write of the pc.
  - `DriverEvent` is the process handling a driver event for a queue with a
    trapped wave. `HwStep` is the hardware.
  - `ReportEvent`, `ProcessEvent` and `SetProgress` are the client's event
    loop and progress setting.
  - `SetVisibility` is `wave_t::set_visibility (visible)` for a wave
    created hidden and halted at launch: it unhalts the wave, then shows
    it. Waves start visible or halted at launch (`LaunchVisibilities`). The
    process releases halted waves when the client lets waves launch
    normally; that caller is outside `src/` and is modelled from the spec.
- **Queries.** `InfoStatus` and `InfoValue` are `amd_dbgapi_wave_get_info`
  and `wave_t::get_info` for `STATE`, `STOP_REASON` and `PC`: an unknown
  wave is refused, and the stop and register queries need a wave the
  client sees stopped.
- **set_state.** `SetState` keeps the code's three outcomes: an unchanged
  state returns early, a single-step of a terminating instruction becomes
  `Terminate`, and anything else is a `Transition`. A transition includes
  park/unpark, the stop event, simulation of a branch, the OS exceptions,
  and the device memory violation loop.
- **Data abstraction.** A program is a short sequence of instruction kinds
  (`plain`, `branch`, `load`, `endpgm`). Addresses are small integers. The
  pc is the only register. Event ids are drawn from a small set and reused
  only when no object refers to them.
- **Client assumptions.** These are written as guards, each with a comment:
  - the client does not write the pc of a wave in the middle of a displaced
    step;
  - the client completes a displaced step before it resumes the wave again.

`SegmentMemory.tla` models the memory transfers of `wave_t`:
`xfer_segment_memory` with its zero-extension of the address and its
dispatch, `xfer_private_memory_swizzled` as a loop of one-dword chunks (state
`st`, `addr`, `bytes`), `xfer_private_memory_unswizzled` and
`xfer_local_memory` with their single bounds checks. The data are abstracted:
`size_t` is `SizeBits` bits wide (`Wrap`), an address space is `AddrBits`
wide, a transfer records the set of offsets it `touched`, and the process's
memory access is a mapped extent (`PartialXfer`, modelled from the spec,
because `process_t` is not under `src/`). Reference operators (`RefSize`,
`RefTouched`) state the spec's transfer: the longest prefix that is within
the region and mapped, addressed by the swizzling formula.

`ExceptionMask.tla` models the `exceptions` argument of
`amd_dbgapi_wave_resume`. This covers its validation (`Valid`, with
`Bitwise`) and the loop at the end of `set_state`. The loop peels the lowest
set bit (`LowestBit`, the `RECURSIVE Convert`) and maps each bit with
`convert_one_exception`. The result is checked against a reference mask
computed by arithmetic over all 128 argument values.

`RegisterCache.tla` models the registers of one wave as `read_register` and
`write_register` see them. Four registers stand for the classes the code
treats differently:
- a cached hwreg;
- a cached ttmp, with the privilege rule;
- an SGPR outside the cache window;
- an SGPR beyond the allocation, which aliases s0 on read and is dropped on
  write.

The queue is suspended and resumed, with `wave_t::update`'s cache reset,
first-update ttmp zeroing and relocation, and the hardware runs the wave in
between. The process flag `ttmps_setup_enabled` is the variable
`ttmpsSetup`. It is chosen in `Init` and never changes, so one run covers
both settings. `register_cache_policy` and `is_register_available` are queries
that change no state. They are operators, and no property reads them:
the policy answers from the same window (`Cached`) that the write path
tests, so no property about it could fail. The `memory_cache_t` fetch and flush are not under `src/` and are
modelled from the spec. The history variable `want` holds the value each
register architecturally has: the client's last write, or the wave's last
computed value.

`ClientWave.tla` is the abstract specification of what a client sees. For
each wave it records the state `amd_dbgapi_wave_get_info` shows (a running
state, `STOP`, `HIDDEN` for a wave halted at launch, or `GONE`) and the
stop or resume call in progress:
- a stop shows only when its event is reported, never inside a call;
- a shown stop is left only by a resume;
- a hidden wave appears running;
- a gone wave never comes back.

`WaveControl.tla` ends with two refinement mappings onto it, through
`INSTANCE ClientWave WITH`:
- `CoarseView` maps `client_visible_state` to `ACTIVE`/`STOP`/`GONE`;
- `FineView` keeps `RUN` and `SINGLE_STEP` apart.

`MCWaveControl.tla` instantiates the model with model values `w1 w2` and
`q1 q2` and small programs. `MCSegmentMemory.tla` gives the memory model its
input sets.

## Runs

| Run | Config | Bounds | Checks |
|---|---|---|---|
| safety | `MCWaveControl.cfg` | 2 waves, 1 queue, 4-instruction program with a branch and breakpoints on the plain, branch and `s_endpgm` instructions, 2 scratch buffers, 5 event ids, no exceptions, forward progress on/off; symmetry over the waves | TypeOK; StopSeenOnlyWhenReported; OneLiveStopEvent; DisplacedRefcount; DisplacedNeverRuns; ParkedPcCoherent; NoDestroyWhileDisplaced; StopReasonExplained |
| dmv_two_queues | `MCWaveControlDMV.cfg` | 2 waves on 2 queues, 3-instruction program with a faulting load and no breakpoint on `s_endpgm`, so a wave can exit while a call on it is in flight | DeviceMemoryViolationKept; DestroyedWaveUntouched |
| exceptions | `MCWaveControlExc.cfg` | 1 wave, resumes with or without `WAVE_MEMORY_VIOLATION` | ExceptionKeepsDMV |
| single_step_liveness | `MCWaveControlLive.cfg` | 2 waves, 1 queue, 3-instruction program, forward progress always on, no client pc writes, no symmetry | StopsReachLibrary; QueueSuspensionEnds |
| client_view_refinement | `MCWaveControlRefine.cfg` | as single_step_liveness, forward progress on/off, waves created visible or halted at launch, symmetry over the waves | LaunchHaltCoherent; ImplementsClientView (PROPERTY `CoarseView!Spec`) |
| memory_bounds | `MCSegmentMemory.cfg` | 5-bit `size_t`, 4-bit address spaces, 2 lanes, scratch 16 and LDS 10 bytes, addresses 0..19, sizes 0..9, memory mapped up to 6 or everywhere | TypeOK; TransferWithinRegion; UnswizzledAsSpecified; SwizzledTransfersPrefix |
| exception_mask | `MCExceptionMask.cfg` | every 7-bit argument, agent bit on/off | TypeOK; ConversionComplete |
| register_cache | `MCRegisterCache.cfg` | values {0, 1}, `ttmps_setup_enabled` on and off (chosen in `Init`) | TypeOK; ReadsSeeWrites; WritesReachHardware |
| swizzled_end_of_scratch (violation) | `MCSegmentMemorySwizzled.cfg` | as memory_bounds, all memory mapped | SwizzledAsSpecified |
| size_wrap (violation) | `MCSegmentMemoryWrap.cfg` | sizes up to 31, so that `offset + size` wraps | TransferWithinRegion |
| client_view_last_resumed (violation) | `MCWaveControlView.cfg` | as client_view_refinement | ShowsLastResumedState (PROPERTY `FineView!Spec`) |
| displaced_exit_with_exceptions (violation) | `MCWaveControlExcDs.cfg` | as exceptions | NoDestroyWhileDisplaced |

What the properties say:
- **StopSeenOnlyWhenReported.** `client_visible_state` never shows a stop the
  client was not told about. Every path into STOP raises an event: update,
  set_state (STOP) and simulation.
- **OneLiveStopEvent.** The resume check on processed events keeps at most
  one live stop event per wave.
- **DisplacedRefcount.** The reference count of every shared buffer equals
  the number of waves using it. This holds through start, complete,
  terminate and destruction.
- **DisplacedNeverRuns.** A displaced-stepping wave is never running freely,
  in the library or in the hardware.
- **ParkedPcCoherent.** A wave is parked exactly when it is stopped. A parked
  wave sits on the park trap. The pc the client reads is never the park
  address.
- **NoDestroyWhileDisplaced.** This is `~wave_t`'s assertion: a wave never
  leaves while it is displaced stepping on a valid queue.
- **DeviceMemoryViolationKept.** `set_state` of any wave, on any queue, never
  clears the agent's bit while a wave stays stopped by a memory violation.
- **DestroyedWaveUntouched** (action property). A wave object destroyed by
  a refresh is never used again. A wave may leave the hardware between the
  checks of a stop or resume and the queue suspension. The call must then
  find it gone (lines 1082, 1138) and must not set its state, write its
  hardware wave or raise an event for it.
- **ExceptionKeepsDMV.** `device_memory_violation` is converted into the OS
  mask before `set_state` clears it.
- **StopsReachLibrary** (liveness). Every stop eventually reaches the
  library. A single-stepped wave, or a wave halted by a breakpoint, trap or
  memory violation while the library thinks it runs, is eventually seen
  stopped by `update` (which raises its event), or it leaves the hardware.
- **StopReasonExplained.** `get_info (STOP_REASON)` answers for a wave shown
  stopped with a reason, unless the client asked for the stop. This
  holds even when a stop call finds the wave already stopped at a
  breakpoint, so that `set_state` returns early.
- **LaunchHaltCoherent.** A wave is hidden and halted at launch exactly
  while the hardware holds it halted, and it stays RUN until it is
  released. This is `set_visibility`'s assertion and the spec's invariant.
  A find that did not hide such waves would let the client stop one, and
  a `set_visibility` that did not unhalt would leave a visible wave halted.
- **QueueSuspensionEnds** (liveness). While forward progress is needed,
  every queue suspension is eventually lifted. This covers stop, resume,
  wave list and driver-event refreshes.
- **ImplementsClientView** (refinement). WaveControl implements ClientWave
  under `CoarseView`. Every client-visible state change is a call's return,
  a reported stop or an exit.
- **TransferWithinRegion.** A transfer touches only offsets inside its
  scratch or LDS region.
- **UnswizzledAsSpecified.** When `offset + size` does not wrap, an
  unswizzled or local transfer returns the spec's status and size, and
  touches exactly the reference offsets.
- **SwizzledTransfersPrefix.** A swizzled transfer moves a prefix of the
  request, chunk by chunk, at the swizzled addresses.
- **ConversionComplete.** The mask sent equals the reference mask, and a
  non-empty argument sends at least one queue exception (the code's
  assertion).
- **ReadsSeeWrites.** A register of a stopped wave reads the client's last
  write or the wave's last computed value. A cache only relocated after a
  run would break it.
- **WritesReachHardware.** When the queue resumes, the hardware gets every
  register's architectural value. A dirty cache never registered for a
  flush would lose the client's write.

Each property has a mutant in `PROJECT.json`: a plausible bug in the code it
is about, which TLC finds.

The bounds let every interesting case happen:
- two waves meet at the same breakpoint and share a buffer;
- a branch is simulated;
- a plain instruction and an `s_endpgm` are copied to scratch;
- the displaced `s_endpgm` is terminated;
- a load faults with a memory violation;
- wave-list refreshes leave queues suspended when progress is off.

Between them the runs fire every action and every disjunct.

### Fairness

The library always finishes a call it started and the refresh of a
suspended queue (`WF` on `Update`, `Destroy`, `CallEnd`, `RefreshEnd`). The
hardware runs a wave whose queue is resumed again and again (`SF` on
`HwStep`), because the queue is suspended and resumed by API calls. The
process handles the driver event of a queue whose wave trapped (`SF` on
`DriverEvent`). Nothing is assumed of the client. StopsReachLibrary and
QueueSuspensionEnds are checked
with forward progress on. With progress off, `wave_list` leaves queues
suspended and a resumed wave does not run, which is what the API promises.

## Findings

The violation runs record where the code and what is said of it disagree:
- **swizzled_end_of_scratch.** `xfer_private_memory_swizzled` returns
  `MEMORY_ACCESS` in the middle of its loop (line 794) when a later dword
  leaves scratch. The bytes already moved are not reported as a partial
  transfer. Example: raw address 7, size 2, lane 0 moves offset 11, then
  fails at 16.
- **size_wrap.** In `xfer_private_memory_unswizzled` and `xfer_local_memory`,
  `offset + size` is an unchecked `size_t` sum (line 837). A size near
  2^64 wraps it past the bound check, and the transfer runs beyond the
  region.
- **client_view_last_resumed.** The comment of `client_visible_state`
  (line 963) says it returns the last resumed state. But a stop request on
  a SINGLE_STEP wave makes `set_state` clear `m_stop_reason` (line 507)
  and raise `WAVE_COMMAND_TERMINATED`. Until that event is reported,
  `client_visible_state` infers the state from the cleared reason and
  shows RUN, so the wave goes SINGLE_STEP -> RUN -> STOP with no resume.
- **displaced_exit_with_exceptions.** A displaced step over `s_endpgm`
  resumed with exceptions skips the terminating check (line 449). The wave
  exits while it still holds its buffer. Whether `~wave_t`'s assertion fires
  depends on the OS invalidating the queue, which is outside `src/`.

## Not modelled

- Pseudo registers, which are architecture code outside this file, and the
  offset and size checks of register accesses, which only throw.
- The `get_info` queries other than STATE, STOP_REASON and PC. They return
  identifiers fixed at creation (dispatch, queue, agent, process,
  architecture, lane count, group ids), or register and watchpoint data
  (`exec_mask`, `WATCHPOINTS`) that the model abstracts away. None of them
  changes state. `instruction_at_pc` is the `InstrAt` lookup.
- The process's wave-list `changed` flag that `set_visibility` sets. It is
  a hint for the client's list cache.
- The event queue, queue suspension, memory cache, process memory, the
  driver and the hardware. These are outside `src/` and are modelled from
  the specification as the environment of the wave code.
