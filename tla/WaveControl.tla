----------------------------- MODULE WaveControl -----------------------------
(***************************************************************************)
(* The wave control core of the debugger library (src/src/wave.cpp): the   *)
(* library's wave objects (wave_t) of one process on one agent, the GPU    *)
(* hardware running the waves of its queues, the queue suspension that     *)
(* serialises the two, the stop and resume API calls, wave-list refresh,   *)
(* displaced stepping with its shared buffers, parking, termination, and  *)
(* the stop events the client reports and processes.                      *)
(*                                                                         *)
(* Data abstraction: a program is a short sequence of instruction kinds;  *)
(* a pc is a small integer; registers other than the pc, the register      *)
(* cache and the memory contents are left out (the pc field of a wave is   *)
(* the pc of its context save area, which is also where the hardware runs *)
(* the wave from while its queue is not suspended).                        *)
(***************************************************************************)
EXTENDS Integers, Sequences, FiniteSets, SequencesExt

CONSTANTS
  Waves,            \* the waves of the dispatches (model values)
  Queues,           \* the queues of the process, all on one agent
  QueueOf,          \* the queue each wave belongs to
  Code,             \* the program: a sequence of instruction kinds
  Breakpoints,      \* code addresses where the client inserted a breakpoint
  BranchTargets,    \* the possible successors of each branch instruction
  Scratch,          \* addresses of displaced-instruction buffers
  ParkAddr,         \* park_instruction_address (an immutable trap)
  TermAddr,         \* terminating_instruction_address (an s_endpgm)
  ParkStoppedWaves, \* architecture_t::park_stopped_waves ()
  EventIds,         \* the event handles the model draws from
  ClientPcs,        \* the pcs the client may write to a stopped wave
  ResumeExceptions, \* the exception sets the client may resume with
  ProgressModes,    \* the forward-progress settings the client may choose
  LaunchVisibilities \* the visibilities a wave may be created with

NoAddr == 0
NoEvent == 0
CodeAddrs == DOMAIN Code

ASSUME
  /\ QueueOf \in [Waves -> Queues]
  /\ Code \in Seq({"plain", "branch", "load", "endpgm"})
  /\ Breakpoints \subseteq CodeAddrs
  /\ BranchTargets \in [CodeAddrs -> SUBSET CodeAddrs]
  /\ \A s \in Scratch \cup {ParkAddr, TermAddr} :
       s \notin CodeAddrs \cup {NoAddr} /\ s + 1 \notin CodeAddrs
  /\ ParkStoppedWaves \in BOOLEAN
  /\ NoEvent \notin EventIds
  /\ Cardinality(EventIds) >= 2 * Cardinality(Waves) + 1
  /\ ClientPcs \subseteq CodeAddrs
  /\ ProgressModes \subseteq BOOLEAN
  /\ LaunchVisibilities \subseteq {"visible", "hidden_halted_at_launch"}
  /\ LaunchVisibilities # {}

States == {"RUN", "SINGLE_STEP", "STOP"}
Reasons == {"single_step", "breakpoint", "trap", "memory_violation",
            "illegal_instruction"}
Visibilities == {"visible", "hidden_at_terminating_instruction",
                 "hidden_halted_at_launch"}
EventKinds == {"WAVE_STOP", "WAVE_COMMAND_TERMINATED"}
Exceptions == {"WAVE_ABORT", "WAVE_TRAP", "WAVE_MATH_ERROR",
               "WAVE_ILLEGAL_INSTRUCTION", "WAVE_MEMORY_VIOLATION",
               "WAVE_APERTURE_VIOLATION"}
OsExceptionBits == {"queue_wave_abort", "queue_wave_trap",
                    "queue_wave_math_error", "queue_wave_illegal_instruction",
                    "queue_wave_memory_violation",
                    "queue_wave_aperture_violation", "device_memory_violation"}
\* architecture_t::can_simulate and can_execute_displaced, by kind.
Simulatable == {"branch"}
Displaceable == {"plain", "load", "endpgm"}

VARIABLES
  wv,         \* the wave_t objects: one record per wave
  hw,         \* the hardware wave: alive, mode, the stop reason it saved
              \* and the halt bit (architecture_t::wave_get_halt)
  suspended,  \* queue_t::is_suspended () per queue
  toUpdate,   \* waves the current suspension has not yet updated
  api,        \* the API call in progress (the library is single-threaded)
  events,     \* the process's live events in creation order
  dsBuf,      \* displaced_stepping_t objects, keyed by <<queue, from>>
  agentDMV,   \* the agent's device_memory_violation exception bit
  sent,       \* the OS exception mask last sent to each queue
  progress,   \* process_t::forward_progress_needed ()
  told        \* history: the client was given the stop the wave is in

vars == <<wv, hw, suspended, toUpdate, api, events, dsBuf, agentDMV,
          sent, progress, told>>

Addrs == CodeAddrs \cup Scratch \cup {s + 1 : s \in Scratch}
           \cup {ParkAddr, TermAddr}
Key(w, from) == <<QueueOf[w], from>>
NoBuf == [rc |-> 0, to |-> NoAddr, sim |-> FALSE]
Idle == [op |-> "idle", w |-> "none", mode |-> "RUN",
         exc |-> {}, qs |-> {}]

-----------------------------------------------------------------------------
(* The pc register of a wave: wave_t::read_register / write_register on    *)
(* amdgpu_regnum_t::pc, which use m_parked_pc while the wave is parked.    *)

PcOf(r) == IF r.parked THEN r.parkedPc ELSE r.pc

WritePc(r, v) == IF r.parked THEN [r EXCEPT !.parkedPc = v]
                             ELSE [r EXCEPT !.pc = v]

ParkFlagFirst(r) ==                        \* mutant: is_parked set first
  LET r1 == [r EXCEPT !.parked = TRUE]
  IN WritePc([r1 EXCEPT !.parkedPc = PcOf(r1)], ParkAddr)

\* wave_t::park: save the pc, point the wave at the park instruction, and
\* only then route pc accesses to m_parked_pc.
Park(r) == [WritePc([r EXCEPT !.parkedPc = PcOf(r)], ParkAddr)
              EXCEPT !.parked = TRUE]

\* wave_t::unpark: read the pc while still parked, then write it back to
\* the context save area.
Unpark(r) == LET saved == PcOf(r) IN WritePc([r EXCEPT !.parked = FALSE], saved)

\* The instruction the wave would execute at address p: a breakpoint hides
\* the original instruction; a displaced-stepping buffer holds a copy of
\* the original; the park and terminating addresses hold an s_trap and an
\* s_endpgm; anything else is not a valid instruction.
InstrAt(p) ==
  LET inBuf == {k \in DOMAIN dsBuf : dsBuf[k].rc > 0 /\ dsBuf[k].to = p
                                     /\ ~dsBuf[k].sim}
  IN IF p \in Breakpoints THEN "breakpoint"
     ELSE IF p \in CodeAddrs THEN Code[p]
     ELSE IF p = TermAddr THEN "endpgm"
     ELSE IF p = ParkAddr THEN "trap"
     ELSE IF inBuf # {} THEN Code[(CHOOSE k \in inBuf : TRUE)[2]]
     ELSE "illegal"

Successors(p) == IF Code[p] = "branch" THEN BranchTargets[p] ELSE {p + 1}

-----------------------------------------------------------------------------
(* Events and the client-visible state.                                     *)

LiveEvent(id) == \E i \in 1..Len(events) : events[i].id = id
EventOf(id) == events[SelectInSeq(events, LAMBDA e : e.id = id)]
UsedIds == {events[i].id : i \in 1..Len(events)} \cup {wv[w].lastEv : w \in Waves}
NewEventId == CHOOSE i \in EventIds : i \notin UsedIds
NewEvent(w, kind) == [id |-> NewEventId, w |-> w, kind |-> kind, st |-> "pending"]

\* wave_t::client_visible_state: a stop is not visible until its event has
\* been reported.
ClientVisibleState(w) ==
  LET r == wv[w] IN
  IF r.state # "STOP" THEN r.state
  ELSE IF ~LiveEvent(r.lastEv) \/ EventOf(r.lastEv).st = "reported" THEN "STOP"
  ELSE IF "single_step" \in r.reason THEN "SINGLE_STEP"
  ELSE "RUN"

\* The public find (wave_id): waves hidden from the client are not found.
Find(w) == wv[w].live /\ wv[w].vis = "visible"

\* amd_dbgapi_wave_get_info: an unknown wave is refused, and the queries
\* about a stopped wave's stop and registers need the client to see the
\* wave stopped; wave_t::get_info answers STATE with client_visible_state,
\* STOP_REASON with m_stop_reason and PC with the pc register.
StoppedQueries == {"STOP_REASON", "PC", "EXEC_MASK", "WATCHPOINTS"}

InfoStatus(w, q) ==
  IF ~Find(w) THEN "ERROR_INVALID_WAVE_ID"
  ELSE IF q \in StoppedQueries /\ ClientVisibleState(w) # "STOP"
       THEN "ERROR_WAVE_NOT_STOPPED"
  ELSE "SUCCESS"

InfoValue(w, q) ==
  CASE q = "STATE" -> ClientVisibleState(w)
    [] q = "STOP_REASON" -> wv[w].reason
    [] q = "PC" -> PcOf(wv[w])

-----------------------------------------------------------------------------
(* Displaced-stepping buffers: displaced_stepping_t::retain and release.    *)

Retain(k) == [dsBuf EXCEPT ![k].rc = @ + 1]
Release(k) == IF dsBuf[k].rc = 1 THEN [dsBuf EXCEPT ![k] = NoBuf]
                                 ELSE [dsBuf EXCEPT ![k].rc = @ - 1]
FreeScratch == Scratch \ {dsBuf[k].to : k \in DOMAIN dsBuf}

-----------------------------------------------------------------------------
(* wave_t::set_state, split into its three outcomes.                        *)

\* The transition into a resumed state after wave_set_state: unpark, save
\* m_last_stopped_pc (not modelled) and clear the stop reason.
Resumed(r, s) ==
  LET r1 == [r EXCEPT !.state = s]
      r2 == IF ParkStoppedWaves THEN Unpark(r1) ELSE r1
  IN [r2 EXCEPT !.reason = {}]

\* The transition into STOP after wave_set_state: park, clear the reason.
Stopped(r) ==
  LET r1 == [r EXCEPT !.state = "STOP"]
      r2 == IF ParkStoppedWaves THEN Park(r1) ELSE r1
  IN [r2 EXCEPT !.reason = {}]

StepTerminatesNoDs(r, s, exc) ==           \* mutant: displaced case lost
  /\ s = "SINGLE_STEP"
  /\ exc = {}
  /\ r.ds = NoAddr
  /\ InstrAt(PcOf(r)) = "endpgm"

\* A single-step of a terminating instruction is turned into termination.
StepTerminates(r, s, exc) ==
  /\ s = "SINGLE_STEP"
  /\ exc = {}
  /\ IF r.ds # NoAddr THEN Code[r.ds] = "endpgm"
                      ELSE InstrAt(PcOf(r)) = "endpgm"

\* The pcs architecture_t::simulate may leave the wave at, or {NoAddr} when
\* set_state does not simulate.
SimTargets(w, r, s, exc) ==
  IF s = "SINGLE_STEP" /\ exc = {}
  THEN IF r.ds # NoAddr
       THEN IF dsBuf[Key(w, r.ds)].sim THEN Successors(r.ds) ELSE {NoAddr}
       ELSE IF InstrAt(PcOf(r)) \in Simulatable THEN Successors(PcOf(r))
       ELSE {NoAddr}
  ELSE {NoAddr}

\* A simulated instruction: simulate writes the pc and leaves the wave
\* stopped by a single-step; set_state re-reads the state and parks it.
Simulated(r, target) ==
  LET r1 == [WritePc(r, target) EXCEPT !.state = "STOP",
                                       !.reason = {"single_step"}]
  IN IF ParkStoppedWaves THEN Park(r1) ELSE r1

ConvertExceptionNoDMV(e, dmv) ==           \* mutant: device bit dropped
  CASE e = "WAVE_ABORT" -> {"queue_wave_abort"}
    [] e = "WAVE_TRAP" -> {"queue_wave_trap"}
    [] e = "WAVE_MATH_ERROR" -> {"queue_wave_math_error"}
    [] e = "WAVE_ILLEGAL_INSTRUCTION" -> {"queue_wave_illegal_instruction"}
    [] e = "WAVE_MEMORY_VIOLATION" -> {"queue_wave_memory_violation"}
    [] e = "WAVE_APERTURE_VIOLATION" -> {"queue_wave_aperture_violation"}

\* The OS exception mask for a set of client exceptions (convert_one_exception).
ConvertException(e, dmv) ==
  CASE e = "WAVE_ABORT" -> {"queue_wave_abort"}
    [] e = "WAVE_TRAP" -> {"queue_wave_trap"}
    [] e = "WAVE_MATH_ERROR" -> {"queue_wave_math_error"}
    [] e = "WAVE_ILLEGAL_INSTRUCTION" -> {"queue_wave_illegal_instruction"}
    [] e = "WAVE_MEMORY_VIOLATION" ->
         {"queue_wave_memory_violation"}
           \cup (IF dmv THEN {"device_memory_violation"} ELSE {})
    [] e = "WAVE_APERTURE_VIOLATION" -> {"queue_wave_aperture_violation"}
OsExceptions(exc, dmv) == UNION {ConvertException(e, dmv) : e \in exc}

\* The agent's device memory violation bit after wave w left STOP: cleared
\* unless some wave object of w's agent (all waves here) is stopped by a
\* memory violation.
DMVAfterResumeSameQueue(w, waves) ==       \* mutant: scans w's queue only
  agentDMV /\ \E x \in Waves : /\ waves[x].live /\ QueueOf[x] = QueueOf[w]
                               /\ waves[x].state = "STOP"
                               /\ "memory_violation" \in waves[x].reason

DMVAfterResume(w, waves) ==
  agentDMV /\ \E x \in Waves : /\ waves[x].live
                               /\ waves[x].state = "STOP"
                               /\ "memory_violation" \in waves[x].reason

\* terminate releases the displaced stepping buffer of the wave.
TerminateReleaseNone(w) == dsBuf            \* mutant: buffer not released

TerminateRelease(w) ==
  IF wv[w].ds # NoAddr THEN Release(Key(w, wv[w].ds)) ELSE dsBuf

\* wave_t::terminate, called from set_state (SINGLE_STEP): release the
\* displaced stepping, point the pc at s_endpgm, hide the wave and let it
\* run (set_state (RUN)); set_state then raises WAVE_COMMAND_TERMINATED.
Terminate(w) ==
  LET r0 == [wv[w] EXCEPT !.stopReq = FALSE]
      r1 == WritePc([r0 EXCEPT !.ds = NoAddr], TermAddr)
      r2 == [r1 EXCEPT !.vis = "hidden_at_terminating_instruction"]
      r3 == [Resumed(r2, "RUN") EXCEPT !.lastEv = NewEventId]
      waves == [wv EXCEPT ![w] = r3]
  IN /\ dsBuf' = TerminateRelease(w)
     /\ hw' = [hw EXCEPT ![w].mode = "RUN", ![w].reason = {}]
     /\ wv' = waves
     /\ events' = Append(events, NewEvent(w, "WAVE_COMMAND_TERMINATED"))
     /\ agentDMV' = DMVAfterResume(w, waves)
     /\ UNCHANGED sent

\* set_state raises an event for a requested stop and after a simulation.
RaisesEventSimOnly(s, simulated) == simulated  \* mutant: no event for a stop

RaisesEvent(s, simulated) == s = "STOP" \/ simulated

\* set_state when the new state differs and the step does not terminate:
\* wave_set_state, park or unpark, the stop event, simulation, the OS
\* exceptions and the device memory violation bit.
Transition(w, s, exc, target) ==
  LET prev == wv[w].state
      r0 == [wv[w] EXCEPT !.stopReq = (s = "STOP")]
      r1 == IF s = "STOP" THEN Stopped(r0) ELSE Resumed(r0, s)
      simulated == target # NoAddr
      r2 == IF simulated THEN Simulated(r1, target) ELSE r1
      raise == RaisesEvent(s, simulated)
      kind == IF s = "STOP" /\ prev = "SINGLE_STEP"
              THEN "WAVE_COMMAND_TERMINATED" ELSE "WAVE_STOP"
      waves == [wv EXCEPT ![w] = IF raise THEN [r2 EXCEPT !.lastEv = NewEventId]
                                          ELSE r2]
  IN /\ wv' = waves
     /\ hw' = [hw EXCEPT ![w].mode = IF simulated THEN "STOP" ELSE s,
                         ![w].reason = IF simulated THEN {"single_step"} ELSE {}]
     /\ events' = IF raise THEN Append(events, NewEvent(w, kind)) ELSE events
     /\ sent' = IF exc = {} THEN sent
                ELSE [sent EXCEPT ![QueueOf[w]] = OsExceptions(exc, agentDMV)]
     /\ agentDMV' = IF s # "STOP" THEN DMVAfterResume(w, waves) ELSE agentDMV
     /\ UNCHANGED dsBuf

SetState(w, s, exc) ==
  LET r == wv[w] IN
  \/ /\ s = r.state
     /\ UNCHANGED <<wv, hw, events, dsBuf, agentDMV, sent>>
  \/ /\ s # r.state
     /\ StepTerminates(r, s, exc)
     /\ Terminate(w)
  \/ /\ s # r.state
     /\ ~StepTerminates(r, s, exc)
     /\ \E target \in SimTargets(w, r, s, exc) : Transition(w, s, exc, target)

-----------------------------------------------------------------------------
(* Queue suspension and wave_t::update.                                     *)

\* Suspending queues makes every wave object of them due for an update.
Suspend(qs) ==
  /\ suspended' = [q \in Queues |-> suspended[q] \/ q \in qs]
  /\ toUpdate' = toUpdate \cup {w \in Waves : wv[w].live /\ QueueOf[w] \in qs}

\* update re-reads the state of a wave that was not stopped (prev_state).
ReadsHardwareRunOnly(w) == wv[w].state = "RUN"   \* mutant: SINGLE_STEP kept

ReadsHardware(w) == wv[w].state # "STOP"

\* update takes the stop reason of a wave that was running from the
\* hardware (architecture_t::wave_get_state).
UpdatedReasonCached(w) == wv[w].reason         \* mutant: the cached reason

UpdatedReason(w) == hw[w].reason

\* update raises WAVE_STOP for a visible wave that has just stopped with a
\* stop reason (the reason read from the hardware).
RaisesStopOldReason(w) ==                    \* mutant: the cached reason
  hw[w].mode = "STOP" /\ wv[w].vis = "visible" /\ wv[w].reason # {}

RaisesStop(w) ==
  hw[w].mode = "STOP" /\ wv[w].vis = "visible" /\ hw[w].reason # {}

\* The refresh of a suspended queue destroys the object of a wave that has
\* left the hardware; ~wave_t releases its displaced-stepping buffer (and
\* asserts that the queue is no longer valid).
Destroy(w) ==
  /\ w \in toUpdate
  /\ ~hw[w].alive
  /\ toUpdate' = toUpdate \ {w}
  /\ wv' = [wv EXCEPT ![w].live = FALSE, ![w].ds = NoAddr]
  /\ dsBuf' = IF wv[w].ds # NoAddr THEN Release(Key(w, wv[w].ds)) ELSE dsBuf
  /\ UNCHANGED <<hw, suspended, api, events, agentDMV, sent, progress, told>>

\* wave_t::update, by the refresh of its suspended queue: a wave that was
\* stopped keeps its state (the cache is only relocated); a wave that was
\* running reads its state from the hardware, and if it has just stopped it
\* is parked and a visible wave with a stop reason raises WAVE_STOP.
Update(w) ==
  LET r1 == [wv[w] EXCEPT !.state = hw[w].mode, !.reason = UpdatedReason(w)]
      r2 == IF hw[w].mode = "STOP" /\ ParkStoppedWaves THEN Park(r1) ELSE r1
  IN
  /\ w \in toUpdate
  /\ hw[w].alive
  /\ toUpdate' = toUpdate \ {w}
  /\ \/ /\ ~ReadsHardware(w)
        /\ UNCHANGED <<wv, events>>
     \/ /\ ReadsHardware(w)
        /\ wv' = [wv EXCEPT ![w] = IF RaisesStop(w)
                                    THEN [r2 EXCEPT !.lastEv = NewEventId]
                                    ELSE r2]
        /\ events' = IF RaisesStop(w) THEN Append(events, NewEvent(w, "WAVE_STOP"))
                     ELSE events
  /\ UNCHANGED <<hw, suspended, api, dsBuf, agentDMV, sent, progress, told>>

-----------------------------------------------------------------------------
(* The hardware: a wave of a queue that is not suspended executes the       *)
(* instruction at its pc.  A single-stepping wave halts after one           *)
(* instruction; traps halt it with their reason; s_endpgm ends it.          *)

Halt(w, reason) == hw' = [hw EXCEPT ![w].mode = "STOP", ![w].reason = reason]

Advance(w, next) ==
  /\ wv' = [wv EXCEPT ![w].pc = next]
  /\ IF hw[w].mode = "SINGLE_STEP" THEN Halt(w, {"single_step"})
                                   ELSE UNCHANGED hw

HwStep(w) ==
  LET p == wv[w].pc
      k == InstrAt(p)
  IN
  /\ hw[w].alive
  /\ hw[w].mode # "STOP"
  /\ ~hw[w].halt
  /\ ~suspended[QueueOf[w]]
  /\ \/ /\ k = "endpgm"
        /\ hw' = [hw EXCEPT ![w].alive = FALSE]
        /\ UNCHANGED wv
     \/ /\ k \in {"breakpoint", "trap", "illegal"}
        /\ Halt(w, CASE k = "breakpoint" -> {"breakpoint"}
                     [] k = "trap" -> {"trap"}
                     [] k = "illegal" -> {"illegal_instruction"})
        /\ UNCHANGED wv
     \/ /\ k = "load"
        /\ Halt(w, {"memory_violation"})
        /\ UNCHANGED wv
     \/ /\ k \in {"plain", "load", "branch"}
        /\ \E next \in (IF p \in CodeAddrs THEN Successors(p) ELSE {p + 1}) :
             Advance(w, next)
  /\ UNCHANGED <<suspended, toUpdate, api, events, dsBuf, agentDMV, sent,
                 progress, told>>

-----------------------------------------------------------------------------
(* The API calls.  amd_dbgapi_wave_stop and amd_dbgapi_wave_resume check    *)
(* the wave, suspend its queue unless it is already suspended (the refresh *)
(* then updates every wave of the queue), look the wave up again, call     *)
(* set_state, and resume the queue if they suspended it.                   *)

\* The pc a displaced step starts from.  The client completes a displaced
\* step before it resumes the wave again, so it only resumes a displaced
\* wave that is still there.
DisplacedPc(w) == LET b == dsBuf[Key(w, wv[w].ds)] IN
                  IF b.sim THEN wv[w].ds ELSE b.to

OwnSuspension(w) == IF suspended[QueueOf[w]] THEN {} ELSE {QueueOf[w]}

StopBegin(w) ==
  /\ api.op = "idle"
  /\ Find(w)
  /\ ClientVisibleState(w) # "STOP"
  /\ ~wv[w].stopReq
  /\ Suspend(OwnSuspension(w))
  /\ api' = [op |-> "stop", w |-> w, mode |-> "STOP", exc |-> {},
             qs |-> OwnSuspension(w)]
  /\ UNCHANGED <<wv, hw, events, dsBuf, agentDMV, sent, progress, told>>

\* The checks of amd_dbgapi_wave_resume: the last stop event is processed
\* (processed events are destroyed) and a displaced wave single-steps.
StopEventReported(w) ==                      \* mutant: reported is enough
  LiveEvent(wv[w].lastEv) => EventOf(wv[w].lastEv).st = "reported"

StopEventProcessed(w) == ~LiveEvent(wv[w].lastEv)

ResumeModeAny(w, mode) == TRUE               \* mutant: check dropped

ResumeModeAllowed(w, mode) == wv[w].ds # NoAddr => mode = "SINGLE_STEP"

ResumeBegin(w, mode, exc) ==
  /\ api.op = "idle"
  /\ Find(w)
  /\ ClientVisibleState(w) = "STOP"
  /\ StopEventProcessed(w)
  /\ ResumeModeAllowed(w, mode)
  /\ wv[w].ds # NoAddr => PcOf(wv[w]) = DisplacedPc(w)
  /\ Suspend(OwnSuspension(w))
  /\ api' = [op |-> "resume", w |-> w, mode |-> mode, exc |-> exc,
             qs |-> OwnSuspension(w)]
  /\ UNCHANGED <<wv, hw, events, dsBuf, agentDMV, sent, progress, told>>

CallEndNoRefind ==                           \* mutant: no second find
  /\ api.op \in {"stop", "resume"}
  /\ toUpdate = {}
  /\ SetState(api.w, api.mode, api.exc)
  /\ suspended' = [q \in Queues |-> suspended[q] /\ q \notin api.qs]
  /\ api' = Idle
  /\ told' = [told EXCEPT ![api.w] = @ /\ wv'[api.w].state = "STOP"
                                      /\ wv'[api.w].lastEv = wv[api.w].lastEv]
  /\ UNCHANGED <<toUpdate, progress>>

\* The second half of stop and resume, once the refresh has updated the
\* waves of the suspended queue.
CallEnd ==
  /\ api.op \in {"stop", "resume"}
  /\ toUpdate = {}
  /\ \/ Find(api.w) /\ SetState(api.w, api.mode, api.exc)
     \/ ~Find(api.w) /\ UNCHANGED <<wv, hw, events, dsBuf, agentDMV, sent>>
  /\ suspended' = [q \in Queues |-> suspended[q] /\ q \notin api.qs]
  /\ api' = Idle
  /\ told' = [told EXCEPT ![api.w] = @ /\ wv'[api.w].state = "STOP"
                                      /\ wv'[api.w].lastEv = wv[api.w].lastEv]
  /\ UNCHANGED <<toUpdate, progress>>

\* amd_dbgapi_process_wave_list: suspend every queue not yet suspended,
\* and, if forward progress is needed, remember them as the queues to
\* resume once the waves are listed.
NeedingResumeNone(qs) == {}                    \* mutant: never resumed

NeedingResume(qs) == IF progress THEN qs ELSE {}

ListBegin ==
  LET qs == {q \in Queues : ~suspended[q]} IN
  /\ api.op = "idle"
  /\ Suspend(qs)
  /\ api' = [Idle EXCEPT !.op = "list", !.qs = NeedingResume(qs)]
  /\ UNCHANGED <<wv, hw, events, dsBuf, agentDMV, sent, progress, told>>

\* The process handles a driver event for a queue whose wave has trapped:
\* it records a memory violation as the agent's device_memory_violation
\* exception and suspends the queue to refresh its waves.
DriverEvent(q) ==
  LET trapped == {w \in Waves : /\ QueueOf[w] = q /\ wv[w].live /\ hw[w].alive
                                /\ hw[w].mode = "STOP" /\ wv[w].state # "STOP"}
  IN
  /\ api.op = "idle"
  /\ ~suspended[q]
  /\ trapped # {}
  /\ agentDMV' = (agentDMV \/ \E w \in trapped : "memory_violation" \in hw[w].reason)
  /\ Suspend({q})
  /\ api' = [Idle EXCEPT !.op = "event", !.qs = NeedingResume({q})]
  /\ UNCHANGED <<wv, hw, events, dsBuf, sent, progress, told>>

RefreshEnd ==
  /\ api.op \in {"list", "event"}
  /\ toUpdate = {}
  /\ suspended' = [q \in Queues |-> suspended[q] /\ q \notin api.qs]
  /\ api' = Idle
  /\ UNCHANGED <<wv, hw, toUpdate, events, dsBuf, agentDMV, sent, progress, told>>

\* wave_t::displaced_stepping_start on a stopped wave at a breakpoint: share
\* the buffer of another wave of the queue at the same pc, or create one
\* that simulates the original instruction or holds a copy of it in a
\* fresh scratch buffer; a non-simulated step moves the pc to the copy.
DisplacedStart(w) ==
  LET r == wv[w]
      from == PcOf(r)
      k == Key(w, from)
      Started(b) == [IF b.sim THEN r ELSE WritePc(r, b.to) EXCEPT !.ds = from]
  IN
  /\ api.op = "idle"
  /\ Find(w)
  /\ ClientVisibleState(w) = "STOP"
  /\ r.ds = NoAddr
  /\ from \in Breakpoints
  /\ \/ /\ dsBuf[k].rc > 0
        /\ dsBuf' = Retain(k)
        /\ wv' = [wv EXCEPT ![w] = Started(dsBuf[k])]
     \/ /\ dsBuf[k].rc = 0
        /\ Code[from] \in Simulatable
        /\ dsBuf' = [dsBuf EXCEPT ![k] = [rc |-> 1, to |-> NoAddr, sim |-> TRUE]]
        /\ wv' = [wv EXCEPT ![w] = Started(dsBuf'[k])]
     \/ /\ dsBuf[k].rc = 0
        /\ Code[from] \notin Simulatable
        /\ Code[from] \in Displaceable
        /\ \E to \in FreeScratch :
             dsBuf' = [dsBuf EXCEPT ![k] = [rc |-> 1, to |-> to, sim |-> FALSE]]
        /\ wv' = [wv EXCEPT ![w] = Started(dsBuf'[k])]
  /\ UNCHANGED <<hw, suspended, toUpdate, api, events, agentDMV, sent, progress, told>>

\* The pc in the original code for a pc in the displaced buffer.
RestoredPcSwapped(pc, from, to) == pc + to - from   \* mutant: swapped

RestoredPc(pc, from, to) == pc + from - to

\* wave_t::displaced_stepping_complete: move the pc back from the copy to
\* the original code (from + (pc - to)) and release the buffer.
DisplacedComplete(w) ==
  LET r == wv[w]
      b == dsBuf[Key(w, r.ds)]
      r1 == IF b.sim THEN r ELSE WritePc(r, RestoredPc(PcOf(r), r.ds, b.to))
  IN
  /\ api.op = "idle"
  /\ Find(w)
  /\ ClientVisibleState(w) = "STOP"
  /\ r.ds # NoAddr
  /\ wv' = [wv EXCEPT ![w] = [r1 EXCEPT !.ds = NoAddr]]
  /\ dsBuf' = Release(Key(w, r.ds))
  /\ UNCHANGED <<hw, suspended, toUpdate, api, events, agentDMV, sent, progress, told>>

\* wave_t::write_register (pc) on a stopped wave.  The client does not move
\* the pc of a wave in the middle of a displaced step.
WritePcCall(w, v) ==
  /\ api.op = "idle"
  /\ Find(w)
  /\ ClientVisibleState(w) = "STOP"
  /\ wv[w].ds = NoAddr
  /\ wv' = [wv EXCEPT ![w] = WritePc(@, v)]
  /\ UNCHANGED <<hw, suspended, toUpdate, api, events, dsBuf, agentDMV,
                 sent, progress, told>>

\* wave_t::set_visibility: a wave that was halted at launch is unhalted
\* (architecture_t::wave_set_halt (false)) before its visibility changes.
UnhaltNone(w) == hw                            \* mutant: left halted

Unhalt(w) == IF wv[w].vis = "hidden_halted_at_launch"
             THEN [hw EXCEPT ![w].halt = FALSE] ELSE hw

\* The process releases a wave halted at launch once the client lets
\* waves launch normally: set_visibility (visible).
SetVisibility(w, v) ==
  /\ api.op = "idle"
  /\ wv[w].live
  /\ wv[w].vis = "hidden_halted_at_launch"
  /\ wv[w].vis # v
  /\ hw' = Unhalt(w)
  /\ wv' = [wv EXCEPT ![w].vis = v]
  /\ UNCHANGED <<suspended, toUpdate, api, events, dsBuf, agentDMV, sent,
                 progress, told>>

-----------------------------------------------------------------------------
(* The client's event loop: it reports the oldest pending event and later  *)
(* marks reported events processed, which destroys them; it may switch the *)
(* forward-progress mode, which resumes every queue when it is turned on.  *)

ReportEvent ==
  LET i == SelectInSeq(events, LAMBDA e : e.st = "pending") IN
  /\ api.op = "idle"
  /\ i # 0
  /\ events' = [events EXCEPT ![i].st = "reported"]
  /\ told' = [told EXCEPT ![events[i].w] =
                 @ \/ (events[i].id = wv[events[i].w].lastEv
                      /\ wv[events[i].w].state = "STOP")]
  /\ UNCHANGED <<wv, hw, suspended, toUpdate, api, dsBuf, agentDMV,
                 sent, progress>>

ProcessEvent(i) ==
  /\ api.op = "idle"
  /\ events[i].st = "reported"
  /\ events' = RemoveAt(events, i)
  /\ UNCHANGED <<wv, hw, suspended, toUpdate, api, dsBuf, agentDMV,
                 sent, progress, told>>

SetProgress(b) ==
  /\ api.op = "idle"
  /\ progress' = b
  /\ suspended' = IF b THEN [q \in Queues |-> FALSE] ELSE suspended
  /\ UNCHANGED <<wv, hw, toUpdate, api, events, dsBuf, agentDMV, sent, told>>

-----------------------------------------------------------------------------

\* The waves have been created and updated once while running; the queues
\* run again.  A wave created while the process launches waves halted is
\* hidden and halted in the hardware.
Init ==
  /\ \E launch \in [Waves -> LaunchVisibilities] :
       /\ wv = [w \in Waves |->
                  [live |-> TRUE, state |-> "RUN", reason |-> {}, stopReq |-> FALSE,
                   parked |-> FALSE, parkedPc |-> NoAddr, pc |-> 1,
                   vis |-> launch[w], ds |-> NoAddr, lastEv |-> NoEvent]]
       /\ hw = [w \in Waves |-> [alive |-> TRUE, mode |-> "RUN", reason |-> {},
                                  halt |-> launch[w] = "hidden_halted_at_launch"]]
  /\ suspended = [q \in Queues |-> FALSE]
  /\ toUpdate = {}
  /\ api = Idle
  /\ events = <<>>
  /\ dsBuf = [k \in Queues \X CodeAddrs |-> NoBuf]
  /\ agentDMV = FALSE
  /\ sent = [q \in Queues |-> {}]
  /\ progress = TRUE
  /\ told = [w \in Waves |-> FALSE]

Next ==
  \/ \E w \in Waves : \/ Destroy(w) \/ Update(w) \/ HwStep(w) \/ StopBegin(w)
                    \/ DisplacedStart(w) \/ DisplacedComplete(w)
  \/ \E w \in Waves, mode \in {"RUN", "SINGLE_STEP"}, exc \in ResumeExceptions :
       ResumeBegin(w, mode, exc)
  \/ \E w \in Waves, v \in ClientPcs : WritePcCall(w, v)
  \/ CallEnd \/ ListBegin \/ RefreshEnd \/ ReportEvent
  \/ \E q \in Queues : DriverEvent(q)
  \/ \E i \in 1..Len(events) : ProcessEvent(i)
  \/ \E b \in ProgressModes : SetProgress(b)
  \/ \E w \in Waves : SetVisibility(w, "visible")

\* The library finishes the calls it started and the refresh of a queue;
\* the hardware runs the waves of a queue that is resumed again and again;
\* the process handles the driver events of such a queue.  The client is
\* not assumed to do anything.
Fairness ==
  /\ \A w \in Waves : WF_vars(Destroy(w)) /\ WF_vars(Update(w)) /\ SF_vars(HwStep(w))
  /\ WF_vars(CallEnd) /\ WF_vars(RefreshEnd)
  /\ \A q \in Queues : SF_vars(DriverEvent(q))

Spec == Init /\ [][Next]_vars /\ Fairness

-----------------------------------------------------------------------------
(* Properties.                                                              *)

TypeOK ==
  /\ wv \in [Waves -> [live : BOOLEAN, state : States, reason : SUBSET Reasons,
                       stopReq : BOOLEAN, parked : BOOLEAN,
                       parkedPc : Addrs \cup {NoAddr}, pc : Addrs,
                       vis : Visibilities, ds : CodeAddrs \cup {NoAddr},
                       lastEv : EventIds \cup {NoEvent}]]
  /\ hw \in [Waves -> [alive : BOOLEAN, mode : States, reason : SUBSET Reasons,
                       halt : BOOLEAN]]
  /\ suspended \in [Queues -> BOOLEAN]
  /\ toUpdate \subseteq Waves
  /\ api.op \in {"idle", "stop", "resume", "list", "event"}
  /\ events \in Seq([id : EventIds, w : Waves, kind : EventKinds,
                     st : {"pending", "reported"}])
  /\ dsBuf \in [Queues \X CodeAddrs -> [rc : 0..Cardinality(Waves),
                                        to : Scratch \cup {NoAddr},
                                        sim : BOOLEAN]]
  /\ agentDMV \in BOOLEAN
  /\ sent \in [Queues -> SUBSET OsExceptionBits]
  /\ progress \in BOOLEAN
  /\ told \in [Waves -> BOOLEAN]

\* client_visible_state reports a wave stopped only once the client has
\* been given the event of that stop (update, set_state and the simulation
\* path each raise one, and raise_event records it as the last stop event).
StopSeenOnlyWhenReported ==
  \A w \in Waves : Find(w) /\ ClientVisibleState(w) = "STOP" => told[w]

\* A wave never has two live stop events: resume refuses a wave whose last
\* stop event is not yet processed, so no stop is stacked on an unseen one.
OneLiveStopEvent ==
  \A w \in Waves : Cardinality({i \in 1..Len(events) : events[i].w = w}) <= 1

\* The reference count of a displaced-stepping buffer is the number of
\* waves of its queue stepping from its pc (start, complete, terminate and
\* the destructor retain and release it).
DisplacedRefcount ==
  \A k \in DOMAIN dsBuf :
    dsBuf[k].rc = Cardinality({w \in Waves : /\ wv[w].live
                                             /\ wv[w].ds # NoAddr
                                             /\ Key(w, wv[w].ds) = k})

\* A displaced-stepping wave is never running freely, neither in the
\* library nor in the hardware (resume insists on SINGLE_STEP).
DisplacedNeverRuns ==
  \A w \in Waves : wv[w].live /\ wv[w].ds # NoAddr =>
                     wv[w].state # "RUN" /\ hw[w].mode # "RUN"

\* Parking: a wave is parked exactly when it is stopped on a parking
\* architecture, a parked wave sits on the park instruction, and the pc the
\* client reads and the hardware resumes from is never the park address.
ParkedPcCoherent ==
  \A w \in Waves : wv[w].live =>
    /\ wv[w].parked = (ParkStoppedWaves /\ wv[w].state = "STOP")
    /\ wv[w].parked => wv[w].pc = ParkAddr
    /\ PcOf(wv[w]) # ParkAddr

\* The agent's device memory violation bit is never cleared while a wave of
\* the agent stays stopped by a memory violation: set_state of any wave of
\* any queue clears it only when "there are no more waves on this agent
\* with a memory violation".
MVStopped(waves, w) ==
  waves[w].live /\ waves[w].state = "STOP" /\ "memory_violation" \in waves[w].reason

DeviceMemoryViolationKept ==
  [][agentDMV /\ (\E w \in Waves : MVStopped(wv, w) /\ MVStopped(wv', w))
       => agentDMV']_vars

\* A wave stopped by a memory violation and resumed with the memory
\* violation exception while the agent holds device_memory_violation
\* passes that exception on to the OS: set_state converts the exceptions
\* before it clears the agent's bit on leaving STOP.
ExceptionKeepsDMV ==
  [][\A w \in Waves :
       (/\ api.op = "resume" /\ api.w = w /\ api'.op = "idle"
        /\ "WAVE_MEMORY_VIOLATION" \in api.exc
        /\ agentDMV /\ MVStopped(wv, w) /\ wv'[w].state # "STOP")
       => "device_memory_violation" \in sent'[QueueOf[w]]]_vars

\* ~wave_t asserts that a wave leaving the process is not displaced
\* stepping while its queue is still valid.
NoDestroyWhileDisplaced ==
  [][\A w \in Waves : wv[w].live /\ ~wv'[w].live => wv[w].ds = NoAddr]_vars

\* A wave object destroyed by a refresh is never used again: a stop or
\* resume whose wave left the hardware between the call's checks and the
\* queue suspension finds it gone after the refresh (lines 1082, 1138) and
\* neither sets its state, nor writes its hardware wave, nor raises an
\* event for it.
DestroyedWaveUntouched ==
  [][\A w \in Waves : ~wv[w].live =>
        /\ wv'[w] = wv[w] /\ hw'[w] = hw[w]
        /\ \A i \in (Len(events) + 1)..Len(events') : events'[i].w # w]_vars

\* The assertion of set_visibility and the spec's invariant for a wave
\* halted at launch: it is hidden exactly while the hardware holds it
\* halted, and it stays RUN (the client cannot find it to stop it, and
\* update reads a halted wave as running) until it is released.
LaunchHaltCoherent ==
  \A w \in Waves : wv[w].live =>
    /\ (wv[w].vis = "hidden_halted_at_launch") = hw[w].halt
    /\ wv[w].vis = "hidden_halted_at_launch" => wv[w].state = "RUN"

\* amd_dbgapi_wave_get_info (STOP_REASON) answers for a wave the client
\* sees stopped with a stop reason, unless the client itself asked for
\* the stop (set_state (STOP) clears the reason and sets m_stop_requested):
\* the reason read by update, kept through a stop call that finds the wave
\* already stopped, and cleared on every resume.
StopReasonExplained ==
  \A w \in Waves : InfoStatus(w, "STOP_REASON") = "SUCCESS" =>
    InfoValue(w, "STOP_REASON") # {} \/ wv[w].stopReq

\* Every stop reaches the library: a wave resumed in single-step mode, or
\* halted by the hardware (a breakpoint, trap or memory violation) while
\* the library thinks it runs, is eventually seen stopped by the library
\* (which raises its stop event) or leaves the hardware.  The hardware
\* executes the step, the process handles the driver event and suspends
\* the queue, and update reads the wave's state.
StopsReachLibrary ==
  \A w \in Waves :
    (wv[w].live /\ (wv[w].state = "SINGLE_STEP"
                    \/ (hw[w].mode = "STOP" /\ wv[w].state # "STOP")))
      ~> (wv[w].state = "STOP" \/ ~hw[w].alive)
\* While forward progress is needed, no queue stays suspended: every API
\* call, wave-list refresh and driver-event refresh that suspends a queue
\* resumes it, so the hardware gets to run the queue's waves again.
QueueSuspensionEnds ==
  \A q \in Queues : suspended[q] ~> ~suspended[q]

-----------------------------------------------------------------------------
(* Refinement: what the client sees.  A wave shows client_visible_state    *)
(* while it can be found, HIDDEN while it is halted at launch and GONE     *)
(* after; the stop or resume call in progress is the API call.  CoarseView *)
(* shows RUN and SINGLE_STEP alike as ACTIVE; FineView tells them apart.   *)

ShownState(w) ==
  IF Find(w) THEN ClientVisibleState(w)
  ELSE IF wv[w].live /\ wv[w].vis = "hidden_halted_at_launch" THEN "HIDDEN"
  ELSE "GONE"

Active(s) == IF s \in {"RUN", "SINGLE_STEP"} THEN "ACTIVE" ELSE s

ShownCall(Shown(_)) ==
  IF api.op \in {"stop", "resume"}
  THEN [op |-> api.op, w |-> api.w, mode |-> Shown(api.mode)]
  ELSE [op |-> "none", w |-> "none", mode |-> "none"]

CoarseView == INSTANCE ClientWave
                WITH Running <- {"ACTIVE"},
                     view <- [w \in Waves |-> Active(ShownState(w))],
                     call <- ShownCall(Active)

FineView == INSTANCE ClientWave
              WITH Running <- {"RUN", "SINGLE_STEP"},
                   view <- [w \in Waves |-> ShownState(w)],
                   call <- ShownCall(LAMBDA m : m)

\* WaveControl implements ClientWave: a wave is shown stopped only when the
\* client is told of its stop outside any call, a stop call shows nothing
\* by itself, a shown stop ends only by the client's resume of that wave,
\* and a wave that is gone stays gone (update, set_state, the event loop
\* and the destructor together).
ImplementsClientView == CoarseView!Spec

\* client_visible_state's comment: while a stop is not yet reported, it
\* returns "the last resumed state", so a single-stepping wave keeps
\* showing SINGLE_STEP until the client is told it stopped.
ShowsLastResumedState == FineView!Spec
=============================================================================
