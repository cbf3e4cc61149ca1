\* Two waves on two queues of one agent: a resume of one wave, which
\* suspends only its own queue, decides whether the agent's device memory
\* violation is still owned by some wave.  No breakpoint on s_endpgm, so a
\* wave can leave the hardware while a stop or resume on it is in flight.
CONSTANTS
  w1 = w1
  w2 = w2
  q1 = q1
  q2 = q2
  Waves <- MCWaves
  Queues <- MCQueues2
  QueueOf <- MCQueueOf2
  Code <- MCCode2
  Breakpoints <- MCBreakpoints2
  BranchTargets <- MCBranchTargets2
  Scratch <- MCScratch
  ParkAddr = 30
  TermAddr = 40
  ParkStoppedWaves = TRUE
  EventIds <- MCEventIds
  ClientPcs = {1}
  ResumeExceptions <- MCNoExceptions
  ProgressModes = {TRUE}
  LaunchVisibilities = {"visible"}

SPECIFICATION Spec

PROPERTY DeviceMemoryViolationKept
PROPERTY DestroyedWaveUntouched
