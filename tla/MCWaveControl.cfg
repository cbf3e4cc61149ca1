CONSTANTS
  w1 = w1
  w2 = w2
  q1 = q1
  q2 = q2
  Waves <- MCWaves
  Queues <- MCQueues
  QueueOf <- MCQueueOf
  Code <- MCCode
  Breakpoints <- MCBreakpoints
  BranchTargets <- MCBranchTargets
  Scratch <- MCScratch
  ParkAddr = 30
  TermAddr = 40
  ParkStoppedWaves = TRUE
  EventIds <- MCEventIds
  ClientPcs = {1}
  ResumeExceptions <- MCNoExceptions
  ProgressModes = {TRUE, FALSE}
  LaunchVisibilities = {"visible"}


SYMMETRY WaveSymmetry
SPECIFICATION Spec

INVARIANT TypeOK
INVARIANT StopSeenOnlyWhenReported
INVARIANT OneLiveStopEvent
INVARIANT DisplacedRefcount
INVARIANT DisplacedNeverRuns
INVARIANT ParkedPcCoherent
INVARIANT StopReasonExplained

PROPERTY NoDestroyWhileDisplaced
