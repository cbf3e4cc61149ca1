\* Refinement of ClientWave: two waves of one queue, forward progress on and off.
CONSTANTS
  w1 = w1
  w2 = w2
  q1 = q1
  q2 = q2
  Waves <- MCWaves
  Queues <- MCQueues
  QueueOf <- MCQueueOf
  Code <- MCCode2
  Breakpoints <- MCBreakpoints2
  BranchTargets <- MCBranchTargets2
  Scratch <- MCScratch
  ParkAddr = 30
  TermAddr = 40
  ParkStoppedWaves = TRUE
  EventIds <- MCEventIds
  ClientPcs = {}
  ResumeExceptions <- MCNoExceptions
  ProgressModes = {TRUE, FALSE}
  LaunchVisibilities = {"visible", "hidden_halted_at_launch"}

SYMMETRY WaveSymmetry
SPECIFICATION Spec

INVARIANT LaunchHaltCoherent
PROPERTY ImplementsClientView
