\* The comment of client_visible_state: RUN and SINGLE_STEP told apart.
CONSTANTS
  w1 = w1
  w2 = w2
  q1 = q1
  q2 = q2
  Waves <- MCWaves
  Queues <- MCQueues
  QueueOf <- MCQueueOf
  Code <- MCCode2
  Breakpoints <- MCBreakpoints2
  BranchTargets <- MCBranchTargets2
  Scratch <- MCScratch
  ParkAddr = 30
  TermAddr = 40
  ParkStoppedWaves = TRUE
  EventIds <- MCEventIds
  ClientPcs = {}
  ResumeExceptions <- MCNoExceptions
  ProgressModes = {TRUE, FALSE}
  LaunchVisibilities = {"visible"}

SYMMETRY WaveSymmetry
SPECIFICATION Spec

PROPERTY ShowsLastResumedState
