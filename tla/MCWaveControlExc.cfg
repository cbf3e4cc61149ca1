\* One wave that the client may resume with the memory violation exception.
CONSTANTS
  w1 = w1
  w2 = w2
  q1 = q1
  q2 = q2
  Waves <- MCWaves1
  Queues <- MCQueues
  QueueOf <- MCQueueOf1
  Code <- MCCode
  Breakpoints <- MCBreakpoints
  BranchTargets <- MCBranchTargets
  Scratch <- MCScratch
  ParkAddr = 30
  TermAddr = 40
  ParkStoppedWaves = TRUE
  EventIds <- MCEventIds1
  ClientPcs = {1}
  ResumeExceptions <- MCResumeExceptions
  ProgressModes = {TRUE, FALSE}
  LaunchVisibilities = {"visible"}

SPECIFICATION Spec

PROPERTY ExceptionKeepsDMV
