\* One wave, register values 0 and 1, with and without the hardware setting up the ttmps.
CONSTANTS
  Values = {0, 1}
SPECIFICATION Spec
INVARIANT TypeOK
INVARIANT ReadsSeeWrites
PROPERTY WritesReachHardware
