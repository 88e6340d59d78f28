SPECIFICATION Spec
CONSTANTS
  Harts = {0, 1}
  HartSels = {0, 1, 2}
  progbufsize = 1
  Data = {0, 1}
  UserPrograms = {"nop", "fault"}
  Junk = 2
  Debuggers <- MCDebuggers
  StepsEbreak = TRUE
INVARIANT ReturnsToProgram
