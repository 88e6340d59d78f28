SPECIFICATION FairSpec
CONSTANTS
  Harts = {0, 1}
  HartSels = {0, 1, 2}
  progbufsize = 1
  Data = {0, 1}
  UserPrograms = {"nop", "fault"}
  Junk = 2
  Debuggers <- MCDebuggers
  StepsEbreak = FALSE
INVARIANTS DebugTypeOK HaltedHartsAreInDebugMode AckFollowsResume BusyWhileCommandRuns S0Preserved SingleStepExecutesOne
PROPERTIES CommandsTakeEffect LockedModuleLeavesHarts CommandsFinish ResumesWhenAsked
