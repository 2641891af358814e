SPECIFICATION FairSpec
CONSTANTS
  Pids <- MCPids
  Root <- MCRoot
  Numbers <- MCNumbers
  Sizes <- MCSizes
INVARIANTS
  TypeOK
  RaceTable
  OneAtATime
  LeavesNoProcess
  CodesRead
PROPERTY
  Ends
CHECK_DEADLOCK FALSE
