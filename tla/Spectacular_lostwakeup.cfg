CONSTANTS
  Dancers = {d1, d2}
  Jugglers = {j1}
  Soloists = {s1}
  Nobody = Nobody
  STAGESIZE = 2
  MAXIMUM_CONSECUTIVE_PERFORMANCES = 2
  TOTAL_PERFORMANCES = 3
  SpuriousWakeups = FALSE
SPECIFICATION FairSpec
PROPERTY DancersAndSoloistsReturn
CHECK_DEADLOCK FALSE
