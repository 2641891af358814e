CONSTANTS
  Dancers = {d1, d2, d3}
  Jugglers = {j1}
  Soloists = {s1, s2}
  Nobody = Nobody
  STAGESIZE = 2
  MAXIMUM_CONSECUTIVE_PERFORMANCES = 3
  TOTAL_PERFORMANCES = 5
  SpuriousWakeups = TRUE
SPECIFICATION FairSpec
INVARIANTS TypeOK SpotOwnership PerformanceSafety OpenersAwake MaximumParallelism
PROPERTIES ImplementsShow ShowCompletes
CHECK_DEADLOCK FALSE
