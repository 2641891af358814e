CONSTANTS
  MaxJobs = 4
  Lengths = {0, 1, 2, 3}
  Slices = {0, 1, 2}
SPECIFICATION FairSpec
INVARIANTS
  TypeOK ListsInOrder LastIsBack WaitAccounted ResponseWithinSlices
  ReportInOrder EndsOnlyWithProgress EqualTimesWorkload PoliciesAgree
  AveragesAddUp ShortestFirstIsBest
PROPERTIES Terminates ImplementsDispatch
CHECK_DEADLOCK FALSE
