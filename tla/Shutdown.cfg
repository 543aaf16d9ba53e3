SPECIFICATION FairSpec
CONSTANT Wait <- TenSeconds
INVARIANTS
  ThreadGoneFirst
  SectionsReadyUnlessSlow
  RunsHooked
PROPERTY QuitEnds
CHECK_DEADLOCK FALSE
