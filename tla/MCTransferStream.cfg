\* Directories, empty files and files of several chunks, two failures.
SPECIFICATION FairSpec
CONSTANTS
  Batches <- MixedBatches
  KernelRoom = 1
  MaxFaults = 2
INVARIANT TypeOK
INVARIANT NeverGarbled
INVARIANT DoneIsComplete
PROPERTY ClientEnds
PROPERTY ServerEnds
CHECK_DEADLOCK FALSE
