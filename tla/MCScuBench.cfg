\* TLC configuration of MCScuBench.
CONSTANTS
    Junk = Junk
    MaxTime <- MCMaxTime
    Warmups <- MCWarmups
    Iterations <- MCIterations
SPECIFICATION FairSpec
INVARIANTS TypeOK SamplesCoverBlocks ArraysFreedOnce ReportRight
PROPERTIES Finishes
CHECK_DEADLOCK FALSE
