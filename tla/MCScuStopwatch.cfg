\* TLC configuration of MCScuStopwatch.
CONSTANTS
    MaxTime <- MCMaxTime
SPECIFICATION StopwatchSpec
INVARIANTS StopwatchTypeOK CountsItsRuns
