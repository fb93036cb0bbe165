SPECIFICATION Spec
CONSTANTS MaxRuns <- MCMaxRuns
INVARIANT Readable
CHECK_DEADLOCK FALSE
