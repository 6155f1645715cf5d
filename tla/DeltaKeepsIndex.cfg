\* A server that keeps the states of contract actions is upgraded.
SPECIFICATION DeltaSpec
CONSTANTS
    Models <- ReleaseModels
    Required <- ProbedColumns
    Indexes <- SecondaryIndexes
    Firsts <- OldDatabases
    Ids = {1, 2}
    Values = {1, 2}
    KeepsHistory = TRUE
INVARIANT OnlyLossyIsCleared
\* The last release is upgraded no more.
CHECK_DEADLOCK FALSE
