\* Calls of the node fail again and again and the connection is lost once.
SPECIFICATION FairSpec
CONSTANTS
    StartHeight = 0
    Window = 1
    ErrorLimit = 0
    MaxForkDepth = 2
    DecodePayloads = FALSE
    PassBatch = 1
    Bad = {}
    Faults = {"transient"}
    MaxHeight = 1
    MaxReorgs = 0
    MaxRestarts = 0
    MaxLosses = 1
    MaxGen = 0
PROPERTY FinalizedIsIndexed
\* The chain ends at MaxHeight, and a halted or stopped crawler does nothing more.
CHECK_DEADLOCK FALSE
