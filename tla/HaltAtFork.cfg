\* The node changes its chain before the crawler follows its heads.
SPECIFICATION Spec
CONSTANTS
    StartHeight = 0
    Window = 1
    ErrorLimit = 2
    MaxForkDepth = 2
    DecodePayloads = FALSE
    PassBatch = 1
    Bad = {}
    Faults = {}
    MaxHeight = 2
    MaxReorgs = 1
    MaxRestarts = 0
    MaxLosses = 1
    MaxGen = 3
INVARIANT HaltedMeansBadBlock
\* The chain ends at MaxHeight, and a halted or stopped crawler does nothing more.
CHECK_DEADLOCK FALSE
