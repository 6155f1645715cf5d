\* A chain that never changes, with one block that cannot be indexed, a lost connection and a restart.
SPECIFICATION Spec
CONSTANTS
    StartHeight = 0
    Window = 2
    ErrorLimit = 2
    MaxForkDepth = 2
    DecodePayloads = FALSE
    PassBatch = 1
    Bad = {2}
    Faults = {"transient"}
    MaxHeight = 2
    MaxReorgs = 0
    MaxRestarts = 1
    MaxLosses = 1
    MaxGen = 1
INVARIANT HaltedMeansBadBlock
\* The chain ends at MaxHeight, and a halted or stopped crawler does nothing more.
CHECK_DEADLOCK FALSE
