\* Fetching, storing and the trailing pass overlap a fork, its rollback, a restart and the admin calls.
SPECIFICATION Spec
CONSTANTS
    StartHeight = 1
    Window = 2
    ErrorLimit = 0
    MaxForkDepth = 2
    DecodePayloads = TRUE
    PassBatch = 1
    Bad = {}
    Faults = {}
    MaxHeight = 2
    MaxReorgs = 1
    MaxRestarts = 1
    MaxLosses = 0
    MaxGen = 1
INVARIANT IndexIsChain
INVARIANT PassCoversIndex
PROPERTY IndexPromise
\* The chain ends at MaxHeight, and a halted or stopped crawler does nothing more.
CHECK_DEADLOCK FALSE
