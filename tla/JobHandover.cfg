\* A second process takes the database over while the first one may still be running.
SPECIFICATION Spec
CONSTANTS
    Procs = {p1, p2}
    Txs = {t1, t2}
    NoTx = NoTx
    NoOwner = NoOwner
    WorkerId <- MCWorkerId
    MaxReclaims = 1
    MaxRestarts = 1
    MaxReorgs = 0
    DbMayFail = FALSE
SYMMETRY Symmetry
CHECK_DEADLOCK FALSE
INVARIANTS
    TypeOK
    OnlyJobHashCanLand
    NoReplayAfterSend
    NothingSentIsTrue
    ChargedOnce
PROPERTY FinishedIsFinal
