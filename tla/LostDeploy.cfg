\* One process; a sponsored deploy whose worker exits after the announcement.
SPECIFICATION Spec
CONSTANTS
    Procs = {p1}
    Txs = {t1, t2}
    NoTx = NoTx
    NoOwner = NoOwner
    WorkerId <- MCWorkerId
    MaxReclaims = 1
    MaxRestarts = 0
    MaxReorgs = 0
    DbMayFail = FALSE
SYMMETRY Symmetry
CHECK_DEADLOCK FALSE
INVARIANT LostDeployRefunded
