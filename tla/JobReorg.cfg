\* One process that restarts, two reorgs that move the job's transaction, failing writes, and the fairness the
\* schedulers give.
SPECIFICATION FairSpec
CONSTANTS
    Procs = {p1}
    Txs = {t1, t2}
    NoTx = NoTx
    NoOwner = NoOwner
    WorkerId <- MCWorkerId
    MaxReclaims = 1
    MaxRestarts = 1
    MaxReorgs = 2
    DbMayFail = TRUE
CHECK_DEADLOCK FALSE
INVARIANTS
    SendIsSafe
    OutcomeIsCurrent
PROPERTY ParkedIsSettled
