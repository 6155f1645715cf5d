\* Each part of the server's machinery on its own small instance.
SPECIFICATION Spec
CONSTANTS
    LeaseProcs = {"p1", "p2"}
    LeaseReplicas = {1, 2}
    LeaseTTL = 1
    LeaseMaxNow = 2
    SubmitTxs = {"t1", "t2"}
    SubmitClients = {"k1"}
    SubmitRetries = 1
    AuthorKeys = {"a", "b", "c"}
    AuthorIds = {1, 2, 3, 4}
    AuthorBlocks <- MCBlockOf
    AuthorLists <- MCListAfter
    AuthorWorks = {"w1", "w2"}
    AuthorBatch = 2
    AuthorRollbacks = 1
    AuthorLosses = 1
    ThreadReads = {"r1"}
    ThreadSubmits = {"s1", "s2"}
    ThreadVersions = 1
    ThreadWorkers = 3
    SdkCallers = {"c1"}
    SdkCopies = 3
    SdkWaiters = 1
    SdkTimeout = 1
    SdkGrace = 0
    SdkMaxNow = 2
    StateChains <- MCChains
    StateBatch = 2
    StateHistory = TRUE
    StateRollbacks = 1
    StateFailures = 1
    SnapshotProcs = {"p1", "p2"}
    SnapshotJobs = {"j1", "j2", "j3"}
    SnapshotHomes <- MCHomes
    SnapshotPin <- MCPin
    SnapshotCache = 1
    SnapshotEdits = 1
    SnapshotLosses = 1
    WalletPending = 2
    WalletProgress = 1
    WalletReplacements = 1
    WalletSaves = 2
    WalletLives = 2
INVARIANTS
    SubmitIsSettled
    BatchAppliesInOrder
    SubmitBegunOnce
    NoCallForgotten
    OneWorkerUnlessStale
    StoredIsKept
    BalancesMatchChain
    SupplementIsTrue
    ServedStateIsNotOlder
    ProvesPinnedGeneration
    NodeIsFollowed
    AuthorsAreTrue
PROPERTIES
    SavesNeverGoBack
\* Every part ends with its bounds.
CHECK_DEADLOCK FALSE
