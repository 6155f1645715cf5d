\* Each part of the request side on its own small instance.
SPECIFICATION Spec
CONSTANTS
    SessionIds = {"s1", "s2"}
    SessionOwner <- MCSessionOwner
    PlatformSponsors = {}
    SessionRestarts = 1
    WorkflowJobs = {"p1"}
    HeavySlots = 1
    ParentSlots = 1
    WorkflowSeconds = 2
    ContractBuilds = 2
    WorkflowRestarts = 1
    OfferIds = {"o1", "o2"}
    OfferCoins <- MCOfferCoins
    OfferExpiry <- MCOfferExpiry
    TakerOffers = {"o2"}
    OfferJobs = {"j1", "j2"}
    JobCoin <- MCJobCoin
    RetireCalls = {"w1"}
    OfferSeconds = 1
    OfferRestarts = 1
    DustRequests = {"r1", "r2", "r3"}
    DustBackings = {"b1", "b2"}
    DustSpecks <- MCDustSpecks
    DustFee <- MCDustFee
    DustNotes = 2
    DustReselects = 1
    DustNonce = 2
    DustStalls = 1
    GrantRequests = {"r1", "r2"}
    GrantEditors = {"e1"}
    GrantContracts = {"c2"}
    GrantTerms <- MCGrantTerms
    GrantLists = {{"c1"}}
    GrantMaxima = {0, 1}
    HoursPerDay = 2
    GrantHours = 2
    ContractNames = {"n1"}
    ConfigFolder <- MCConfigFolder
    ContractFolders = {"f1"}
    ContractGens = {1, 2}
    AdminCalls = {"a1", "a2"}
    ContractJobs = {"j1"}
    FolderEdits = 1
    RegistryRestarts = 1
    SponsorIds <- MCSponsorIds
    BoundSponsorJobs = {"f1"}
    FreeSponsorJobs = {"u1"}
    SponsorRetries = 2
    SponsorPause = 1
    SponsorSeconds = 2
    PolicyFloors <- MCFloors
    PolicyGrants <- MCGrants
    PolicyContracts = {"c1", "c2"}
    PolicyCircuits = {"k1", "k2"}
    FileWrites = 2
    LimitGroups = {"g1", "g2", "g3"}
    LimitScopes = {"a", "b"}
    LimitValues = {1, 2}
    LimitCounts = {1, 2}
    LimitWindow = 2
    LimitKeys = 2
    LimitGroupKeys = 1
    LimitSeconds = 2
    SyncGap = 0
    SyncFreshness = 1
    SyncStall = 2
    SyncCeiling = 4
    SyncPoll = 1
    SyncWatchEvery = 1
    SyncTipGrace = 2
    SyncStreamAge = 1
    SyncStreamGrace = 2
    SyncReadLimit = 1
    SyncWorlds <- MCWorlds
    SyncReports = 1
INVARIANTS
    PolicyIsIntersection
    SponsoredMovesOnlyAllowedValue
    BudgetsHold
    BusyLaneHasHolder
    NoteSpentOnce
    LimitsHold
    NoOrphanFacade
    SyncVerdictIsTrue
    RevokeStaysRevoked
    StepLandsOnce
    SucceededIsProven
    BoardIsTrue
    RegistryMatchesRows
\* Every part ends with its bounds.
CHECK_DEADLOCK FALSE
