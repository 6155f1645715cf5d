------------------------------ MODULE MC_Gateway ------------------------------
(***************************************************************************)
(* The request side of the server on small instances: the sponsor policy   *)
(* and the check of a sponsored transaction, agent grants, the pool of     *)
(* sponsor wallets and their dust, rate limiting, wallet sessions and the  *)
(* wait for their wallets, disclosures, attestation workflows, swap offers *)
(* and the contract registry. They share no state that these modules keep, *)
(* so a behaviour is one of a single part, chosen at the start; the        *)
(* variables of the others are off.                                        *)
(***************************************************************************)
EXTENDS Integers, Sequences, FiniteSets

\* the instances that theorems are stated about for every size
CONSTANTS
    SessionIds,        \* wallet sessions
    SessionOwner,      \* the user each belongs to
    PlatformSponsors,  \* those that are sponsor wallets
    SessionRestarts,   \* bound: process restarts
    WorkflowJobs,      \* workflow jobs
    HeavySlots,        \* how many proofs run at once
    ParentSlots,       \* how many workflows run at once
    WorkflowSeconds,   \* bound: seconds that pass
    ContractBuilds,    \* bound: builds a contract name points to
    WorkflowRestarts,  \* bound: process restarts
    OfferIds,          \* swap offers that may be posted
    OfferCoins,        \* the nullifiers of each
    OfferExpiry,       \* the expiry of each, 0 for none
    TakerOffers,       \* those with a taker secret
    OfferJobs,         \* sponsor jobs that may spend their coins
    JobCoin,           \* the coin of each job's own caller
    RetireCalls,       \* retireSwapOffer calls
    OfferSeconds,      \* bound: the clock
    OfferRestarts,     \* bound: restarts of the server
    DustRequests,      \* sponsored transactions
    DustBackings,      \* backing NIGHT outputs of the sponsor
    DustSpecks,        \* the DUST each has generated
    DustFee,           \* the DUST each request needs
    DustNotes,         \* bound: notes picked for a request
    DustReselects,     \* bound: how often one is picked anew
    DustNonce,         \* bound: generations of a note
    DustStalls,        \* bound: how often the event loop is blocked
    GrantRequests,     \* requests made with a grant
    GrantEditors,      \* the issuer's edits of it
    GrantContracts,    \* contracts the requests call
    GrantTerms,        \* what the grant may be created with
    GrantLists,        \* lists of contracts an edit may give
    GrantMaxima,       \* values an edit may give a budget or maxDeploys
    HoursPerDay,       \* hours of a day
    GrantHours,        \* bound: hours that pass
    ContractNames,     \* names of contracts
    ConfigFolder,      \* the folder the config gives a name, when it gives one
    ContractFolders,   \* folders of contract artifacts
    ContractGens,      \* generations of a folder
    AdminCalls,        \* registrations and removals in flight
    ContractJobs,      \* contract commands
    FolderEdits,       \* bound: replaced folders
    RegistryRestarts,  \* bound: restarts of the server
    SponsorIds,        \* the pool of sponsor wallets
    BoundSponsorJobs,  \* sponsor jobs that lease a wallet
    FreeSponsorJobs,   \* sponsor jobs that reserve dust notes
    SponsorRetries,    \* rebuilds after a dust race
    SponsorPause,      \* how long a failed sponsor is paused
    SponsorSeconds,    \* bound: the clock
    PolicyFloors,      \* policies of the platform
    PolicyGrants,      \* policies of grants
    PolicyContracts,   \* contracts of a sponsored call
    PolicyCircuits,    \* circuits of a sponsored call
    FileWrites,        \* bound: changes of the policy file
    LimitGroups,       \* callers
    LimitScopes,       \* scopes of a rate class
    LimitValues,       \* limits an operator may set
    LimitCounts,       \* requests one check records
    LimitWindow,       \* length of a window
    LimitKeys,         \* keys of the table
    LimitGroupKeys,    \* keys of one caller
    LimitSeconds,      \* bound: the clock
    SyncGap,           \* events a synced wallet may be behind
    SyncFreshness,     \* how old the indexer's last block may be
    SyncStall,         \* how long a wallet may make no progress
    SyncCeiling,       \* how long a job waits for its wallet
    SyncPoll,          \* time between two polls
    SyncWatchEvery,    \* time between two reports of the watch
    SyncTipGrace,      \* how long a block tip stands in for a failed read
    SyncStreamAge,     \* how long a stream tip is not read again
    SyncStreamGrace,   \* how long a stream tip stands in for a failed read
    SyncReadLimit,     \* timeout of a read
    SyncWorlds,        \* bound: what happens outside, per time
    SyncReports        \* bound: reports of the watch

\* bounds are numbers
ASSUME SessionAssumption == SessionRestarts \in Nat

\* A half is only posted with an input (plainShieldedOffer), and no job has the name of no job.
ASSUME OfferAssumption ==
    /\ \A o \in OfferIds : OfferCoins[o] # {} /\ OfferExpiry[o] \in Nat
    /\ "none" \notin OfferJobs /\ OfferSeconds \in Nat \ {0} /\ OfferRestarts \in Nat

\* a sponsor has finitely many notes, and bounds are numbers
ASSUME DustAssumption == IsFiniteSet(DustBackings) /\ DustReselects \in Nat /\ DustStalls \in Nat

\* finitely many requests, and what a grant says is in numbers
ASSUME GrantAssumption ==
    /\ IsFiniteSet(GrantRequests) /\ GrantContracts # {} /\ GrantMaxima \subseteq Nat /\ HoursPerDay \in Nat \ {0}
    /\ GrantHours \in Nat
    /\ \A t \in GrantTerms : t.until \in Nat /\ t.maxDeploys \in Nat /\ t.max \in [{"hour", "day", "value"} -> Nat]

\* the config names folders
ASSUME RegistryAssumption == \A n \in ContractNames : ConfigFolder[n] \in ContractFolders

\* The pool is not empty (acquireSponsor, sponsorCandidates), a job is of one kind, and counts and times are numbers.
ASSUME PoolAssumption ==
    /\ SponsorIds \in Seq({SponsorIds[i] : i \in DOMAIN SponsorIds}) \ {<<>>}
    /\ BoundSponsorJobs \cap FreeSponsorJobs = {}
    /\ SponsorRetries \in Nat /\ SponsorPause \in Nat /\ SponsorSeconds \in Nat \ {0}

\* a check records something, and the table has room for a key (rate-limiter.ts:63)
ASSUME LimitAssumption ==
    /\ LimitValues \subseteq Nat /\ LimitCounts \subseteq Nat \ {0} /\ LimitWindow \in Nat \ {0} /\ LimitSeconds \in Nat
    /\ LimitKeys \in Nat \ {0} /\ LimitGroupKeys \in Nat \ {0}

\* Times and bounds are numbers, and the block an indexer serves as its last is never replaced by an earlier one.
ASSUME SyncAssumption ==
    /\ {SyncGap, SyncFreshness, SyncStall, SyncCeiling, SyncPoll, SyncWatchEvery, SyncTipGrace, SyncStreamAge, SyncStreamGrace,
        SyncReadLimit, SyncReports} \subseteq Nat
    /\ SyncWorlds \subseteq Seq([events : Nat, block : Nat, applied : Nat, connected : BOOLEAN]) \ {<<>>}
    /\ \A w \in SyncWorlds : \A t, u \in DOMAIN w : t <= u => w[t].block <= w[u].block

VARIABLES
    part,                                                                    \* the part under way
    disk, cache, force,                                                      \* SponsorPolicy
    request, verdict,                                                        \* SponsorCheck
    grant, hour, grantRequest, edit, top,                                    \* AgentGrants
    lanes, time, sponsorJob,                                                 \* SponsorPool
    spendable, listed, noteLocks, leaseSeq, req, lapsed, stalls,             \* DustLeases
    hits, keyOrder, groupCounts, limit, clock, granted,                      \* RateLimiter
    sessionRow, facade, lock, signer, closer, sweeper, walletJob, left, sessionRestarts,   \* WalletSessions
    world, syncTime, tips, wait, watch, progress,                            \* WalletSync
    changes, tip, disclosureRow, disclosureJob, queue, run, spent,           \* Disclosure
    parent, child, proofRow, build, agentGrant, workflowClock, workflowRestarts,           \* Workflows
    offerRow, offerSpent, offerJob, caller, offerClock, offerRestarts,       \* SwapOffers
    folder, configNames, registry, digests, rows, locked, admin, command, fetching, skipped, edits, registryRestarts
                                                                             \* ContractRegistry

policyVars == <<disk, cache, force>>
checkVars == <<request, verdict>>
grantVars == <<grant, hour, grantRequest, edit, top>>
poolVars == <<lanes, time, sponsorJob>>
dustVars == <<spendable, listed, noteLocks, leaseSeq, req, lapsed, stalls>>
limiterVars == <<hits, keyOrder, groupCounts, limit, clock, granted>>
sessionVars == <<sessionRow, facade, lock, signer, closer, sweeper, walletJob, left, sessionRestarts>>
syncVars == <<world, syncTime, tips, wait, watch, progress>>
disclosureVars == <<changes, tip, disclosureRow, disclosureJob, queue, run, spent>>
workflowVars == <<parent, child, proofRow, build, agentGrant, workflowClock, workflowRestarts>>
offerVars == <<offerRow, offerSpent, offerJob, caller, offerClock, offerRestarts>>
registryVars == <<folder, configNames, registry, digests, rows, locked, admin, command, fetching, skipped, edits, registryRestarts>>
vars == <<part, policyVars, checkVars, grantVars, poolVars, dustVars, limiterVars, sessionVars, syncVars, disclosureVars, workflowVars,
          offerVars, registryVars>>

Off == "off"
Parts == {"policy", "check", "grants", "pool", "dust", "limiter", "sessions", "sync", "disclosure", "earlier", "workflows", "offers", "registry"}

-----------------------------------------------------------------------------
(* Policies and transactions.                                              *)

SeqUpTo(S, n) == UNION {[1..k -> S] : k \in 0..n}
NoRules == [c \in {} |-> {}]
MCRules == {NoRules, [c \in {"c1"} |-> {"k1"}], [c \in {"c1"} |-> {"k1", "k2"}], [c \in {"c1", "c2"} |-> {"k2"}]}

MCFloors == {[contracts |-> cs, circuits |-> ks, rules |-> r, tokens |-> {}, mints |-> FALSE, share |-> FALSE,
              flags |-> {}, utokens |-> {}] : cs \in SUBSET {"c1", "c2"}, ks \in {{}, {"k1"}, {"k2"}}, r \in MCRules}
MCGrants == {[contracts |-> cs, circuits |-> ks, deployed |-> d, tokens |-> {}, minted |-> {}, flags |-> {}, utokens |-> {}] :
               cs \in SUBSET {"c1", "c2"}, ks \in SUBSET {"k1", "k2"}, d \in {{}, {"c2"}}}

NoMint == [t \in {"t1", "t2"} |-> 0]
Call(c, minted, claims) == [kind |-> "call", address |-> c, circuit |-> "k1", mints |-> [NoMint EXCEPT !["t1"] = minted],
                            claims |-> claims]
Bare == [kind |-> "call", actions |-> <<>>, offers |-> <<>>, uoffers |-> <<>>, intake |-> 0, dust |-> FALSE, inputs |-> 1,
         declared |-> "t1"]

Deltas == {[t \in {} |-> 0], [t \in {"t1"} |-> -1], [t \in {"t1"} |-> 1], [t \in {"night"} |-> -1],
           [t \in {"t1", "t2"} |-> IF t = "t1" THEN 1 ELSE -1], [t \in {"t1", "t2"} |-> IF t = "t1" THEN -1 ELSE 1]}
ShieldedOffers == {[deltas |-> d, coins |-> c] : d \in Deltas, c \in {{}, {"c2"}}}
Payments == {[owner |-> w, value |-> 1] : w \in {"u1", "u2", "c1", "c2"}}
UnshieldedOffers == {[inputs |-> i, outputs |-> o] :
                        i \in {<<>>, <<[owner |-> "u1", value |-> 2]>>, <<[owner |-> "sponsor", value |-> 1]>>},
                        o \in SeqUpTo(Payments, 2)}

MCPolicies == {[contracts |-> cs, circuits |-> {}, rules |-> NoRules, own |-> {}, tokens |-> ts, mints |-> m, flags |-> fs,
                utokens |-> {}] : cs \in {{}, {"c1"}}, ts \in {{}, {"t1"}, {"t1", "t2"}}, m \in BOOLEAN,
                                  fs \in {{}, {"swaps", "transfers", "unshielded", "deploy"}}}
MCHalves == {[Bare EXCEPT !.kind = "swap", !.offers = <<[deltas |-> d, coins |-> {}]>>] : d \in Deltas}
MCTransactions ==
    {[Bare EXCEPT !.actions = a, !.offers = o] :
        a \in SeqUpTo({Call("c1", 1, <<>>), Call("c2", 1, <<>>), Call("c1", 0, <<>>)}, 2), o \in SeqUpTo(ShieldedOffers, 2)}
    \cup {[Bare EXCEPT !.actions = a, !.uoffers = u, !.intake = n] :
        a \in {<<Call("c1", 0, <<>>)>>, <<Call("c1", 0, <<[to |-> "u2", amount |-> 1]>>)>>,
               <<Call("c1", 0, <<>>), Call("c2", 0, <<>>)>>,
               <<[Call("c1", 0, <<>>) EXCEPT !.kind = "deploy"]>>, <<[Call("c1", 0, <<>>) EXCEPT !.kind = "maintenance"]>>},
        u \in SeqUpTo(UnshieldedOffers, 1), n \in {0, 1}}
    \cup {[h EXCEPT !.kind = k] : h \in MCHalves, k \in {"swap", "transfer"}}

Policy == INSTANCE SponsorPolicy WITH TokenTypes <- {"t1", "t2"}, MaxTxDeploys <- 1, MaxInputs <- 2, SponsorKey <- "sponsor",
    Owners <- {"u1", "u2", "c1", "c2"}, Contracts <- PolicyContracts, Circuits <- PolicyCircuits, Floors <- PolicyFloors,
    Grants <- PolicyGrants, MaxWrites <- FileWrites

Check == INSTANCE SponsorCheck WITH TokenTypes <- {"t1", "t2"}, MaxTxDeploys <- 1, MaxInputs <- 2, SponsorKey <- "sponsor",
    Owners <- {"u1", "u2", "c1", "c2"}, Policies <- MCPolicies, Transactions <- MCTransactions, Halves <- MCHalves

-----------------------------------------------------------------------------
(* Grants, sponsors, limits and sessions.                                  *)

\* A call, a deploy and a unit of value per day, until the last hour; an edit limits the calls of an hour too.
MCGrantTerms == {[contracts |-> {}, maxDeploys |-> 1, max |-> [hour |-> 0, day |-> 1, value |-> 1], until |-> 1]}

Grants == INSTANCE AgentGrants WITH Requests <- GrantRequests, Editors <- GrantEditors, Contracts <- GrantContracts,
    Terms <- GrantTerms, Lists <- GrantLists, Maxima <- GrantMaxima, MaxHour <- GrantHours, request <- grantRequest

\* two wallets
MCSponsorIds == <<"s1", "s2">>

Pool == INSTANCE SponsorPool WITH Pool <- SponsorIds, FinalizedJobs <- BoundSponsorJobs, UnboundJobs <- FreeSponsorJobs,
    DustRetries <- SponsorRetries, Cooldown <- SponsorPause, MaxTime <- SponsorSeconds, job <- sponsorJob

\* One big note and one small one; two requests either can pay, one that takes both.
MCDustSpecks == [b1 |-> 2, b2 |-> 1]
MCDustFee == [r1 |-> 1, r2 |-> 1, r3 |-> 3]

Dust == INSTANCE DustLeases WITH Requests <- DustRequests, Backings <- DustBackings, Specks <- DustSpecks, Fee <- DustFee,
    MaxNotes <- DustNotes, MaxReselects <- DustReselects, MaxNonce <- DustNonce, MaxStalls <- DustStalls, chain <- spendable

Limiter == INSTANCE RateLimiter WITH Groups <- LimitGroups, Scopes <- LimitScopes, Limits <- LimitValues, Counts <- LimitCounts,
    Window <- LimitWindow, MaxKeys <- LimitKeys, MaxKeysPerGroup <- LimitGroupKeys, MaxClock <- LimitSeconds, order <- keyOrder

\* the user of every session
MCSessionOwner == [s \in {"s1", "s2"} |-> "u1"]

Sessions == INSTANCE WalletSessions WITH Sessions <- SessionIds, Owner <- SessionOwner, Sponsors <- PlatformSponsors,
    MaxRestarts <- SessionRestarts, row <- sessionRow, job <- walletJob, restarts <- sessionRestarts

Steady == <<1, 2, 3, 4, 5>>
World(events, block, applied, down) ==
    [t \in 1..5 |-> [events |-> events[t], block |-> block[t], applied |-> applied[t], connected |-> t # down]]
MCWorlds == {World(<<1, 1, 2, 2, 2>>, Steady, <<0, 0, 1, 2, 2>>, 0),             \* it catches up
             World(<<1, 2, 2, 2, 2>>, Steady, <<0, 1, 1, 1, 1>>, 0),             \* it stays behind
             World(<<2, 2, 2, 2, 2>>, Steady, <<1, 1, 1, 1, 1>>, 0),             \* it does not move
             World(<<2, 2, 2, 2, 2>>, Steady, <<1, 0, 1, 2, 2>>, 4),             \* it is replaced, and loses its connection
             World(<<1, 1, 1, 2, 2>>, <<1, 1, 1, 4, 4>>, <<1, 1, 1, 1, 2>>, 0),  \* the indexer hangs for a while
             World(<<1, 2, 2, 2, 2>>, <<1, 2, 2, 2, 2>>, <<0, 1, 2, 2, 2>>, 0)}  \* the indexer hangs

Syncs == INSTANCE WalletSync WITH Gap <- SyncGap, Freshness <- SyncFreshness, Stall <- SyncStall, Ceiling <- SyncCeiling,
    Poll <- SyncPoll, WatchEvery <- SyncWatchEvery, TipGrace <- SyncTipGrace, StreamAge <- SyncStreamAge,
    StreamGrace <- SyncStreamGrace, ReadLimit <- SyncReadLimit, Worlds <- SyncWorlds, MaxReports <- SyncReports, time <- syncTime

-----------------------------------------------------------------------------
(* Disclosures, workflows, offers and contracts.                           *)

Disclosures == INSTANCE Disclosure WITH Jobs <- {"j1", "j2"}, Levels <- {1, 2}, MaxHeight <- 2, MaxReindexes <- 0,
    MaxFailures <- 1, MaxCrashes <- 1, row <- disclosureRow, job <- disclosureJob

\* one job, and a grant the database does not know of
EarlierDisclosures == INSTANCE Disclosure WITH Jobs <- {"j1"}, Levels <- {1, 2}, MaxHeight <- 2, MaxReindexes <- 2,
    MaxFailures <- 1, MaxCrashes <- 1, row <- disclosureRow, job <- disclosureJob

Flows == INSTANCE Workflows WITH Parents <- WorkflowJobs, MaxClock <- WorkflowSeconds,
    MaxBuilds <- ContractBuilds, MaxRestarts <- WorkflowRestarts, row <- proofRow, grant <- agentGrant, clock <- workflowClock, restarts <- workflowRestarts

\* Two offers that share a coin, one that expires and one for a taker only; two jobs with a coin of their own.
MCOfferCoins == [o1 |-> {"n1"}, o2 |-> {"n1", "n2"}]
MCOfferExpiry == [o1 |-> 1, o2 |-> 0]
MCJobCoin == [j1 |-> "j1", j2 |-> "j2"]

Board == INSTANCE SwapOffers WITH Offers <- OfferIds, CoinsOf <- OfferCoins, ExpiryOf <- OfferExpiry, Directed <- TakerOffers,
    Jobs <- OfferJobs, CoinOf <- JobCoin, Callers <- RetireCalls, MaxClock <- OfferSeconds, MaxRestarts <- OfferRestarts,
    row <- offerRow, spent <- offerSpent, job <- offerJob, clock <- offerClock, restarts <- offerRestarts

\* the only name and the only folder
MCConfigFolder == [n1 |-> "f1"]

Registry == INSTANCE ContractRegistry WITH Names <- ContractNames, ConfigOf <- ConfigFolder, Folders <- ContractFolders,
    Generations <- ContractGens, Admins <- AdminCalls, Jobs <- ContractJobs, MaxEdits <- FolderEdits,
    MaxRestarts <- RegistryRestarts, job <- command, restarts <- registryRestarts

-----------------------------------------------------------------------------
Init ==
    /\ part \in Parts
    /\ IF part = "policy" THEN Policy!PolicyInit ELSE disk = Off /\ cache = Off /\ force = Off
    /\ IF part = "check" THEN /\ Check!CheckInit
                              \* only a swap has a second half
                              /\ request.tx.kind # "swap" => request.half = CHOOSE h \in MCHalves : TRUE
       ELSE request = Off /\ verdict = Off
    /\ IF part = "grants" THEN Grants!GrantInit
       ELSE grant = Off /\ hour = Off /\ grantRequest = Off /\ edit = Off /\ top = Off
    /\ IF part = "pool" THEN Pool!PoolInit
       ELSE lanes = Off /\ time = Off /\ sponsorJob = Off
    /\ IF part = "dust" THEN Dust!DustInit
       ELSE spendable = Off /\ listed = Off /\ noteLocks = Off /\ leaseSeq = Off /\ req = Off /\ lapsed = Off
            /\ stalls = Off
    /\ IF part = "limiter" THEN Limiter!LimiterInit
       ELSE hits = Off /\ keyOrder = Off /\ groupCounts = Off /\ limit = Off /\ clock = Off /\ granted = Off
    /\ IF part = "sessions" THEN Sessions!SessionInit
       ELSE sessionRow = Off /\ facade = Off /\ lock = Off /\ signer = Off /\ closer = Off /\ sweeper = Off /\ walletJob = Off /\ left = Off /\ sessionRestarts = Off
    /\ IF part = "sync" THEN Syncs!SyncInit
       ELSE world = Off /\ syncTime = Off /\ tips = Off /\ wait = Off /\ watch = Off /\ progress = Off
    /\ IF part = "disclosure" THEN Disclosures!DisclosureInit /\ changes = <<>>
       ELSE IF part = "earlier" THEN EarlierDisclosures!DisclosureInit
       ELSE changes = Off /\ tip = Off /\ disclosureRow = Off /\ disclosureJob = Off /\ queue = Off /\ run = Off /\ spent = Off
    /\ IF part = "workflows" THEN Flows!WorkflowInit
       ELSE parent = Off /\ child = Off /\ proofRow = Off /\ build = Off /\ agentGrant = Off /\ workflowClock = Off /\ workflowRestarts = Off
    /\ IF part = "offers" THEN Board!OfferInit
       ELSE offerRow = Off /\ offerSpent = Off /\ offerJob = Off /\ caller = Off /\ offerClock = Off /\ offerRestarts = Off
    /\ IF part = "registry" THEN Registry!RegistryInit
       ELSE folder = Off /\ configNames = Off /\ registry = Off /\ digests = Off /\ rows = Off /\ locked = Off /\ admin = Off /\ command = Off /\ fetching = Off /\ skipped = Off /\ edits = Off /\ registryRestarts = Off

\* the others stay off
Only(p) ==
    /\ part = p /\ UNCHANGED part
    /\ p # "policy" => UNCHANGED policyVars
    /\ p # "check" => UNCHANGED checkVars
    /\ p # "grants" => UNCHANGED grantVars
    /\ p # "pool" => UNCHANGED poolVars
    /\ p # "dust" => UNCHANGED dustVars
    /\ p # "limiter" => UNCHANGED limiterVars
    /\ p # "sessions" => UNCHANGED sessionVars
    /\ p # "sync" => UNCHANGED syncVars
    /\ p \notin {"disclosure", "earlier"} => UNCHANGED disclosureVars
    /\ p # "workflows" => UNCHANGED workflowVars
    /\ p # "offers" => UNCHANGED offerVars
    /\ p # "registry" => UNCHANGED registryVars

Next ==
    \/ Only("policy") /\ Policy!PolicyNext
    \/ Only("check") /\ Check!CheckNext
    \/ Only("grants") /\ Grants!GrantNext
    \/ Only("pool") /\ Pool!PoolNext
    \/ Only("dust") /\ Dust!DustNext
    \/ Only("limiter") /\ Limiter!LimiterNext
    \/ Only("sessions") /\ Sessions!SessionNext
    \/ Only("sync") /\ Syncs!SyncNext
    \/ Only("disclosure") /\ Disclosures!DisclosureNext
    \/ Only("earlier") /\ EarlierDisclosures!DisclosureNext
    \/ Only("workflows") /\ Flows!WorkflowNext
    \/ Only("offers") /\ Board!OfferNext
    \/ Only("registry") /\ Registry!RegistryNext

Spec == Init /\ [][Next]_vars

-----------------------------------------------------------------------------
(* Properties. A part's type invariant is a conjunct of the first of them. *)

\* Narrowing (effectiveSponsorPolicy) and the worker's check let through what the platform and the grant both allow.
PolicyIsIntersection == part = "policy" => Policy!PolicyIsIntersection

\* A sponsored transaction moves only the value its policy allows, and none of the sponsor's (checkSponsorableShape).
SponsoredMovesOnlyAllowedValue == part = "check" => Check!SponsoredMovesOnlyAllowedValue

\* The counters of a grant are exact and no window admits more than its budget (consumeBudget, refundBudget,
\* reserveDeployBudget).
BudgetsHold == part = "grants" => Grants!GrantTypeOK /\ Grants!BudgetsHold

\* A busy sponsor lane has a job that will free it (acquireSponsor, executeSponsorFinalized).
BusyLaneHasHolder == part = "pool" => Pool!PoolTypeOK /\ Pool!BusyLaneHasHolder

\* No two live sponsored transactions spend the same dust note, unless a reservation lapsed while the event loop was
\* blocked (backingKey, releaseNote).
NoteSpentOnce == part = "dust" => Dust!DustTypeOK /\ Dust!NoteSpentOnce

\* No window admits more requests of a key than the limit, and the count of a caller's keys is exact (checkMany, sweep).
LimitsHold == part = "limiter" => Limiter!LimiterTypeOK /\ Limiter!WindowHolds /\ Limiter!GroupCountsExact

\* A wallet in the worker's memory has an active session or a closing call that is still to decide about it, unless a step
\* of such a call failed or a job built it after the close (evictFacadeUnlessShared).
NoOrphanFacade == part = "sessions" => Sessions!SessionTypeOK /\ Sessions!NoOrphanFacade

\* A wallet said to be synced had all events the indexer knew of not long ago, and a sync given up as stalled had stopped
\* (waitForGenuineSync, progressWatchTick).
SyncVerdictIsTrue == part = "sync" => Syncs!SyncTypeOK /\ Syncs!SyncedIsRecent /\ Syncs!StallIsReal

\* Once all grants and revocations have settled an active row has the contract's level, unless every read of the newest
\* of them was given up or lost (reindexOnce, notNewerThan).
RevokeStaysRevoked == /\ part = "disclosure" => Disclosures!RevokeStaysRevoked
                      /\ part = "earlier" => EarlierDisclosures!RevokeStaysRevoked

\* A workflow step lands on chain at most once (runChildCommand, recoverInterruptedJobs).
StepLandsOnce == part = "workflows" => Flows!StepLandsOnce

\* A succeeded workflow has its proof recorded and all its steps on chain (recordProven, markSucceeded).
SucceededIsProven == part = "workflows" => Flows!SucceededIsProven

\* An offer shown as filled was spent by the transaction it names, and what a poster was told of its offer stays true
\* (closeSwapOffer, retireSwapOffer).
BoardIsTrue == part = "offers" => Board!OfferTypeOK /\ Board!FilledIsSpent /\ Board!AnswerHolds

\* Outside a registration the registry is what its rows say (registerContractAtRuntime).
RegistryMatchesRows == part = "registry" => Registry!RegistryMatchesRows
=============================================================================
