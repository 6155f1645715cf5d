------------------------------ MODULE MC_Runtime ------------------------------
(***************************************************************************)
(* The server's own machinery on small instances: the saved wallet state,  *)
(* the submit path, batch order, the worker's threads and helper threads,  *)
(* the instance lease, key rotation, private states, balances, contract    *)
(* states, artifact snapshots, the node's socket, block authors, the SDK's *)
(* calls and schema upgrades. As in MC_Gateway a behaviour is one of a     *)
(* single part; the variables of the others are off.                       *)
(***************************************************************************)
EXTENDS Integers, Sequences, FiniteSets, Releases

CONSTANTS
    LeaseProcs,      \* processes pointed at the database
    LeaseReplicas,   \* replica counts they may be configured with
    LeaseTTL,        \* seconds after which an unrefreshed lease may be taken over
    LeaseMaxNow,     \* bound: seconds that pass
    SubmitTxs,       \* transactions to submit
    SubmitClients,   \* clients of the submit pool
    SubmitRetries,   \* how often the same bytes are sent again
    AuthorKeys,      \* keys of validators
    AuthorIds,       \* blocks of the node
    AuthorBlocks,    \* parent, slot, change of the list and signer of each
    AuthorLists,     \* list of validators in the state of each
    AuthorWorks,     \* blocks the crawler may have in work
    AuthorBatch,     \* blocks the pass reads at once
    AuthorRollbacks, \* bound: rollbacks and restarts
    AuthorLosses,    \* bound: failed reads
    ThreadReads,     \* calls to the wallet worker that only read
    ThreadSubmits,   \* those that may send a transaction
    ThreadVersions,  \* contract versions after which a worker rotates
    ThreadWorkers,   \* bound: threads the slot starts
    SdkCallers,      \* calls through the SDK
    SdkCopies,       \* bound: requests of a call
    SdkWaiters,      \* polls the server holds open at once
    SdkTimeout,      \* how long a call waits for its job
    SdkGrace,        \* how long its polls may fail
    SdkMaxNow,       \* bound: the clock
    StateChains,     \* final chains
    StateBatch,      \* blocks of one run of the supplement
    StateHistory,    \* whether full states stay on the actions
    StateRollbacks,  \* bound: reindexes
    StateFailures,   \* bound: failed passes
    SnapshotProcs,   \* processes of one installation
    SnapshotJobs,    \* calls that need a contract
    SnapshotHomes,   \* how they may be spread over the processes
    SnapshotPin,     \* the generation each is pinned to
    SnapshotCache,   \* how many generations a process keeps
    SnapshotEdits,   \* bound: changes of the registered files
    SnapshotLosses,  \* bound: restarts, and snapshots left unused
    WalletPending,   \* unconfirmed saves the worker remembers of a wallet
    WalletProgress,  \* bound: progress of a sync
    WalletReplacements, \* bound: replaced parts of a wallet
    WalletSaves,     \* bound: saves after which no tick starts
    WalletLives      \* bound: loads of the wallet

\* lifetimes and clocks are whole numbers, and no process is named like the holder of an empty row
ASSUME LeaseAssumption == LeaseTTL \in Nat /\ LeaseMaxNow \in Nat /\ "none" \notin LeaseProcs

\* the environment variable is read as a number that is not negative
ASSUME SubmitAssumption == SubmitRetries \in Nat

\* A block's state holds the list its header sets, else the one of its parent; no validator has the name of an unknown one.
ASSUME AuthorAssumption ==
    /\ AuthorIds \subseteq Nat \ {0} /\ AuthorBatch \in Nat /\ "unknown" \notin AuthorKeys
    /\ AuthorLists \in [{0} \cup AuthorIds -> Seq(AuthorKeys)]
    /\ \A b \in AuthorIds : LET block == AuthorBlocks[b] IN
          /\ block.parent \in {0} \cup AuthorIds /\ block.slot \in Nat \cup {-1}
          /\ AuthorLists[b] = IF block.change # <<>> THEN block.change ELSE AuthorLists[block.parent]

\* the slot has a worker; contract versions are counted
ASSUME ThreadAssumption == ThreadWorkers \in Nat \ {0} /\ ThreadVersions \in Nat /\ ThreadReads \cap ThreadSubmits = {}

\* finitely many calls, and times that are whole numbers
ASSUME SdkAssumption ==
    IsFiniteSet(SdkCallers) /\ SdkCopies \in Nat /\ SdkWaiters \in Nat /\ SdkTimeout \in Nat /\ SdkGrace \in Nat /\ SdkMaxNow \in Nat

\* parameters that are known are not 0, and actions are counted
ASSUME StateAssumption ==
    /\ StateChains \subseteq Seq([params : Nat \ {0}, txs : Seq([mine : Nat, theirs : Nat])])
    /\ StateBatch \in Nat \ {0} /\ StateHistory \in BOOLEAN /\ StateRollbacks \in Nat /\ StateFailures \in Nat

\* a call runs in a process
ASSUME SnapshotAssumption == SnapshotHomes \subseteq [SnapshotJobs -> SnapshotProcs]

\* saves, replacements and loads are counted
ASSUME WalletAssumption ==
    WalletPending \in Nat /\ WalletProgress \in Nat /\ WalletReplacements \in Nat /\ WalletSaves \in Nat /\ WalletLives \in Nat

VARIABLES
    part,                                                                         \* the part under way
    worker, lock, tick, change, leaving, posted, acks, session, store, overtaken, \* WalletState
    submit, dust, clients, sends, txAt,                                           \* SubmitPath
    batch, outcome,                                                               \* BatchOrder
    slot, thread, toMain, call, running, begun, stop,                             \* WorkerPool
    owner, helper, rpcCall, seen,                                                 \* WorkerRpc
    leaseRow, server, now,                                                        \* InstanceLease
    ring, process, envelope, account, dekRows, dekCache, inflight, caller, nextDek, tool,   \* KeyRotation
    privRows, use, export, uses,                                                  \* PrivateStore
    bookBlocks, txRows, utxos, balances,                                          \* NightBalances
    chain, ixHeight, blocks, states, current, supplemented, generation, run, read, failures,   \* ContractState
    source, dir, proc, job, edits, losses,                                        \* ArtifactSnapshots
    prov, sock, wire, pending, subs, orphans, node, calls, got, stopped,          \* NodeProvider
    rows, memory, work, pass, cursor, finished, rollbacks, lostReads,             \* BlockAuthors
    sdk, copies, sdkJobs, polls, clock,                                           \* SdkClient
    installed, migrated, serving, db, views, own, written, book                   \* SchemaDelta

walletVars == <<worker, lock, tick, change, leaving, posted, acks, session, store, overtaken>>
submitVars == <<submit, dust, clients, sends, txAt>>
batchVars == <<batch, outcome>>
threadVars == <<slot, thread, toMain, call, running, begun, stop>>
rpcVars == <<owner, helper, rpcCall, seen>>
leaseVars == <<leaseRow, server, now>>
rotationVars == <<ring, process, envelope, account, dekRows, dekCache, inflight, caller, nextDek, tool>>
storeVars == <<privRows, use, export, uses>>
balanceVars == <<bookBlocks, txRows, utxos, balances>>
stateVars == <<chain, ixHeight, blocks, states, current, supplemented, generation, run, read, failures>>
snapshotVars == <<source, dir, proc, job, edits, losses>>
nodeVars == <<prov, sock, wire, pending, subs, orphans, node, calls, got, stopped>>
authorVars == <<rows, memory, work, pass, cursor, finished, rollbacks, lostReads>>
sdkVars == <<sdk, copies, sdkJobs, polls, clock>>
deltaVars == <<installed, migrated, serving, db, views, own, written, book>>
vars == <<part, walletVars, submitVars, batchVars, threadVars, rpcVars, leaseVars, rotationVars, storeVars, balanceVars, stateVars,
          snapshotVars, nodeVars, authorVars, sdkVars, deltaVars>>

Off == "off"
Parts == {"wallet", "submit", "batch", "threads", "decode", "verify", "lease", "keys", "callers", "private", "shared", "balances", "states", "snapshots", "node", "authors", "sdk", "delta"}

-----------------------------------------------------------------------------
(* Wallets and submits.                                                    *)

Wallet == INSTANCE WalletState WITH MaxPending <- WalletPending, MaxProgress <- WalletProgress, MaxReplacements <- WalletReplacements,
    MaxSaves <- WalletSaves, MaxLives <- WalletLives

Submit == INSTANCE SubmitPath WITH Txs <- SubmitTxs, Clients <- SubmitClients, Retries <- SubmitRetries, pool <- clients,
    wire <- sends, node <- txAt

Stages == {{"g"}, {"f"}, {"g", "f"}}
Circuit(c, s) == [circuit |-> c, stages |-> s]
MCCallLists == [1..2 -> [circuit : {"a", "b"}, stages : Stages]]
               \cup [1..3 -> {Circuit("a", {"g"}), Circuit("a", {"f"}), Circuit("b", {"g"})}]

Batches == INSTANCE BatchOrder WITH CallLists <- MCCallLists, MaxSegment <- 3

-----------------------------------------------------------------------------
(* Threads, processes and keys.                                            *)

Threads == INSTANCE WorkerPool WITH Reads <- ThreadReads, Submits <- ThreadSubmits, MaxGenerations <- ThreadVersions,
    MaxWorkers <- ThreadWorkers

\* the decode worker's calls, and those of the dust verifier
Decode == INSTANCE WorkerRpc WITH Calls <- {"c1", "c2"}, budgetFromStart <- FALSE, terminateOnTimeout <- FALSE, MaxThreads <- 3

Verify == INSTANCE WorkerRpc WITH Calls <- {"c1", "c2"}, budgetFromStart <- TRUE, terminateOnTimeout <- TRUE, MaxThreads <- 3

Sdk == INSTANCE SdkClient WITH Callers <- SdkCallers, MaxCopies <- SdkCopies, MaxWaiters <- SdkWaiters, WaitTimeout <- SdkTimeout,
    PollGrace <- SdkGrace, MaxNow <- SdkMaxNow

Lease == INSTANCE InstanceLease WITH Procs <- LeaseProcs, Replicas <- LeaseReplicas, TTL <- LeaseTTL, MaxNow <- LeaseMaxNow,
    row <- leaseRow, proc <- server

\* any stored values, one request
Keys == INSTANCE KeyRotation WITH Callers <- {"c1"}, MaxDeks <- 2, rows <- dekRows, cache <- dekCache

\* two requests of an account that may not have a data key yet
Callers == INSTANCE KeyRotation WITH Callers <- {"c1", "c2"}, MaxDeks <- 2, rows <- dekRows, cache <- dekCache

\* a submission's private states on their own, and one that two submissions use
Private == INSTANCE PrivateStore WITH Providers <- {"p1"}, N <- 2, Values <- {1, 2}, MaxUses <- 4

Shared == INSTANCE PrivateStore WITH Providers <- {"p1", "p2"}, N <- 1, Values <- {1, 2}, MaxUses <- 3

-----------------------------------------------------------------------------
(* The index and its passes.                                               *)

Output(a, k, v) == [owner |-> a, token |-> k, value |-> v]
MCEvents ==
    [t1 |-> [created |-> <<Output("b", "night", 2), Output("a", "night", 1)>>, spent |-> {<<"old", 1>>}],
     t2 |-> [created |-> <<Output("a", "night", 2)>>, spent |-> {<<"t1", 1>>}],
     t3 |-> [created |-> <<Output("b", "coin", 1)>>, spent |-> {<<"t1", 2>>, <<"t2", 1>>}],
     t4 |-> [created |-> <<Output("c", "night", 1), Output("a", "night", 1)>>, spent |-> {<<"t2", 1>>, <<"old", 2>>}],
     t5 |-> [created |-> <<Output("c", "night", 1), Output("b", "coin", 1)>>, spent |-> {<<"t2", 1>>}]]

Balances == INSTANCE NightBalances WITH Events <- MCEvents, Addresses <- {"a", "b", "c"},
    Old <- <<Output("a", "night", 3), Output("b", "coin", 1)>>, MaxHeight <- 4, BlockSize <- 2, blocks <- bookBlocks

Actions(m, t) == [mine |-> m, theirs |-> t]
MCChains == {<<[params |-> 1, txs |-> <<Actions(1, 2), Actions(1, 1)>>], [params |-> 2, txs |-> <<Actions(2, 2)>>]>>}
States == INSTANCE ContractState WITH Chains <- StateChains, Batch <- StateBatch, KeepsHistory <- StateHistory,
    MaxRollbacks <- StateRollbacks, MaxFailures <- StateFailures, cursor <- supplemented

\* two calls in one process and one in another, or all in one, which finds a generation in its cache
MCHomes == {[j \in {"j1", "j2", "j3"} |-> IF j = "j3" THEN p ELSE "p1"] : p \in {"p1", "p2"}}
MCPin == [j \in {"j1", "j2", "j3"} |-> IF j = "j2" THEN <<2, 2>> ELSE <<1, 1>>]
Snapshots == INSTANCE ArtifactSnapshots WITH Procs <- SnapshotProcs, Jobs <- SnapshotJobs, Homes <- SnapshotHomes,
    Pin <- SnapshotPin, CacheSize <- SnapshotCache, MaxEdits <- SnapshotEdits, MaxLosses <- SnapshotLosses

Node == INSTANCE NodeProvider WITH Requests <- {"r1"}, MaxSockets <- 2, MaxSubs <- 2, MaxHeads <- 2, MaxCalls <- 3,
    MaxReconnectAttempts <- 1, OrphansPerId <- 2, OrphanIds <- 1

\* a fork after the first block, which changes the list; the last block names no slot
MCBlockOf == <<[parent |-> 0, slot |-> 0, change |-> <<"b", "a">>, signer |-> "a"],
               [parent |-> 1, slot |-> 1, change |-> <<>>, signer |-> "a"],
               [parent |-> 1, slot |-> 2, change |-> <<"c">>, signer |-> "b"],
               [parent |-> 3, slot |-> -1, change |-> <<>>, signer |-> "c"]>>
MCListAfter == [b \in 0..4 |-> CASE b = 0 -> <<"a", "b">> [] b \in {1, 2} -> <<"b", "a">> [] OTHER -> <<"c">>]
Authors == INSTANCE BlockAuthors WITH Ids <- AuthorIds, BlockOf <- AuthorBlocks, ListAfter <- AuthorLists, Works <- AuthorWorks,
    Batch <- AuthorBatch, MaxRollbacks <- AuthorRollbacks, MaxFailures <- AuthorLosses, failures <- lostReads

\* a server that keeps no history of contract states; with one, see MC_SchemaDelta
Delta == INSTANCE SchemaDelta WITH Models <- ReleaseModels, Required <- ProbedColumns, Indexes <- SecondaryIndexes,
    Firsts <- OldDatabases, Ids <- {1, 2}, Values <- {1}, KeepsHistory <- FALSE

-----------------------------------------------------------------------------
\* an account of the current format or none, and no other stored value
FewValues ==
    /\ envelope = [c \in {"encryptedViewingKey"} |-> Callers!NoValue]
    /\ account.wrapped \in {Callers!NoValue, [key |-> "old", version |-> 3, good |-> TRUE]}
    /\ account.byViewingKey \in {Callers!NoValue, Callers!Bare}
    /\ dekRows = [t \in {"PrivateStates", "WalletSyncStates"} |-> Callers!NoRow]

\* a wallet state in an old format or none
FewStates == dekRows["WalletSyncStates"] \in {Keys!NoRow, [scheme |-> "null", by |-> "old", dek |-> 0]}

Init ==
    /\ part \in Parts
    /\ IF part = "wallet" THEN Wallet!WalletInit
       ELSE worker = Off /\ lock = Off /\ tick = Off /\ change = Off /\ leaving = Off /\ posted = Off /\ acks = Off
            /\ session = Off /\ store = Off /\ overtaken = Off
    /\ IF part = "submit" THEN Submit!SubmitInit
       ELSE submit = Off /\ dust = Off /\ clients = Off /\ sends = Off /\ txAt = Off
    /\ IF part = "batch" THEN Batches!BatchInit
       ELSE batch = Off /\ outcome = Off
    /\ IF part = "threads" THEN Threads!PoolInit
       ELSE slot = Off /\ thread = Off /\ toMain = Off /\ call = Off /\ running = Off /\ begun = Off /\ stop = Off
    /\ IF part = "decode" THEN Decode!RpcInit
       ELSE IF part = "verify" THEN Verify!RpcInit
       ELSE owner = Off /\ helper = Off /\ rpcCall = Off /\ seen = Off
    /\ IF part = "lease" THEN Lease!LeaseInit
       ELSE leaseRow = Off /\ server = Off /\ now = Off
    /\ IF part = "keys" THEN Keys!RotationInit /\ FewStates
       ELSE IF part = "callers" THEN Callers!RotationInit /\ FewValues
       ELSE ring = Off /\ process = Off /\ envelope = Off /\ account = Off /\ dekRows = Off /\ dekCache = Off
            /\ inflight = Off /\ caller = Off /\ nextDek = Off /\ tool = Off
    /\ IF part = "private" THEN Private!StoreInit
       ELSE IF part = "shared" THEN Shared!StoreInit
       ELSE privRows = Off /\ use = Off /\ export = Off /\ uses = Off
    /\ IF part = "balances" THEN Balances!BalanceInit
       ELSE bookBlocks = Off /\ txRows = Off /\ utxos = Off /\ balances = Off
    /\ IF part = "states" THEN States!StateInit
       ELSE chain = Off /\ ixHeight = Off /\ blocks = Off /\ states = Off /\ current = Off /\ supplemented = Off
            /\ generation = Off /\ run = Off /\ read = Off /\ failures = Off
    /\ IF part = "snapshots" THEN Snapshots!SnapshotInit
       ELSE source = Off /\ dir = Off /\ proc = Off /\ job = Off /\ edits = Off /\ losses = Off
    /\ IF part = "node" THEN Node!NodeInit
       ELSE prov = Off /\ sock = Off /\ wire = Off /\ pending = Off /\ subs = Off /\ orphans = Off /\ node = Off
            /\ calls = Off /\ got = Off /\ stopped = Off
    /\ IF part = "authors" THEN Authors!AuthorInit
       ELSE rows = Off /\ memory = Off /\ work = Off /\ pass = Off /\ cursor = Off /\ finished = Off /\ rollbacks = Off
            /\ lostReads = Off
    /\ IF part = "sdk" THEN Sdk!SdkInit
       ELSE sdk = Off /\ copies = Off /\ sdkJobs = Off /\ polls = Off /\ clock = Off
    /\ IF part = "delta" THEN Delta!DeltaInit
       ELSE installed = Off /\ migrated = Off /\ serving = Off /\ db = Off /\ views = Off /\ own = Off /\ written = Off /\ book = Off

\* the others stay off
Only(p) ==
    /\ part = p /\ UNCHANGED part
    /\ p # "wallet" => UNCHANGED walletVars
    /\ p # "submit" => UNCHANGED submitVars
    /\ p # "batch" => UNCHANGED batchVars
    /\ p # "threads" => UNCHANGED threadVars
    /\ p \notin {"decode", "verify"} => UNCHANGED rpcVars
    /\ p # "lease" => UNCHANGED leaseVars
    /\ p \notin {"keys", "callers"} => UNCHANGED rotationVars
    /\ p \notin {"private", "shared"} => UNCHANGED storeVars
    /\ p # "balances" => UNCHANGED balanceVars
    /\ p # "states" => UNCHANGED stateVars
    /\ p # "snapshots" => UNCHANGED snapshotVars
    /\ p # "node" => UNCHANGED nodeVars
    /\ p # "authors" => UNCHANGED authorVars
    /\ p # "sdk" => UNCHANGED sdkVars
    /\ p # "delta" => UNCHANGED deltaVars

Next ==
    \/ Only("wallet") /\ Wallet!WalletNext
    \/ Only("submit") /\ Submit!SubmitNext
    \/ Only("batch") /\ Batches!BatchNext
    \/ Only("threads") /\ Threads!PoolNext
    \/ Only("decode") /\ Decode!RpcNext
    \/ Only("verify") /\ Verify!RpcNext
    \/ Only("lease") /\ Lease!LeaseNext
    \/ Only("keys") /\ Keys!RotationNext
    \/ Only("callers") /\ Callers!RotationNext
    \/ Only("private") /\ Private!StoreNext
    \/ Only("shared") /\ Shared!StoreNext
    \/ Only("balances") /\ Balances!BalanceNext
    \/ Only("states") /\ States!StateNext
    \/ Only("snapshots") /\ Snapshots!SnapshotNext
    \/ Only("node") /\ Node!NodeNext
    \/ Only("authors") /\ Authors!AuthorNext
    \/ Only("sdk") /\ Sdk!SdkNext
    \/ Only("delta") /\ Delta!DeltaNext

Spec == Init /\ [][Next]_vars

-----------------------------------------------------------------------------
(* Properties. A part's type invariant is a conjunct of the first of them. *)

\* The stored wallet state is never replaced by an older one of the same load, and a wallet unloaded as saved is stored
\* (checkCollected, resetRestoredSubWallet, evict), as long as no part was replaced while a tick waited for its log line:
\* run replaced_part_returns shows what becomes of the state there.
SavesNeverGoBack == [][part = "wallet" => Wallet!WalletTypeOK' /\ Wallet!StoreKeepsReplacement /\ Wallet!SavedMeansStored']_vars

\* Dust is put back only for a transaction that can no longer land, and what a submit reports is so (submitWithDustGuard).
SubmitIsSettled == part = "submit" => Submit!SubmitTypeOK /\ Submit!DustBackMeansUnsent /\ Submit!AnswerIsTrue

\* A batch that is proved applies its calls in the order the caller gave (orderBatchSegments).
BatchAppliesInOrder == part = "batch" => Batches!BatchAppliesInOrder

\* A submitting call begins on one worker thread at most (workerMessage, receiveReply), and a call through the SDK, whose request
\* may be sent again, starts one job and is told what became of it (request, dedupExisting, waitForJob).
SubmitBegunOnce == /\ part = "threads" => Threads!PoolTypeOK /\ Threads!SubmitBegunOnce
                   /\ part = "sdk" => /\ Sdk!SdkTypeOK /\ Sdk!CallRunsOnce /\ Sdk!OutcomeIsTheJobs
                                      /\ Sdk!GraceIsKept /\ Sdk!WaitersCounted

\* No call of a worker waits for an answer that cannot come (rotation, refusals and exits; settlePendingOf), and a call to the dust
\* verifier that did not begin is not failed by the timeout of another.
NoCallForgotten == /\ part = "threads" => Threads!NoCallForgotten
                   /\ part = "decode" => Decode!RpcTypeOK /\ Decode!RpcIsHeld /\ Decode!WaitingCallMovesOn
                   /\ part = "verify" => Verify!RpcTypeOK /\ Verify!RpcIsHeld /\ Verify!WaitingCallMovesOn

\* Two processes run loops on one database only past the lease's lifetime (tryAcquireInstanceLease, renewInstanceLease).
OneWorkerUnlessStale == part = "lease" => Lease!LeaseTypeOK /\ Lease!OneWorkerUnlessStale

\* A key rotation done as documented loses no stored value, and all who ask for an account's data key are given the one
\* stored (rewrapStoredCiphertexts, resolveUncached). An operation on private states that no other overlaps does to them what it
\* would do to a plain map, under whichever password they are stored (decryptStored, importPrivateStates). An upgraded database takes
\* what its model allows and has the rows it had (rebuildTable, ensureIndexes).
StoredIsKept == /\ part = "keys" => Keys!RotationLosesNothing /\ Keys!OneDataKey
                /\ part = "callers" => Callers!RotationLosesNothing /\ Callers!OneDataKey
                /\ part = "private" => Private!StoreTypeOK /\ Private!StoreIsAMap
                /\ part = "shared" => Shared!StoreTypeOK /\ Shared!StoreIsAMap
                /\ part = "delta" => Delta!SchemaFits /\ Delta!RowsKept /\ Delta!OnlyLossyIsCleared

\* The balances are those of the indexed blocks, after any rollbacks (recomputeNightBalance).
BalancesMatchChain == part = "balances" => Balances!BalancesMatchChain

\* What the supplement stored up to its cursor is the chain's (applyContractState, applyBlockFields).
SupplementIsTrue == part = "states" => States!SupplementIsTrue

\* A contract state that is served is not older than what was stored when it was asked for (contractStateAt).
ServedStateIsNotOlder == part = "states" => States!ServedStateIsNotOlder

\* A call proves with the generation it was pinned to (materializeArtifactSnapshot).
ProvesPinnedGeneration == part = "snapshots" => Snapshots!ProvesPinnedGeneration

\* While the node is out of reach a next attempt is under way or scheduled, and a subscription's callback is given its
\* heads in order and without a gap (attemptReconnect, bufferOrphan).
NodeIsFollowed == part = "node" => Node!NodeTypeOK /\ Node!OutageHasNextAttempt /\ Node!HeadsInOrder

\* A stored author is the one the chain says (resolve, runOnce).
AuthorsAreTrue == part = "authors" => Authors!AuthorsAreTrue
=============================================================================
