# NIGHTGATE: TLA+ models, checks and proofs

NIGHTGATE is a SAP CAP plugin that indexes the Midnight chain into a database and submits
transactions to it on behalf of wallets. This directory holds TLA+ modules for the parts of it in which
processes, workers, timers, a node and a database interact, the TLC configurations that check them on
small instances, and TLAPS proofs for instances of any size.

Contents: [inventory](#inventory), [plan](#plan), [JobLifecycle](#joblifecycle), [Crawler](#crawler),
[the gateway](#the-gateway), [the runtime](#the-runtime), [runs](#runs),
[what the violations show](#what-the-violations-show), [other observations](#other-observations),
[proofs](#proofs), [only model-checked](#only-model-checked), [not modelled](#not-modelled),
[how to run](#how-to-run).

## Inventory

| Component | State it keeps | Operations | Interacts with |
|---|---|---|---|
| Background jobs (`submission/job-store.ts`, `job-scheduler.ts`, `background-jobs.ts`) | `BackgroundJobs` rows: status, lease owner, hash, chain status, reclaim count | admit, claim, heartbeat, cross the external-effect boundary, announce, succeed, fail, park, reclaim | executors, recovery, confirmer, rollback |
| Transaction submitter and sponsor executors (`TransactionSubmitter.ts`, `executors/sponsor.ts`) | `PendingSubmissions` rows (one per attempt), the deploy budget of a grant | submit, rebuild after a reject, book a rejection, record a landed result | wallet worker, job store |
| Restart recovery and reconciliation (`job-reconciliation.ts`, `reorg-generation.ts`) | none of its own; the reorg generation in `SyncState` | five recovery statements, settle a rejected attempt, confirm an outcome, declare a broadcast lost | job store, indexer, rollback |
| Instance lease (`utils/instance-lease.ts`) | one `InstanceLeases` row, a fencing flag per process | acquire, take over, renew, notice the loss | every write that announces a transaction |
| Wallet worker (`midnight/wallet-worker-client.ts`, `midnight/worker/*`) | wallet facades, slots, calls in flight | announce and wait, send, answer, time out, exit, rotate | executors, node |
| Crawler (`crawler/Crawler.ts`, `BlockProcessor.ts`) | `Blocks` and the rows derived from them, the `SyncState` row, the halted block | catch up, subscribe, handle a head, find a fork, halt, redrive, stop | node provider, rollback |
| Rollback (`crawler/rollback.ts`) | removes rows; bumps the reorg generation | roll back from a height, revert submission evidence | crawler, jobs, trailing passes |
| Trailing passes (`cursor-pass.ts`, `LedgerPayloadDecoder.ts`, `IndexerSupplement.ts`, `redecode.ts`) | a cursor per pass in `SyncState` | read the window, work, advance, lower the cursor | crawler, rollback |
| Node provider (`providers/MidnightNodeProvider.ts`) | socket, subscriptions, pending requests | connect, reconnect, call, subscribe | crawler |
| Sponsoring (`sponsor-policy.ts`, `midnight/worker/sponsor.ts`, `sponsor-pool.ts`) | the policy file and its cached copy, reserved dust notes, lanes and pauses of sponsor wallets | narrow the policy, check a transaction, reserve, spend, fall back | grants, sponsor executors |
| Agent grants (`sessions/agent-grants.ts`) | budgets and counters per grant | verify, charge, refund, edit, revoke | sponsor executors, services |
| Wallet sessions (`sessions/wallet-sessions.ts`) | `WalletSessions` rows, facades in the worker | connect, expire, close, sweep | jobs, wallet worker |
| Wallet sync and state (`worker/facades.ts`, `wallet-sync-state-store.ts`) | snapshots of a wallet, versioned rows | wait for the sync, save, replace, restore | wallet worker, indexer |
| Proof workflows and disclosures (`actions/predicates.ts`, `actions/disclosure.ts`, `disclosure-indexer.ts`) | parent and child jobs, `DisclosureGrants` rows | run a step, park, resume; grant, revoke, retract, confirm | jobs, attestation contract |
| Contract registry and artifacts (`contract-registry.ts`, `contract-registrations.ts`, `worker/artifacts.ts`) | registrations, snapshot folders, cached modules | register, remove, pin, load, sweep | jobs, wallet worker, admin service |
| Swap offers (`swap-offers.ts`) | `SwapOffers` rows | post, cancel, fill, expire | sponsor executors, chain |
| Private state and keys (`CapDbPrivateStateProvider.ts`, `account-keys.ts`, `scripts/rewrap-encryption-keys.mjs`) | encrypted rows, the key ring, a data key per account | get, set, clear, import; seal, open, rewrap | wallet worker, operator |
| Indexed rows (`BlockProcessor.ts`, `rollback.ts`, `block-author.ts`, `contract-state.ts`) | UTXOs, balances, validators, contract states | apply a block, recompute, supplement, read | crawler, services |
| Worker RPC (`midnight/worker-rpc/*`) | pending calls by id | call, answer, time out, restart | decode and verify threads |
| Schema upgrades (`scripts/apply-schema-delta.mjs`, `utils/db-indexes.ts`) | tables, indexes, views | compare with the model, rebuild, add, correct old rows, probe at the start | operator, server |
| SDK (`src/sdk/client.mjs`) | one call, the polls of its job | send, resend, poll | services |
| Rate limiter (`utils/rate-limiter.ts`) | hits per key and group | consume, evict | services |

### What is hard about it

- A transaction cannot be taken back. Between the announcement of its hash, the send and the record of
  its result the process may crash, lose its lease to another process, or get a timeout while its
  worker still sends; recovery has to decide from rows alone whether something may be on chain.
- Writes are guarded by compare-and-set on status and lease owner, not by locks, so each decision is
  taken on a row that may have changed since it was read.
- The chain can change after an outcome was recorded; a lookup made before may be written after.
- The crawler has three activities in one process that interleave at every `await`, and prefetches blocks
  that a rollback can make obsolete.
- Progress depends on timers, reconnect callbacks and retries that must cover every failing await.

### What makes the components correct

- Jobs: only the transaction named on the row can reach the chain; a job that can run again has sent
  nothing; a failure that says nothing was sent is true; an outcome follows the canonical chain; a deploy
  is charged once; a finished job stays finished; a parked job is settled some day.
- Crawler: the index is one unbroken chain ending at the recorded tip; it halts only at a bad block and
  says so; every finalized block is indexed some day.
- Trailing passes: every block below the cursor has been worked on.
- Lease: at most one process passes the fencing check of an announcement at a time.
- Grants and sponsoring: no interleaving of charge, refund, edit and revoke exceeds a budget; the sponsor
  pays only for what policy and grant both allow; a dust note is spent by one request.
- Sessions and wallets: a facade in memory belongs to a session; a wallet counts as synced only when it
  was; a save never puts an older generation back.
- Workflows and disclosures: a step lands once; a succeeded workflow has its proof; an old read does not
  undo a revocation.
- Submitting: dust is put back only when nothing can have reached the node; the calls of a batch apply in
  order; a call begins once although it is sent or executed again, and none is forgotten.
- Derived rows: balances, validators and contract states are those of the stored chain after any rollback.
- Keys: no rotation, kill or overlapping request makes stored data unreadable.

## Plan

Done in this order, the most important behaviour first:

1. `JobLifecycle`: one job with its executors, worker, recovery, confirmer and rollback, on several
   processes, with `JobLifecycle_proofs`.
2. `Crawler`: pipeline, head handler, rollback, trailing pass, with `Crawler_proofs`.
3. `ChainIndex`: what the index promises its readers; `Crawler_proofs` shows that the crawler implements it.
4. The request side of the server, composed by `MC_Gateway`: [the gateway](#the-gateway), with
   `Gateway_proofs`, `Gateway_grants` and `Gateway_sponsors` for ten of its parts.
5. Workers, start and stop, storage and derived rows, composed by `MC_Runtime`: [the runtime](#the-runtime),
   with `Runtime_proofs`, `Runtime_calls` and `Runtime_stores` for eight of its parts.

To come:

6. Proofs for the remaining parts of the gateway and the runtime: `RevokeStaysRevoked`, `NodeIsFollowed`. A property that speaks of two instances of a module needs
   them made one instance first, with its parameters as constants of the composition.
7. `SubmitOnce`: an abstract specification (a job sends at most one transaction that can land, and then
   reports it), with `JobLifecycle` shown to implement it by a refinement mapping.
8. `InstanceLease` below the `holder` and `fenced` of `JobLifecycle`, so that the two share the lease row.
9. The transaction builder (`src/txbuilder`) and the crawler fault guard.

## JobLifecycle

One background job that sends a transaction; jobs write no rows but their own, so one is enough.
`channel` chooses the path: "bound" (`TransactionSubmitter.ts`, the caller's wallet) or "sponsor"
(`executors/sponsor.ts`, a deploy under a grant, which reserves a unit of budget).

| State | Code |
|---|---|
| `job`, `row`, `charged`, `recorded` | the `BackgroundJobs` row, one `PendingSubmissions` row per transaction, the grant's `deploysUsed`, and whether finalizer or executor wrote the landed result |
| `gen` | `SyncState.reorgGeneration` |
| `holder`, `phase`, `fenced` | the `InstanceLeases` row, the life of each process with its recovery statements, and whether it knows that it lost the lease |
| `exec` | the execution in each process: where it is, its current transaction, the one it booked, the last error, the row its catch block read |
| `late`, `cleared`, `pool`, `chain`, `ttl` | hooks that outlive their call, transactions a worker may send, those the node has, outcomes on the canonical chain, validity windows |
| `conf` | the lookup a confirmer pass is doing |

Choices a reader should know:

- A compare-and-set statement is one action. Whatever the code awaits between a read and a write is a
  pair of actions. The five recovery statements (`job-reconciliation.ts:31`) are no transaction, so those
  that can touch such a job are actions of their own.
- A hook that stores an announcement may finish after its call was answered by a timeout or a worker exit
  (`wallet-worker-client.ts:505`): it moves to `late` and can still write.
- A process that takes the lease over starts recovery while the old one may go on until it notices.
  Deployments are told to run one replica; the handover happens when a replacement starts early.
- The lookup answers "lost" only after the transaction's ttl and a margin. The model takes from the
  environment that a reorg is no deeper than that margin and that the indexer is not behind the crawler's
  rollback.
- Bounds: two transactions let an attempt be rebuilt once; one restart and one reclaim give every
  order of crash, takeover and reclaim with one execution left behind; two reorgs take an outcome away
  and give it back changed. `MaxRestarts` also limits crashes, so that a crashed process can come back.
- A superseded `connectWalletForSigning` job sends nothing and is left out.

Fairness (`FairSpec`), used by `job_reorg`: the poller runs every two seconds, a crashed process is
started again, time passes, the crawler performs a due rollback. The indexer answers a repeated lookup now and then, and
a database that refuses writes takes some of the repeated ones (strong fairness of `Lookup` and of the two steps
that write what it found, since each can also fail). It is checked with one process.

## Crawler

| State | Code |
|---|---|
| `tip`, `reorgs`, `connected`, `subscribed` | the node and the socket to it |
| `blocks`, `decoded`, `sync`, `gen` | the `Blocks` table, the blocks a pass worked on, the `SyncState` row |
| `pipe`, `redrive`, `again` | `ingestActive`, `redriveTimer`, `pendingRedrive` and where `runIngestPipeline` is |
| `cu` | the catch-up run in flight (`catchUpInFlight`), its prefetched blocks and the retry flag |
| `live`, `pending` | the handler of a head and `pendingHeights` |
| `poison`, `running` | `poisonBlock`, `isRunning` |
| `pass` | one round of the decode pass |

Choices a reader should know:

- A block is the path from genesis to it, which stands for its hash: two blocks are the same exactly when
  all their ancestors are. Reading a parent hash is taking a prefix.
- A database transaction is atomic, and `Blocks` has one row per height (the unique index of
  `utils/db-indexes.ts:20`, which the HANA build does not have).
- `rpcBatchSize` is 1: a batch is a block. Reading the hash and looking whether the block is stored are
  one step; only the handler removes blocks, and it can do so between that step and the store.
- The attempts of `withRetry` are folded into the outcome of the call: an answer or one of `Faults`.
- The node announces its last block or, when it replays, the one below. `NodeReorg` replaces the end of
  the finalized chain; the code handles it although finality should exclude it.
- `Restart` stands for a crash as well as for `pauseCrawler` with `resumeCrawler`.
- The decode pass stands for the cursor protocol; the indexer supplement shares `cursor-pass.ts`. A block
  that is removed and stored again is a new row, so a pass that selected the old one does not touch it.
- The error counter is cut off above the limit it is compared with. It is read back in the same step in
  which it was raised.
- An index that starts at an anchor and sees a fork at or below it rolls everything back (`findForkPoint`
  answers 0) and is seeded again, as with a fork at genesis.

Bounds: a chain of two blocks above genesis and a window of two let the crawler hold a prefetched block of
a chain that is gone, with a stored block on each side of the fork; one fork and one restart or admin call
give two rollbacks that overlap one round of the pass. The theorem covers the chain for any number of
forks. `ErrorLimit` (10 in the code) is 0 to 2. In `crawler_progress` it is 0, so that every failing run
ends at once and all progress comes from redriving.

`ChainIndex` is the abstract specification of the table: a chain that grows by one child of its newest
block, or loses blocks at its upper end under a new generation, so a reader that finds the generation it
began with has seen a growing chain. `Crawler` maps its `blocks`, `sync.tip` and `gen` to it
(`Index == INSTANCE ChainIndex`); `IndexPromise` is the abstract specification, checked by
`crawler_index` and proved by `CrawlerImplementsIndex`.

Fairness (`FairSpec`), used by `crawler_progress` only: every await of the process returns (requests time
out), so `CatchUp`, `Pipeline`, `Handler` and the timer are weakly fair; the provider never stops
reconnecting; each kind of call of the node succeeds again and again, and the last block is announced
again and again (strong fairness, since such a call may also fail and a head may be dropped). The node's
growth, losses and restarts have no fairness.

## The gateway

`MC_Gateway` composes the modules of the request side. They share no state that the modules keep, so a
behaviour is one of a single part, chosen in `Init`, and the variables of the others stay `off`. In all of
them a step lies between two awaits: a database statement, an answer, a timer.

| Module | Code | State and steps | Property |
|---|---|---|---|
| `SponsorPolicy` | `sponsor-policy.ts` | the policy file, edited while the server runs, the cached copy, the grant; `effectivePolicy` narrows one by the other. Empty lists mean "all" or "none" by kind, as in the code | `PolicyIsIntersection`: exactly what the file in force and the grant both allow, and what was deployed under the grant, is let through |
| `SponsorTx`, `SponsorCheck` | `worker/sponsor.ts` | a transaction as actions, shielded and unshielded offers, mints and claims; each check of the worker is an operator | `SponsoredMovesOnlyAllowedValue`: an accepted transaction takes no value from the sponsor and moves only allowed tokens |
| `AgentGrants` | `sessions/agent-grants.ts` | one grant row, requests with their statements, queued jobs, refunds, edits, revocation, the change of hour and day | `BudgetsHold` |
| `SponsorPool` | `sponsor-pool.ts`, `executors/sponsor.ts` | lanes, pauses, jobs that go on to the next wallet | `BusyLaneHasHolder`: no lane stays busy without its job |
| `DustLeases` | `worker/sponsor.ts` | reserved backings, notes on chain and in the wallet, a blocked event loop | `NoteSpentOnce` |
| `RateLimiter` | `rate-limiter.ts`, `rate-classes.ts` | hits of each key in order of use, keys per caller | `LimitsHold`: no window exceeds its limit, the counts per caller are exact |
| `WalletSessions` | `wallet-sessions.ts`, session sweep | rows, handlers that read first and write later, steps of closing that fail, the facade and its lock | `NoOrphanFacade`: a loaded wallet has an active session, or a closing call still to decide about it, unless a step of that call failed |
| `WalletSync` | `worker/facades.ts` | readings of the indexer with their age, the wait and the progress watch | `SyncVerdictIsTrue`: a wallet said to be synced had all events the indexer knew of not long ago; one given up as stalled had stopped |
| `Disclosure` | `actions/disclosure.ts`, `actions/context.ts`, `disclosure-indexer.ts`, `contract-command.ts` | one grant row, changes in chain order, confirmations in another, reindexes that are retried, given up or lost in a crash | `RevokeStaysRevoked`: once all settled, an active row has the contract's level, unless no read of its newest change came through |
| `Workflows` | `predicates.ts`, `background-jobs.ts` | a parent with its steps, slots, parking, restart | `StepLandsOnce`, `SucceededIsProven` |
| `SwapOffers` | `swap-offers.ts` | offers that share a coin, jobs that spend it, failing writes | `BoardIsTrue`: a filled offer was spent by the transaction it names, and what its poster was told stays true |
| `ContractRegistry` | `contract-registry.ts`, `contract-registrations.ts`, `prover-keys.ts` | registrations in memory and in rows, folders replaced at any time, pinned generations, key downloads | `RegistryMatchesRows` |

Bounds. Two requests or jobs of a kind give every overlap of two; the properties relate two actors and a
row. Dust has three requests for two backings of different size, so that a request takes both and another
waits. The limiter has three callers, so that a table of two overflows. Two instances of a module cover
what one would make too large: `disclosure` (two jobs) and `earlier` (one job, a grant the database does not know of, two calls of
`reindexDisclosures`); in both a read of the contract fails, a reindex may be given up, and the server crashes once. The registry has two admins and a command for one name with one folder, whose files are replaced
under them; that a registration moves a name to another folder is covered by its theorem. The grant starts with a call and a unit of value per day and one deploy;
edits set a maximum for the hour and change that of deploys; three hours make two days. A wallet is given what the indexer and
the node have at each second (`SyncWorlds`: it catches up, stays behind, stands still, is replaced, and twice with an indexer that
hangs), and an indexer never answers with an earlier last block. The parts with a proof
get their parameters from constants of `MC_Gateway` instead of
numbers in its `INSTANCE`, so that the theorems are about any number of them.

## The runtime

`MC_Runtime` composes the rest in the same way.

| Module | Code | State and steps | Property |
|---|---|---|---|
| `SubmitPath` | `worker/submit.ts`, `phased-submit.ts` | reserved dust, pooled clients, sends under way, watch, lookup, resend | `SubmitIsSettled`: dust that is back was not sent, an answer is true |
| `BatchOrder` | `batch-segment-order.ts`, `batch-call-scope.ts` | segment numbers at random, renumbered before proving | `BatchAppliesInOrder` |
| `WorkerPool` | `wallet-worker-client.ts`, `worker/rpc.ts`, `rotation.ts` | a slot, its calls, crash, rotation, draining; replies and exits overtake each other | `SubmitBegunOnce`, `NoCallForgotten` |
| `WorkerRpc` | `worker-rpc/*` | the decode and the verify thread, timeouts, restart | `NoCallForgotten` |
| `SdkClient` | `sdk/client.mjs`, `background-jobs.ts`, `long-poll.ts` | copies of a request, admission by key, held polls, late answers | `SubmitBegunOnce`: one job per call, and what the caller is told is true |
| `InstanceLease` | `src/index.ts`, `instance-lease.ts`, `runtime-gate.ts`, `runtime-topology.ts` | the lease row, clocks, start and stop of two processes | `OneWorkerUnlessStale` |
| `WalletState` | `worker/facades.ts`, `wallet-sync-state-store.ts` and their callers | generation and progress of a wallet, saves in a chain, replacement, restart | `SavesNeverGoBack` |
| `KeyRotation` | `account-keys.ts`, `rewrap-encryption-keys.mjs` | key ring, sealed data key, rows, server and tool killed between writes | `StoredIsKept`: a rotation done as documented loses no value; an account has one data key |
| `PrivateStore` | `CapDbPrivateStateProvider.ts`, `worker/private-state.ts` | rows under two passwords, operations that overlap | `StoredIsKept`: an operation that no other overlaps does what it would do to a plain map |
| `SchemaDelta` | `apply-schema-delta.mjs`, `db-indexes.ts`, `src/index.ts` | tables with constraints, indexes, rows and views; releases installed and skipped, the tool, the server's probe | `StoredIsKept`: a migrated database fits its model and is not rebuilt again, rows and the operator's own indexes and views survive, and only leftovers of old releases are cleared |
| `NightBalances` | `BlockProcessor.ts`, `rollback.ts` | outputs, spends, balance rows | `BalancesMatchChain`: increments and recomputation both give the balances of the chain |
| `ContractState` | `IndexerSupplement.ts`, `contract-state.ts` | stored blocks, the supplement's cursor, states, a reader | `SupplementIsTrue`, `ServedStateIsNotOlder` |
| `BlockAuthors` | `block-author.ts`, `BlockAuthorBackfill.ts` | authority lists remembered by two resolvers, a fork | `AuthorsAreTrue` |
| `ArtifactSnapshots` | `worker/artifacts.ts`, `contracts.ts`, `bounded-cache.ts` | registered files replaced at any time, snapshot folders of two processes, caches, sweep | `ProvesPinnedGeneration` |
| `NodeProvider` | `MidnightNodeProvider.ts` | sockets with late close events, requests, subscriptions, heads before their subscription's answer | `NodeIsFollowed`: an outage has a next attempt, heads come in order |

Bounds. Two calls, processes or submissions again; a second worker or thread exists while the first
has not reported its end, a third once both are replaced. Times are small integers that keep the order of the real ones (a lease of 1 and
a clock up to 2 let a lease lapse; the wait of a poll ends before the caller's). Balances have five
possible transactions over three addresses, with a spend of an output older than the index. Schema upgrades have
five releases (`Releases`), one for each kind of change the tool tells apart: columns added, a constraint relaxed, one
tightened with other unique keys and a new table, a column removed; an older database may hold duplicates. `submit`
has two transactions that share a client, with one resend. The parts with a proof take
their parameters from constants of `MC_Runtime`. A wallet has two loads, so a save of the first can arrive in the second, one
replaced part, two numbered ticks and two remembered saves, of four in the code, so that one is forgotten. `keys` and `callers` (one caller, any
stored values; two callers, few values), `private` and `shared` (one provider, two entries; two providers, one
entry) are pairs of instances. The calls of `snapshots` are spread over two processes, or all in one that finds a
generation in its cache.

An action or a type that belongs to one module is not repeated in the composition; the type invariant of
a module is part of the property listed for it.

## Runs

`CHECK_DEADLOCK FALSE` is set throughout: a finished job, and a crawler at the end of a bounded chain or
halted, do nothing more.

| Run | Shows |
|---|---|
| `job_handover` | two processes, a takeover and a restart: at most one transaction of the job can land and it is the one on the row; nothing is replayed after a send; "nothing was sent" is true; one charge; finished is final |
| `job_reorg` | one process with a restart, failing writes and two reorgs: the same guarantees of the send path (`SendIsSafe`), a recorded outcome is that of the canonical chain once the rollback is done, and a parked job leaves `reconciliation_required` some day |
| `crawler_index` | prefetched blocks, the head handler and the trailing pass overlap a fork with its rollback, a restart, `reindexFromHeight` or a lowered cursor: the index stays one unbroken chain (`StartHeight` 1, so the anchor is part of it), no block above genesis is skipped by the pass, and the crawler implements `ChainIndex` |
| `crawler_halts` | without forks, only the bad block halts indexing, whatever calls fail and connections are lost |
| `crawler_progress` | every finalized block is indexed |
| `gateway` | the properties of [the gateway](#the-gateway) |
| `runtime` | the properties of [the runtime](#the-runtime) |

`gateway` and `runtime` have about two and a half and three and a half million states.

Each property has a mutant in `PROJECT.json`: a plausible slip in the code it is about (a parent check
dropped, a cursor advanced in spite of a rollback, a timer not set) that makes TLC report it.

## What the violations show

Five runs expect a violation: there the code does something else than a comment or document says. The
quotations are in `PROJECT.json`.

| Run | In short |
|---|---|
| `lost_deploy` | A sponsored deploy whose row was closed as `REBUILT` and that turns out lost keeps its deploy reservation. |
| `halt_at_fork` | A fork while no heads are followed (before the subscription, during a lost connection) makes catch-up halt at a block that has nothing wrong with it. |
| `access_after_retract` | A retraction confirmed before an earlier grant of the same document stamps only the rows active then; the late grant then activates its row. |
| `replaced_part_returns` | A save tick compares the epoch of a wallet's part and then reads the wallet for its log line, which is on by default (`NIGHTGATE_SYNC_STATE_LOG_MS`). A part replaced during that read is pushed after its replacement, with the new epoch, and stored over it. |
| `delta_keeps_index` | With `contractStateHistory` other than `none` the current release stores what the schema tool takes for a leftover of an old one: every run of the tool clears addresses, senders, receivers and amounts and deletes all outputs and balances (`MC_SchemaDelta`). |

`crawler_halts` has no forks because of `halt_at_fork`. `RevokeStaysRevoked` speaks of grants and
revocations only because of `access_after_retract`, and of documents whose row was not deleted by a grant that failed to
start while it stood for another one (see below). It also excepts a newest change of which no read came through: the retry of a
failed reindex ends after `NIGHTGATE_DISCLOSURE_REINDEX_RETRY_MS` (`context.ts:205`), may not be stored
(`context.ts:180`), and the first reindex after the commit is lost in a crash (`finalizers/reconciliation.ts:78`). The row
then stays as the confirmation left it until an operator calls `reindexDisclosures`, which the log asks for.
`SavesNeverGoBack` excepts, because of `replaced_part_returns`, what a tick stored that was overtaken at its log line
(`overtaken`), and nothing else. The schema upgrades of `runtime` are of a server that keeps no full states because
of `delta_keeps_index`.

## Other observations

Met while modelling; no run asserts them. The first seven limit what properties claim.

- `NothingSentIsTrue` is checked and proved with distinct worker ids. `markFailed` compares only the lease owner
  (`NIGHTGATE_INSTANCE_ID`), so two overlapping processes with the same id can fail a job as not sent
  while the other one sends it.
- `PassCoversIndex` leaves genesis out. `lastIndexedHeight` is 0 for an empty index too, so a pass that runs
  before the first block is stored, the normal order at a first start, moves its cursor to 0 and genesis
  is never above it.
- `IndexIsChain` is checked and proved with a start height of 0 or 1. With 2 or more a genesis head that is
  handled after the seeding is stored without the parent check, below the anchor, and becomes the
  recorded tip.
- `SucceededIsRecorded`, a part of `SendIsSafe`, is for jobs that saw no reorg. A sponsored transaction that applies only
  after one is closed by the runner's own confirmation, without the finalizer (`job-reconciliation.ts:216`).
- A grant whose job could not be started deletes its row by ID (`actions/disclosure.ts:117`). A second grant of the same
  document may have found that row before; its job goes on without one. A revocation then finds no row and
  changes none, and the late reindex of the second grant inserts an active row, which `disclosure-indexer.ts:2` is to exclude.
- A closing call decrypts the viewing key, asks the database for other sessions and lets the worker unload the wallet; when one
  of these fails, it is logged and the wallet stays loaded without a session until the worker exits or the next
  session of it closes (`wallet-session-lifecycle.ts:202`, "Best effort"). `NoOrphanFacade` excepts it, and a wallet that a
  job builds after the close because it had read the session before.
- Unloading waits for a running save tick at most as long as for a confirmation (`facades.ts:1035`); the model waits for
  the tick, so a tick that is slower and posts after the last save is left out.
- A process that lost its lease may move a job between two recovery statements; the job is then parked
  without a hash, which no later pass looks at (`job-reconciliation.ts:82`).
- A head that waited for the node writes `synced` over the `error` of a catch-up that has halted
  (`Crawler.ts:692`).
- An unbound job only picks an order, so two of them may spend from one sponsor wallet at once
  (`sponsor-pool.ts:79`; `docs/actions.md:581` describes one spend per wallet). The dust leases make it safe.
  When such a job pauses a wallet it also marks its lane as free (`sponsor-pool.ts:77`), which a job that waits for the
  lane may take at that moment although another one holds it.
- A sync whose wallet could not be read for most of `stallMs` is given up as stalled at the second reading that can be
  compared, although the wallet moved in between: only a step between two readings counts (`facades.ts:402`).
- Two editors of a grant: the second write replaces the first one's lists (`docs/actions.md:564`).
- Closing a session of an account with another active session keeps the keys in the worker
  (`wallet-sessions.ts:250`; `docs/actions.md:134`).
- A workflow that is queued again may ask for a step with a different `claimValidUntil`, which is taken from the
  clock (`common.ts:48`), and is then refused by its own earlier step's key (`background-jobs.ts:297`). A
  failed read in `hasCompletedChild` parks the parent (`background-jobs.ts:218`); a restart drops a
  queued parent whose session was closed (`job-store.ts:66`).
- A lease lost during `initialize` does not stop the loops started after it (`src/index.ts:458`).
- A caller that joins the creation of a data key may get its null answer (`account-keys.ts:163`); the
  rewrap tool ends with 0 although it met an unreadable value (`rewrap-encryption-keys.mjs:70`).
- A read that encrypts a row anew may overwrite a `set` of an overlapping submission
  (`CapDbPrivateStateProvider.ts:417`).
- A sweep of snapshot folders looks at a folder's age before a loader that reuses it touches it
  (`artifacts.ts:84`, `324`).
- The admin service is not behind the runtime gate (`nightgate-service.ts:127`), so a registration can come
  before the saved ones are loaded.
- `disconnect` of the node provider during a reconnect attempt lets that attempt connect
  (`MidnightNodeProvider.ts:244`).
- `stop` of a helper thread between its start and its first message leaves the waiting call to its timeout
  (`worker-rpc/client.ts:207`).
- A table that the schema tool rebuilds loses a column the model no longer has; `docs/operations.md:219` says it is
  left in place, which holds only without a rebuild.
- The progress watch may replace a newer snapshot of a wallet's progress by an older one
  (`facades.ts:634`).

## Proofs

TLAPS proves the following for every value of the constants that the named assumptions allow.

**`TypeCorrect`** (`JobLifecycle_proofs`): `Spec => []TypeOK`. One lemma per group of actions.

**`OnlyJobHashCanLandAlways`, `NoReplayAfterSendAlways`** (`JobLifecycle_proofs`), assuming
`DistinctWorkerIds` (no two processes share a lease owner, see the observations above). Neither
property is inductive: whether a write by a process that lost the job does harm depends on what that
process knows. `IInv` adds
- `NoHashBeforeBoundary`: a row before the external-effect boundary has no hash;
- `BuiltOnce`: a transaction is built by one process, and nothing refers to it before;
- `ExecKnows`, `CrossedIsPast`: what an execution knows of its transaction, and that a boundary once
  crossed is behind the job for good;
- `OwnerKnows`: the process that holds the row accounts for everything that can land;
- `HooksHarmless`, `ParkedRejection`: a hook that outlives its call writes nothing that matters; a
  rejected attempt that is parked cannot land.

Most actions change one part and are frame steps. Claiming, announcing, storing an announcement and
abandoning one have arguments of their own.

**`FinishedIsFinalAlways`** (`JobLifecycle_proofs`): `Spec => FinishedIsFinal`, an action property, without any
assumption. The module also states, once for all actions, which of them writes which variable (`Footprint`)
and how a job and an execution may move (`JobMoves`, `ExecMoves`); the theorems below argue from these moves
instead of from the actions.

**`NothingSentIsTrueAlways`, `ChargedOnceAlways`, `OutcomeIsCurrentAlways`, `SendIsSafeAlways`**
(`JobLifecycle_proofs`), assuming `DistinctWorkerIds`. The invariant `OInv` adds to `IInv`
- `SentInv`: what the chain has came from the pool; who is about to settle a failure as "not sent", or has looked
  up that a transaction is lost, is right, and stays right although the answer is written later;
- `ChargeInv`: a unit is charged exactly while the row has a hash, the ledger of an execution names a reservation
  exactly while it names a hash, and of the late hooks of a process at most one can still charge;
- `OutcomeInv`: an outcome on the row, in a lookup is that of the canonical chain, unless a rollback is due or has
  advanced the generation; a recorded outcome always has the evidence that a rollback looks for;
- `RecordInv`: an executor returns only after the result is recorded.

**`IndexIsChainAlways`** (`Crawler_proofs`), assuming `StartsAtGenesis` (a start height of 0 or 1; see the
observations above): `Spec => []IndexIsChain`, for any window, chain, number of forks,
losses and restarts, and any set of failing calls. The invariant says that the stored blocks are exactly
the recorded tip with all its ancestors, that a block fetched for storing is a path, and that the seeding
only happens with a start height. Three lemmas carry it. `ChainGrows`: a block whose parent is stored, at
a height where none is, is a child of the tip, so it does not matter how old the prefetched block is or
who rolled back in between. `ChainCut`: what a rollback leaves is the chain of its highest block.
`ChainStarts`: the anchor.

**`CrawlerImplementsIndex`** (`Crawler_proofs`), under the same assumption: `Spec => IndexPromise`, where
`IndexPromise` is the specification of `ChainIndex` under the mapping above. Initial states map to initial states.
A step that stores a block is `Extend`, because by the invariant above the block is a child of
the recorded tip; a rollback is the abstract one, because it removes an upper end and raises the generation
in the same transaction; every other step leaves the three variables alone (`IndexUntouched`).

**`PassCoversIndexAlways`** (`Crawler_proofs`), assuming `StartsAtGenesis`. `PassCoversIndex` speaks of the cursor; a
round of the pass writes it long after it chose its blocks. `PInv` says that while the generation is still the
one the round read, the window it read is indexed and its selection covers what the window has to offer
(`WindowIsIndexed`, `SelectionCovers`), and that the cursor is never above the tip (`CursorBehind`); a rollback
raises the generation and lowers the cursor in one transaction, and a cursor that was lowered by an operator fails the
compare-and-set.

**`HaltedMeansBadBlockAlways`** (`Crawler_proofs`), assuming `StartsAtGenesis` and `FixedChain`: no fork (with one it
is false, see `halt_at_fork`), an anchor that can be decoded, and no call that ends with a permanent error other
than at a bad block, since the code takes every permanent error for one. `HInv` says that tip, prefetched blocks and the head being handled all lie on the one chain, and
that a catch-up which has read the tip starts from a block whose predecessors are indexed, so its parent
check cannot fail.

The compositions share no state between their parts, so the invariant of a part is stated as `part =
"..." => Inv`: `part` never changes, and a step of another part leaves the variables of this one alone.

**`NoOrphanFacadeAlways`** (`Gateway_proofs`), for any number of sessions (`SessionAssumption`: the number of restarts
is a number). `SInv` adds that an active session has its key, so that "no key" in a
row which a closing call read earlier means that somebody else is evicting the wallet already. A closing call may end
at any of its steps without effect; `left` records that it did so with nobody else to decide, and only that is excepted.

**`StepLandsOnceAlways`, `SucceededIsProvenAlways`** (`Gateway_proofs`), for any number of workflows, slots and
restarts, without assumption. `WInv` says that the transaction of a step is sent once and where it is by the status of
the step's row, and for each parent that the steps before the one it is at are on chain, whatever parks, restarts
and re-runs it went through.

**`BoardIsTrueAlways`** (`Gateway_proofs`), assuming `OfferAssumption`: every offer names at least one coin, as
`plainShieldedOffer` (`worker/sponsor.ts`) refuses a half without input, and no job is called "none". `BInv` says
that a job that landed spent the coins it names, that the offers it found share one of them, and that a
retiring call which closed its offer, or found it closed, has a closed row from then on. Every step keeps closed rows
and spent coins as they are (`RowsStay`, `SpentStays`), so an answer stays true.

**`NoteSpentOnceAlways`** (`Gateway_proofs`), assuming `DustAssumption` (the wallet has finitely many notes). The locks alone do not prove it: a lock expires while its holder may go on. `DInv` says that a
token is given out once (`TokensUsed`) and, for each request, that while it runs it holds the locks with
its own tokens unless its reservation expired, and spends only notes it reserved.

**`BudgetsHoldAlways`** (`Gateway_grants`), assuming `GrantAssumption`: finitely many requests, a day of at least one
hour, and maxima that are numbers, as `validateGrantShape` wants them. `GInv` counts: what a counter says is the
number of requests that took a unit in its window less those that gave one back (`CountsKept`), a request takes and gives back a unit of
each budget at most once (`AskKnows`), and a counter's window is never later than the clock's (`RowFits`). So
nobody has taken a unit in a window that a reset opens. A refund lowers the counter of the window in which it runs, also when
its unit was taken in an earlier one; the property counts it where it happens. What a request read before it waited is bounded by the largest maximum so far (`top`), which is what the
property allows.

**`LimitsHoldAlways`** (`Gateway_grants`), assuming `LimitAssumption`: a check records something, and the table has room for
a key, as `rate-limiter.ts:63` makes sure. A key that leaves the table, because it is idle or the least recently used,
takes its hits with it. `TableAgrees` says that this never matters within a window: what the table says of a key
for the times of the window under way is what was granted. The counts per caller are those of the keys present,
whichever are evicted.

**`RegistryMatchesRowsAlways`** (`Gateway_sponsors`), assuming `RegistryAssumption` (the config names folders), for any
number of admins, commands, names and folders. `HolderKnows` says that a call past the lock has its name to itself, and at each of its
steps how far the entry in memory and the stored row have come apart; a command that was pinned
before a registration changed keeps the generation it checked.

**`BusyLaneHasHolderAlways`** (`Gateway_sponsors`), assuming `PoolAssumption`: the pool is not empty. The property is inductive with the
type invariant. The proof needs of the choice of a sponsor only that it is one of the pool, whatever the
order of preference.

**`PolicyIsIntersectionAlways`** (`Gateway_sponsors`), without assumption. What `effectivePolicy` returns for a file and a grant is
compared with what both allow for any call and any deployed contract, so the theorem is one about the operators: `CallNarrows` and its
siblings go through the lists that stand for "all" or "none".

**`SyncVerdictIsTrueAlways`** (`Gateway_sponsors`), assuming `SyncAssumption`: times are numbers, and the indexer never
replaces its last block by an earlier one (what the model gives an indexer, see the bounds). `SyncInv` says that a cached tip was the indexer's when it was
read (`TipsAreRead`), that what the wait and the watch hold was read within the timeout of a read (`ReadsAreRecent`), and
that the wallet has been no further than at its first reading or at the last progress (`ProgressIsMeasured`). It
holds for any intervals, timeouts and ages of a cached tip.

**`OneWorkerUnlessStaleAlways`** (`Runtime_proofs`), assuming `LeaseAssumption` (times are numbers, no process is
called "none"). `LInv` adds that a process that works has a heartbeat or knows that it lost the lease, and that
one with a heartbeat has the row or refreshed it more than a ttl ago (`HeartbeatKnows`): only then can another
have taken it, since the take-over is one conditional statement.

**`SubmitIsSettledAlways`** (`Runtime_calls`), assuming `SubmitAssumption` (the number of resends is not negative,
`config-table.ts:119`). `XInv` relates for each transaction what the submitting call believes to what
its sends did: only a resend turns a transaction into one that may have been sent already; until then at most the present
attempt is under way; and once dust is back nothing is under way that the node would accept.

**`SubmitBegunOnceAlways`** (`Runtime_calls`), assuming `ThreadAssumption` (the slot has a worker; a call reads or submits) and
`SdkAssumption` (finitely many calls, times that are numbers). For the wallet worker `CallKnows` says that a submit that may still be sent has begun on no
thread, and of one that was sent on which thread it is; crashes, rotations and late replies leave that alone. For
the SDK `OneJob` says that all copies of a request have one job at most and are answered with it, `KnowsJob` what the call
knows of it, and `KnowsTime` that polls are given up only after their grace.

**`AuthorsAreTrueAlways`** (`Runtime_proofs`), assuming `AuthorAssumption`: the state of a block holds the authority list that its
header sets, else its parent's. `ResolversKnow` says that a resolver remembers the list after the block
it names, on whichever fork, and `PassKnows` that a row at or below the end of a batch, which the pass did not read, has an author, also when a rollback put another block there meanwhile.

**`SupplementIsTrueAlways`, `ServedStateIsNotOlderAlways`** (`Runtime_proofs`), assuming `StateAssumption`: parameters that are
known are not 0, and a batch has a block. `DInv` says what a run of the supplement has done while no rollback overlapped it
(`RunKnows`), that the parameters it remembers are those of a block up to which all are stored (`CacheKnows`), and
that a reader's row, and what it compared it with, are as new as when it asked unless the generation has changed since
(`ReadKnows`). The newest action and the nearest block with parameters are found with `CHOOSE` of a greatest element; that there is one is argued by the least counterexample (`LeastIs`,
`GreatestIs`, from the well-foundedness of the natural numbers).

**`ProvesPinnedGenerationAlways`** (`Runtime_stores`), assuming `SnapshotAssumption` (a call runs in one of the processes), for any calls,
generations, sizes of the caches, edits and restarts. `AInv` says that a folder has nothing but files of the generation it is named by, of
which a removal that stopped half way may have left the module only, that a copy which was checked has the files of its call's generation, and that a
call past its import has that generation's module. The marks of processes and the age of a folder play no part: they
decide when a folder goes, and a call whose folder goes fails.

**`SavesNeverGoBackAlways`** (`Runtime_stores`), an action property, assuming `WalletAssumption` (the bounds are numbers), for any
number of loads, replacements, remembered saves and progress. The property is not inductive: what protects the stored state is the order in which
everything was pushed. `SaveInv` says that the store, the messages on their way to it in their order, and the wallet
itself stand in one order of load, generation and, while no part was replaced, progress (`Older`, `PostedKnows`); that what a
tick collected has its place there unless the epoch was raised since (`TickKnows`), which is what its check of the epoch is for; that a confirmation on its way
belongs to a state the store has got or passed (`AckKnows`); and that the last save of an unloading wallet is the last
push of its load (`LeavingKnows`). All but the types is claimed until a tick was overtaken at its log line, where it reads the wallet once
more after its check (`replaced_part_returns`). A tick that waits there while no part is replaced is covered: what it collected keeps its
place until the epoch is raised. The unconfirmed saves are a set of numbered saves, as the code
keeps them in a map, so the proof does not need their order.

In all these modules TLC checked the inductive invariant on the run of its property before it was proved.

## Only model-checked

- Liveness (`ParkedIsSettled`, `FinalizedIsIndexed`): fairness is out of the prover's reach.
- `NoCallForgotten` and `NodeIsFollowed`, which say that something comes next: the first uses ENABLED.
- `BatchAppliesInOrder` and `BalancesMatchChain`: their modules sort and add up sequences, which would take induction
  over data.
- `StoredIsKept`, a conjunction over five instances of three modules, of which one compares with a map over all sequences of
  operations.
- `SponsoredMovesOnlyAllowedValue`: the transaction check adds up over sequences of parts, which again would take
  induction over data.
- `RevokeStaysRevoked`: not yet proved.

## Not modelled

- What a payload decodes to, the conversion of circuit arguments, viewing keys and addresses: data
  conversion around the ledger library. The models name the results.
- The transaction builder, browser code and attestation helpers: they run in the caller's process on the
  caller's data; what the server makes of their output is in `SponsorTx`.
- The crawler fault guard (`uncaughtException` of a library): the process goes on or ends, and `Crawler` has
  both.
- Monitoring, scripts other than the rewrap and the schema tool, docker: no state that other parts depend on.
- OData handlers beyond the ones above: validation and reads.
- Display fields of `SyncState` (progress, rates, `chainHeight`, `lastFinalized*`, the error status written when
  reconnecting takes long) and the `ReorgLog`.
- `stop()` gives up waiting after a time; a second crawler object may then run beside a handler of the
  first. PostgreSQL's isolation below serializable, between the read of a parent and a rollback. Both are
  listed under hazards.
- A permanent database error while a block is stored, at which the crawler halts as at a permanent error of a call
  (`Crawler.ts:527`), which is modelled.
- The balance row of an address that is registered for dust, which a rollback keeps at zero (`rollback.ts:290`): nothing in
  the server sets the registration.
- An indexer that answers without a block hash; the reader then skips the comparison of blocks (`contract-state.ts:259`).
- Artifacts without `keys/manifest.json`: what `proverKeyManifestProblems` of `@odatano/contract-kit` says of them is outside
  this repository; `ArtifactSnapshots` has the manifest in every complete copy.
- Liveness of the gateway and runtime parts, other than the states in which nothing would come next
  (`NoCallForgotten`, `NodeIsFollowed`, `BusyLaneHasHolder`), which are safety properties.

## How to run

    tlc -config JobHandover.cfg MC_JobHandover
    tlc -config CrawlerIndex.cfg MC_Crawler
    tlc -config Gateway.cfg MC_Gateway
    tlc -config Runtime.cfg MC_Runtime
    tlc -config AccessAfterRetract.cfg Disclosure
    tlc -config ReplacedPartReturns.cfg WalletState
    tlc -config DeltaKeepsIndex.cfg MC_SchemaDelta
    tlapm JobLifecycle_proofs.tla
    tlapm Crawler_proofs.tla
    tlapm Gateway_proofs.tla
    tlapm Gateway_grants.tla
    tlapm Gateway_sponsors.tla
    tlapm Runtime_proofs.tla
    tlapm Runtime_calls.tla
    tlapm Runtime_stores.tla

Each call proves only the module it is given.

`PROJECT.json` pairs each run with its module and configuration, and maps each definition to the source
lines it models.
