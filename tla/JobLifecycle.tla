---------------------------- MODULE JobLifecycle ----------------------------
(***************************************************************************)
(* One background job of NIGHTGATE that sends a transaction, from its      *)
(* pending row to the chain outcome recorded on it.                        *)
(*                                                                         *)
(* The module composes the parts of the server that touch such a job:      *)
(*   - the job row and its attempt rows (job-store.ts), written only by    *)
(*     compare-and-set statements that name a status and a lease owner;    *)
(*   - the executors (TransactionSubmitter.ts for the caller's own wallet, *)
(*     executors/sponsor.ts for sponsored transactions) and the job runner *)
(*     around them (job-scheduler.ts);                                     *)
(*   - the wallet worker, which announces a transaction, waits for the     *)
(*     announcement to be stored and only then sends (wallet-worker-client *)
(*     and worker/submit.ts);                                              *)
(*   - restart recovery, lease reclaiming and the indexer confirmer        *)
(*     (job-reconciliation.ts), and the chain rollback that takes recorded *)
(*     outcomes back (crawler/rollback.ts);                                *)
(*   - several processes on one database, one of which holds the instance  *)
(*     lease while the others may not yet know that they lost it.          *)
(* Jobs touch no row but their own, so one job is modelled.                *)
(***************************************************************************)
EXTENDS Integers, FiniteSets

CONSTANTS
    Procs,        \* operating-system processes that may serve the database
    WorkerId,     \* [Procs -> ids]: getRuntimeWorkerId() of each process
    Txs,          \* transaction identifiers the worker can build
    NoTx,         \* a null txHash
    NoOwner,      \* a null leaseOwner
    MaxReclaims,  \* MAX_LEASE_RECLAIMS
    MaxRestarts,  \* bound: process starts after the first
    MaxReorgs,    \* bound: chain reorganisations that move a transaction of the job
    DbMayFail     \* whether a database write can fail after its retries

ASSUME ConstantsAssumption ==
    /\ Txs # {} /\ NoTx \notin Txs
    /\ Procs # {}
    /\ \A p \in Procs : WorkerId[p] # NoOwner
    /\ MaxReclaims \in Nat /\ MaxRestarts \in Nat /\ MaxReorgs \in Nat
    /\ DbMayFail \in BOOLEAN

VARIABLES
    channel,      \* "bound": TransactionSubmitter; "sponsor": executors/sponsor, a deploy under a grant
    job,          \* the BackgroundJobs row
    row,          \* the PendingSubmissions row of each transaction
    charged,      \* deploysUsed of the grant, as far as this job moved it
    recorded,     \* the landed result is written to grant, registry and projections
    gen,          \* reorg generation counter
    holder,       \* instanceId of the InstanceLeases row
    phase,        \* [Procs -> life of the process]
    fenced,       \* [Procs -> BOOLEAN]: the process knows it lost the lease
    restarts,     \* process starts so far
    exec,         \* [Procs -> the execution of the job in that process]
    late,         \* submit hooks still writing after their call was answered
    cleared,      \* [Procs -> transactions its worker may send]
    pool,         \* transactions sent and not refused by the node
    chain,        \* [Txs -> outcome on the canonical chain]
    ttl,          \* [Txs -> validity window]
    rollbackDue,  \* a reorg the crawler has not rolled back yet
    reorgs,       \* reorgs so far
    conf          \* [Procs -> the lookup its chain-outcome pass is doing]

dbVars   == <<job, row, charged, recorded, gen>>
procVars == <<holder, phase, fenced, restarts>>
execVars == <<exec, late, cleared>>
netVars  == <<pool, chain, ttl, rollbackDue, reorgs>>
vars     == <<channel, dbVars, procVars, execVars, netVars, conf>>

-----------------------------------------------------------------------------
InFlight == {"running", "external_execution", "submitted"}
PastBoundary == {"external_execution", "submitted"}
Statuses == {"pending", "succeeded", "failed", "reconciliation_required"} \cup InFlight

\* Error codes of a failed job under which the code tells the caller that nothing is on chain.
\* NOT_SENT stands for every classification markFailed writes when no hash is recorded.
NothingSentCodes == {"NOT_SENT", "LEASE_EXPIRED", "PROCESS_RESTART_BEFORE_BROADCAST",
                     "PROCESS_RESTART_SESSION_CLOSED", "SPONSOR_ATTEMPT_REJECTED",
                     "BROADCAST_NOT_INCLUDED"}
ParkCodes == {"PROCESS_RESTART_RECONCILE", "BROADCAST_UNCONFIRMED", "EXTERNAL_EXECUTION_FAILED",
              "REJECTED_ATTEMPT_BOOKKEEPING_PENDING", "CHAIN_EXECUTION_FAILED_UNCONFIRMED"}
Codes == {"none", "RESULT_PERSIST_FAILED", "CHAIN_EXECUTION_FAILED"} \cup NothingSentCodes \cup ParkCodes

Outcomes == {"success", "failure"}
ChainStatuses == {"null", "pending", "dropped"} \cup Outcomes
RowStatuses == {"none", "pending", "included", "finalized", "failed"}
RowCodes == {"none", "REJECTED", "REBUILT", "CHAIN_EXECUTION_FAILED", "BROADCAST_NOT_INCLUDED"}
Errors == {"none", "intent", "reject", "internal", "ambiguous", "notApplied", "bookkeeping"}
Pcs == {"idle", "run", "intent", "sending", "error", "failed", "settle", "chainFailure",
        "landed", "returned", "persist"}
Phases == {"down", "requeueRunning", "failHashless", "parkInFlight", "closeSessions", "up", "offline"}

IdleExec == [pc |-> "idle", cur |-> NoTx, led |-> NoTx, err |-> "none", snap |-> NoTx,
             crossed |-> FALSE, resv |-> 0, chk |-> FALSE]
IdleConf == [step |-> "idle", from |-> "recon", tx |-> NoTx, was |-> "null", code |-> "none",
             gen |-> 0, res |-> "unknown"]
LateHooks == [proc : Procs, tx : Txs, first : BOOLEAN, need : {0, 1}, chk : BOOLEAN]

Init ==
    /\ channel \in {"bound", "sponsor"}
    /\ job = [status |-> "pending", owner |-> NoOwner, tx |-> NoTx, chain |-> "null",
              code |-> "none", evid |-> FALSE, attempt |-> 1]
    /\ row = [t \in Txs |-> [status |-> "none", code |-> "none", evid |-> FALSE]]
    /\ charged = 0 /\ recorded = FALSE /\ gen = 0
    /\ \E p \in Procs :
          /\ holder = p
          /\ phase = [q \in Procs |-> IF q = p THEN "up" ELSE "down"]
    /\ fenced = [p \in Procs |-> FALSE]
    /\ restarts = 0
    /\ exec = [p \in Procs |-> IdleExec]
    /\ late = {} /\ cleared = [p \in Procs |-> {}]
    /\ pool = {} /\ chain = [t \in Txs |-> "none"] /\ ttl = [t \in Txs |-> "unbuilt"]
    /\ rollbackDue = FALSE /\ reorgs = 0
    /\ conf = [p \in Procs |-> IdleConf]

-----------------------------------------------------------------------------
\* Compare-and-set guard of every write a job runner makes: its own lease, and one of the statuses.
Mine(p, statuses) == job.owner = WorkerId[p] /\ job.status \in statuses

Released(j) == [j EXCEPT !.owner = NoOwner]

\* t may still reach the chain: its worker may send it, or the node has it.
Landable(t) == t \in pool \/ \E p \in Procs : t \in cleared[p]

-----------------------------------------------------------------------------
(* The job runner claims the row and starts the executor. *)

\* dispatchJob and markRunning: pending -> running under this process's lease.
Claim(p) ==
    /\ phase[p] = "up" /\ ~fenced[p] /\ exec[p].pc = "idle"
    /\ job.status = "pending"
    /\ job' = [job EXCEPT !.status = "running", !.owner = WorkerId[p]]
    /\ exec' = [exec EXCEPT ![p] = [IdleExec EXCEPT !.pc = "run"]]
    /\ UNCHANGED <<channel, row, charged, recorded, gen, procVars, late, cleared, netVars, conf>>

\* runSubmit reports the external-effect boundary before it calls the worker.
ReportExternalExecution(p) ==
    /\ exec[p].pc = "run" /\ channel = "bound" /\ ~exec[p].crossed
    /\ \/ /\ Mine(p, {"running"})
          /\ job' = [job EXCEPT !.status = "external_execution"]
          /\ exec' = [exec EXCEPT ![p] = [@ EXCEPT !.crossed = TRUE]]
       \/ /\ ~Mine(p, {"running"}) \/ DbMayFail
          /\ job' = job
          /\ exec' = [exec EXCEPT ![p] = [@ EXCEPT !.pc = "failed", !.err = "internal"]]
    /\ UNCHANGED <<channel, row, charged, recorded, gen, procVars, late, cleared, netVars, conf>>

\* The attempt fails before the worker announces a transaction: policy, sync, proof, no sponsor left.
AttemptFails(p) ==
    /\ exec[p].pc = "run"
    /\ exec' = [exec EXCEPT ![p] = [@ EXCEPT !.pc = "failed", !.err = "internal"]]
    /\ UNCHANGED <<channel, dbVars, procVars, late, cleared, netVars, conf>>

-----------------------------------------------------------------------------
(* Announcing a transaction: nothing is sent before its hash is on the job. *)

\* announceSubmitIntent: the worker built t and waits for the main thread's acknowledgement.
AnnounceSubmitIntent(p, t) ==
    /\ exec[p].pc = "run" /\ (channel = "bound" => exec[p].crossed)
    /\ ttl[t] = "unbuilt"
    /\ ttl' = [ttl EXCEPT ![t] = "valid"]
    /\ exec' = [exec EXCEPT ![p] = [@ EXCEPT !.pc = "intent", !.cur = t, !.chk = FALSE]]
    /\ UNCHANGED <<channel, dbVars, procVars, late, cleared, pool, chain, rollbackDue, reorgs, conf>>

FirstBoundary(p) == channel = "sponsor" /\ ~exec[p].crossed
Need(p) == IF channel = "sponsor" THEN 1 - exec[p].resv ELSE 0

\* Mutant: the announcement does not ask who owns the job.
AnnounceableByAnyone(p, first) == TRUE

\* markJobBroadcastOn's where clause.
Announceable(p, first) == Mine(p, IF first THEN {"running"} ELSE PastBoundary)

\* assertLeaseHeld, the first statement of reportBroadcastOn: reads the lease row without locking it.
AssertLeaseHeld(p) ==
    /\ exec[p].pc = "intent" /\ ~exec[p].chk
    /\ IF holder = p /\ ~fenced[p]
       THEN /\ exec' = [exec EXCEPT ![p] = [@ EXCEPT !.chk = TRUE]]
            /\ UNCHANGED fenced
       ELSE /\ exec' = [exec EXCEPT ![p] = [@ EXCEPT !.pc = "error", !.err = "intent"]]
            /\ fenced' = [fenced EXCEPT ![p] = TRUE]
    /\ UNCHANGED <<channel, dbVars, holder, phase, restarts, late, cleared, netVars, conf>>

\* Mutant: the announcement does not reserve the deploy.
BroadcastUncharged(t, need) ==
    /\ job' = [job EXCEPT !.status = "submitted", !.tx = t, !.chain = "pending"]
    /\ row' = [row EXCEPT ![t] = [@ EXCEPT !.status = "pending"]]
    /\ UNCHANGED charged

\* The rest of the hook's transaction: attempt row, deploy reservation, job -> submitted.
BroadcastRecorded(t, need) ==
    /\ job' = [job EXCEPT !.status = "submitted", !.tx = t, !.chain = "pending"]
    /\ row' = [row EXCEPT ![t] = [@ EXCEPT !.status = "pending"]]
    /\ charged' = charged + need

\* onSubmitIntent commits in time; the acknowledgement lets the worker send.
SubmitIntentStored(p) ==
    /\ exec[p].pc = "intent" /\ exec[p].chk
    /\ Announceable(p, FirstBoundary(p))
    /\ BroadcastRecorded(exec[p].cur, Need(p))
    /\ exec' = [exec EXCEPT ![p] = [@ EXCEPT !.pc = "sending", !.led = exec[p].cur, !.crossed = TRUE,
                                              !.resv = IF channel = "sponsor" THEN 1 ELSE 0]]
    /\ cleared' = [cleared EXCEPT ![p] = @ \cup {exec[p].cur}]
    /\ UNCHANGED <<channel, recorded, gen, procVars, late, netVars, conf>>

\* The hook throws: lease of the job lost, deploy budget exhausted, or the write failed. The worker
\* gets a negative acknowledgement and does not send.
SubmitIntentRefused(p) ==
    /\ exec[p].pc = "intent" /\ exec[p].chk
    /\ ~Announceable(p, FirstBoundary(p)) \/ channel = "sponsor" \/ DbMayFail
    /\ exec' = [exec EXCEPT ![p] = [@ EXCEPT !.pc = "error", !.err = "intent"]]
    /\ UNCHANGED <<channel, dbVars, procVars, late, cleared, netVars, conf>>

\* The call is answered while the hook is still writing: the worker stopped waiting ("intent"), it
\* exited ("internal"), or the call timed out ("ambiguous"). The hook's commit is not acknowledged.
SubmitIntentAbandoned(p) ==
    /\ exec[p].pc = "intent"
    /\ late' = late \cup {[proc |-> p, tx |-> exec[p].cur, first |-> FirstBoundary(p),
                           need |-> Need(p), chk |-> exec[p].chk]}
    /\ \E e \in {"intent", "internal", "ambiguous"} :
          exec' = [exec EXCEPT ![p] = [@ EXCEPT !.pc = "error", !.err = e]]
    /\ UNCHANGED <<channel, dbVars, procVars, cleared, netVars, conf>>

\* Such a hook commits after all. The ledger of the execution that started it sees the hash.
LateHookStored(h) ==
    /\ h.chk \/ (holder = h.proc /\ ~fenced[h.proc])
    /\ Announceable(h.proc, h.first)
    /\ BroadcastRecorded(h.tx, h.need)
    /\ late' = late \ {h}
    /\ exec' = IF exec[h.proc].cur = h.tx
               THEN [exec EXCEPT ![h.proc] = [@ EXCEPT !.led = h.tx, !.crossed = TRUE,
                                                       !.resv = IF channel = "sponsor" THEN 1 ELSE 0]]
               ELSE exec
    /\ UNCHANGED <<channel, recorded, gen, procVars, cleared, netVars, conf>>

\* Or it fails.
LateHookFails(h) ==
    /\ late' = late \ {h}
    /\ UNCHANGED <<channel, dbVars, procVars, exec, cleared, netVars, conf>>

-----------------------------------------------------------------------------
(* Sending, and what the worker answers. *)

\* The worker sends an acknowledged transaction, also after the main thread stopped waiting for it.
WorkerSends(p, t) ==
    /\ t \in cleared[p]
    /\ cleared' = [cleared EXCEPT ![p] = @ \ {t}]
    /\ pool' = pool \cup {t}
    /\ UNCHANGED <<channel, dbVars, procVars, exec, late, chain, ttl, rollbackDue, reorgs, conf>>

Answered(p, e) == exec' = [exec EXCEPT ![p] = [@ EXCEPT !.pc = "error", !.err = e]]

\* A failure that isPreInclusionReject accepts: the node refused the transaction.
WorkerRejected(p) ==
    /\ exec[p].pc = "sending"
    /\ LET t == exec[p].cur IN
       /\ t \in cleared[p] \cup pool /\ chain[t] = "none"
       /\ cleared' = [cleared EXCEPT ![p] = @ \ {t}]
       /\ pool' = pool \ {t}
    /\ Answered(p, "reject")
    /\ UNCHANGED <<channel, dbVars, procVars, late, chain, ttl, rollbackDue, reorgs, conf>>

\* No verdict: the request or watch phase, or the whole call, timed out.
WorkerAmbiguous(p) ==
    /\ exec[p].pc = "sending"
    /\ Answered(p, "ambiguous")
    /\ UNCHANGED <<channel, dbVars, procVars, late, cleared, netVars, conf>>

\* The worker exits or fails in another way; it sends nothing any more for this call.
WorkerFailed(p) ==
    /\ exec[p].pc = "sending"
    /\ cleared' = [cleared EXCEPT ![p] = @ \ {exec[p].cur}]
    /\ Answered(p, "internal")
    /\ UNCHANGED <<channel, dbVars, procVars, late, netVars, conf>>

\* The worker saw the transaction in a block.
WorkerLanded(p) ==
    /\ exec[p].pc = "sending"
    /\ \/ /\ chain[exec[p].cur] = "success"
          /\ exec' = [exec EXCEPT ![p] = [@ EXCEPT !.pc = "landed"]]
       \/ /\ chain[exec[p].cur] = "failure"
          /\ Answered(p, "notApplied")
    /\ UNCHANGED <<channel, dbVars, procVars, late, cleared, netVars, conf>>

-----------------------------------------------------------------------------
(* Booking a failed attempt. *)

PreInclusion(e) == e \in {"reject", "intent"}

\* rejectAnnouncedAttempt and failPreviousAttempt(.., true): one transaction closes the row, refunds
\* the reservation and takes the hash off the job. A node reject may be followed by a rebuild.
RejectionBooked(p) ==
    /\ exec[p].pc = "error" /\ PreInclusion(exec[p].err) /\ exec[p].led # NoTx
    /\ Mine(p, PastBoundary) /\ job.tx = exec[p].led
    /\ job' = [job EXCEPT !.status = "external_execution", !.tx = NoTx, !.chain = "null"]
    /\ row' = [row EXCEPT ![exec[p].led] = [@ EXCEPT !.status = "failed", !.code = "REJECTED"]]
    /\ charged' = charged - exec[p].resv
    /\ \E next \in IF exec[p].err = "reject" THEN {"run", "failed"} ELSE {"failed"} :
          exec' = [exec EXCEPT ![p] = [@ EXCEPT !.pc = next, !.led = NoTx, !.resv = 0]]
    /\ UNCHANGED <<channel, recorded, gen, procVars, late, cleared, netVars, conf>>

\* That transaction fails: the lease is gone, the hash moved, or the database refused it.
RejectionNotBooked(p) ==
    /\ exec[p].pc = "error" /\ PreInclusion(exec[p].err) /\ exec[p].led # NoTx
    /\ ~(Mine(p, PastBoundary) /\ job.tx = exec[p].led) \/ DbMayFail
    /\ exec' = [exec EXCEPT ![p] = [@ EXCEPT !.pc = "failed", !.err = "bookkeeping"]]
    /\ UNCHANGED <<channel, dbVars, procVars, late, cleared, netVars, conf>>

\* failPreviousAttempt(.., false): a sponsored attempt that failed in an unknown way is closed as
\* REBUILT; the reservation and the hash stay.
AttemptClosedAsRebuilt(p) ==
    /\ exec[p].pc = "error" /\ channel = "sponsor" /\ exec[p].err = "internal" /\ exec[p].led # NoTx
    /\ row' = [row EXCEPT ![exec[p].led] = [@ EXCEPT !.status = "failed", !.code = "REBUILT"]]
    /\ exec' = [exec EXCEPT ![p] = [@ EXCEPT !.pc = "failed", !.led = NoTx]]
    /\ UNCHANGED <<channel, job, charged, recorded, gen, procVars, late, cleared, netVars, conf>>

\* Every other failure leaves the rows as they are and ends the executor.
NothingToBook(p) ==
    /\ exec[p].pc = "error"
    /\ \/ exec[p].led = NoTx
       \/ exec[p].err \in {"ambiguous", "notApplied"}
       \/ exec[p].err = "internal" /\ (channel = "bound" \/ DbMayFail)
    /\ exec' = [exec EXCEPT ![p] = [@ EXCEPT !.pc = "failed"]]
    /\ UNCHANGED <<channel, dbVars, procVars, late, cleared, netVars, conf>>

-----------------------------------------------------------------------------
(* The job runner settles a failed or finished execution. *)

Idle(p) == exec' = [exec EXCEPT ![p] = IdleExec]

\* The runner's catch block reads the row; the write that follows is a statement of its own.
ReadFailedJob(p) ==
    /\ exec[p].pc = "failed"
    /\ exec' = [exec EXCEPT ![p] = [@ EXCEPT !.pc = "settle", !.snap = job.tx]]
    /\ UNCHANGED <<channel, dbVars, procVars, late, cleared, netVars, conf>>

\* Mutant: the write names the job only, not its owner and status.
MarkAlways(p, status, code) == job' = [Released(job) EXCEPT !.status = status, !.code = code]

\* markFailed and markReconciliationRequired: a lost lease or a failed write is only logged.
MarkUnlessLost(p, status, code) ==
    \/ /\ Mine(p, InFlight)
       /\ job' = [Released(job) EXCEPT !.status = status, !.code = code]
    \/ /\ ~Mine(p, InFlight) \/ DbMayFail
       /\ job' = job

ParkCode(e) == CASE e = "bookkeeping" -> "REJECTED_ATTEMPT_BOOKKEEPING_PENDING"
                 [] e = "ambiguous"   -> "BROADCAST_UNCONFIRMED"
                 [] OTHER             -> "EXTERNAL_EXECUTION_FAILED"

\* No hash was recorded when the row was read: the job fails.
SettleWithoutHash(p) ==
    /\ exec[p].pc = "settle" /\ exec[p].snap = NoTx
    /\ MarkUnlessLost(p, "failed", "NOT_SENT")
    /\ Idle(p)
    /\ UNCHANGED <<channel, row, charged, recorded, gen, procVars, late, cleared, netVars, conf>>

\* A hash was recorded: the job is parked for reconciliation.
SettleWithHash(p) ==
    /\ exec[p].pc = "settle" /\ exec[p].snap # NoTx
    /\ ~(channel = "sponsor" /\ exec[p].err = "notApplied")
    /\ MarkUnlessLost(p, "reconciliation_required", ParkCode(exec[p].err))
    /\ Idle(p)
    /\ UNCHANGED <<channel, row, charged, recorded, gen, procVars, late, cleared, netVars, conf>>

\* markChainFailureAfterBroadcast: a sponsored call that landed without applying is looked up again,
\* with the reorg generation read first.
SettleNotApplied(p) ==
    /\ exec[p].pc = "settle" /\ exec[p].snap # NoTx
    /\ channel = "sponsor" /\ exec[p].err = "notApplied"
    /\ conf[p].step = "idle"
    /\ conf' = [conf EXCEPT ![p] = [IdleConf EXCEPT !.step = "lookup", !.from = "flight",
                                                    !.tx = exec[p].snap, !.gen = gen]]
    /\ exec' = [exec EXCEPT ![p] = [@ EXCEPT !.pc = "chainFailure"]]
    /\ UNCHANGED <<channel, dbVars, procVars, late, cleared, netVars>>

\* A landed transaction: the attempt row becomes included, the result is recorded on grant, registry
\* and projections. The bound path first re-asserts the job's lease (markJobSubmitted); a failing write of the
\* sponsored path (recordOnGrant) is treated like a failure of the attempt.
RecordLanded(p) ==
    /\ exec[p].pc = "landed"
    /\ \/ /\ channel = "bound" => Mine(p, PastBoundary)
          /\ job' = IF channel = "bound"
                    THEN [job EXCEPT !.status = "submitted", !.tx = exec[p].cur, !.chain = "pending"]
                    ELSE job
          /\ row' = [row EXCEPT ![exec[p].cur] = [@ EXCEPT !.status = "included"]]
          /\ recorded' = TRUE
          /\ exec' = [exec EXCEPT ![p] = [@ EXCEPT !.pc = "returned"]]
       \/ /\ channel = "bound" /\ (~Mine(p, PastBoundary) \/ DbMayFail)
          /\ exec' = [exec EXCEPT ![p] = [@ EXCEPT !.pc = "failed", !.err = "internal"]]
          /\ UNCHANGED <<job, row, recorded>>
       \/ /\ channel = "sponsor" /\ DbMayFail
          /\ row' = [row EXCEPT ![exec[p].cur] = [@ EXCEPT !.status = "included"]]
          /\ Answered(p, "internal")
          /\ UNCHANGED <<job, recorded>>
    /\ UNCHANGED <<channel, charged, gen, procVars, late, cleared, netVars, conf>>

MarkSucceeded(p) ==
    /\ exec[p].pc = "returned"
    /\ \/ /\ Mine(p, InFlight)
          /\ job' = [Released(job) EXCEPT !.status = "succeeded"]
          /\ Idle(p)
       \/ /\ ~Mine(p, InFlight) \/ DbMayFail
          /\ exec' = [exec EXCEPT ![p] = [@ EXCEPT !.pc = "persist"]]
          /\ job' = job
    /\ UNCHANGED <<channel, row, charged, recorded, gen, procVars, late, cleared, netVars, conf>>

\* The result could not be stored: RESULT_PERSIST_FAILED, unless that write is lost too.
ResultNotPersisted(p) ==
    /\ exec[p].pc = "persist"
    /\ MarkUnlessLost(p, "failed", "RESULT_PERSIST_FAILED")
    /\ Idle(p)
    /\ UNCHANGED <<channel, row, charged, recorded, gen, procVars, late, cleared, netVars, conf>>

-----------------------------------------------------------------------------
(* The poller's passes. *)

\* reclaimExpiredLeases: a running job without a recent heartbeat. A process may stall at any point,
\* so the heartbeat's age is not modelled.
ReclaimExpiredLease(p) ==
    /\ phase[p] = "up" /\ job.status = "running"
    /\ job' = IF job.attempt > MaxReclaims
              THEN [Released(job) EXCEPT !.status = "failed", !.code = "LEASE_EXPIRED"]
              ELSE [Released(job) EXCEPT !.status = "pending", !.attempt = @ + 1]
    /\ UNCHANGED <<channel, row, charged, recorded, gen, procVars, execVars, netVars, conf>>

\* settleRejectedSponsorAttempts: finishes a rejection whose bookkeeping failed.
SettleRejectedAttempt(p) ==
    /\ phase[p] = "up"
    /\ job.status = "reconciliation_required" /\ job.code = "REJECTED_ATTEMPT_BOOKKEEPING_PENDING"
    /\ IF job.tx # NoTx /\ row[job.tx].status = "pending"
       THEN /\ row' = [row EXCEPT ![job.tx] = [@ EXCEPT !.status = "failed", !.code = "REJECTED"]]
            /\ charged' = IF channel = "sponsor" THEN charged - 1 ELSE charged
       ELSE UNCHANGED <<row, charged>>
    /\ job' = [job EXCEPT !.status = "failed", !.tx = NoTx, !.chain = "null",
                          !.code = "SPONSOR_ATTEMPT_REJECTED"]
    /\ UNCHANGED <<channel, recorded, gen, procVars, execVars, netVars, conf>>

\* confirmChainOutcomesViaIndexer picks a parked job, or a succeeded one without an outcome, and
\* reads the reorg generation.
ConfirmRead(p) ==
    /\ phase[p] = "up" /\ conf[p].step = "idle" /\ job.tx # NoTx
    /\ \/ job.status = "reconciliation_required"
       \/ job.status = "succeeded" /\ job.chain \in {"pending", "null"}
    /\ conf' = [conf EXCEPT ![p] =
          [step |-> "lookup", tx |-> job.tx, was |-> job.chain, code |-> job.code, gen |-> gen,
           from |-> IF job.status = "succeeded" THEN "succeeded" ELSE "recon", res |-> "unknown"]]
    /\ UNCHANGED <<channel, dbVars, procVars, execVars, netVars>>

\* Mutant: a transaction past its validity window is never reported as lost.
LookupNeverLost(p) ==
    /\ conf[p].step = "lookup"
    /\ conf' = [conf EXCEPT ![p] = [@ EXCEPT !.step = "write",
          !.res = IF chain[conf[p].tx] # "none" THEN chain[conf[p].tx] ELSE "unknown"]]
    /\ UNCHANGED <<channel, dbVars, procVars, execVars, netVars>>

\* createHttpTxConfirmer: the outcome on the chain the indexer follows; "lost" when it does not know
\* the transaction as of a tip past ttl and margin; "unknown" otherwise.
Lookup(p) ==
    /\ conf[p].step = "lookup"
    /\ conf' = [conf EXCEPT ![p] = [@ EXCEPT !.step = "write",
          !.res = IF chain[conf[p].tx] # "none" THEN chain[conf[p].tx]
                  ELSE IF ttl[conf[p].tx] = "buried" THEN "lost" ELSE "unknown"]]
    /\ UNCHANGED <<channel, dbVars, procVars, execVars, netVars>>

\* The indexer does not answer.
LookupFails(p) ==
    /\ conf[p].step = "lookup"
    /\ conf' = [conf EXCEPT ![p] = [@ EXCEPT !.step = "write", !.res = "unknown"]]
    /\ UNCHANGED <<channel, dbVars, procVars, execVars, netVars>>

\* The where clause of the job update in finalizeIdentifierKeyedJob and its bound counterpart.
StillOpen(p) ==
    CASE conf[p].from = "recon"     -> job.status = "reconciliation_required"
      [] conf[p].from = "flight"    -> Mine(p, InFlight)
      [] conf[p].from = "succeeded" -> job.status = "succeeded" /\ job.chain = conf[p].was

\* Ends the lookup; a job runner that waited for it is done as well.
ConfDone(p) ==
    /\ conf' = [conf EXCEPT ![p] = IdleConf]
    /\ exec' = IF conf[p].from = "flight" THEN [exec EXCEPT ![p] = IdleExec] ELSE exec

\* finalizeIdentifierKeyedJob: job and attempt row in one transaction that first compares the reorg
\* generation. Only a parked job runs the finalizer that records the result.
RecordOutcome(p) ==
    /\ conf[p].step = "write" /\ conf[p].res \in Outcomes
    /\ gen = conf[p].gen /\ StillOpen(p)
    /\ LET t == conf[p].tx
           r == conf[p].res IN
       /\ job' = IF conf[p].from = "succeeded"
                 THEN [job EXCEPT !.chain = r, !.evid = TRUE]
                 ELSE [Released(job) EXCEPT
                         !.status = IF r = "success" THEN "succeeded" ELSE "failed",
                         !.code = IF r = "success" THEN "none" ELSE "CHAIN_EXECUTION_FAILED",
                         !.chain = r, !.evid = TRUE]
       /\ row' = IF /\ channel = "bound" /\ conf[p].from = "succeeded"
                    /\ row[t].status \notin {"pending", "included"}
                 THEN row
                 ELSE [row EXCEPT ![t] =
                         [status |-> IF r = "success" THEN "finalized" ELSE "failed",
                          code |-> IF r = "success" THEN @.code ELSE "CHAIN_EXECUTION_FAILED",
                          evid |-> TRUE]]
       /\ recorded' = (recorded \/ (conf[p].from = "recon" /\ r = "success"))
    /\ ConfDone(p)
    /\ UNCHANGED <<channel, charged, gen, procVars, late, cleared, netVars>>

\* finalizeLostBroadcast: never included. Only a row closed here gives its reservation back.
FinalizeLostBroadcast(p) ==
    /\ conf[p].step = "write" /\ conf[p].res = "lost" /\ conf[p].from = "recon"
    /\ conf[p].code # "REJECTED_ATTEMPT_BOOKKEEPING_PENDING"
    /\ gen = conf[p].gen /\ StillOpen(p)
    /\ job' = [job EXCEPT !.status = "failed", !.chain = "dropped", !.code = "BROADCAST_NOT_INCLUDED"]
    /\ LET t == conf[p].tx IN
       IF row[t].status = "pending"
       THEN /\ row' = [row EXCEPT ![t] = [@ EXCEPT !.status = "failed",
                                                   !.code = "BROADCAST_NOT_INCLUDED"]]
            /\ charged' = IF channel = "sponsor" THEN charged - 1 ELSE charged
       ELSE UNCHANGED <<row, charged>>
    /\ ConfDone(p)
    /\ UNCHANGED <<channel, recorded, gen, procVars, late, cleared, netVars>>

\* No verdict, or the write was refused. A job runner that waited for it parks the job. The finalizer
\* runs before the job update, so its writes stay even when the job was settled by another process.
NoVerdict(p) ==
    /\ conf[p].step = "write"
    /\ \/ conf[p].res \in Outcomes /\ (gen # conf[p].gen \/ ~StillOpen(p) \/ DbMayFail)
       \/ conf[p].res = "unknown"
       \/ /\ conf[p].res = "lost"
          /\ \/ conf[p].from # "recon" \/ conf[p].code = "REJECTED_ATTEMPT_BOOKKEEPING_PENDING"
             \/ gen # conf[p].gen \/ ~StillOpen(p) \/ DbMayFail
    /\ IF conf[p].from = "flight"
       THEN MarkUnlessLost(p, "reconciliation_required", "CHAIN_EXECUTION_FAILED_UNCONFIRMED")
       ELSE job' = job
    /\ recorded' = (recorded \/ (/\ conf[p].from = "recon" /\ conf[p].res = "success"
                                 /\ gen = conf[p].gen /\ ~StillOpen(p)))
    /\ ConfDone(p)
    /\ UNCHANGED <<channel, row, charged, gen, procVars, late, cleared, netVars>>

-----------------------------------------------------------------------------
(* Processes: crash, takeover of the instance lease, restart recovery. *)

\* The process ends at any point. Its worker thread and its open calls end with it. It is not modelled
\* when no start is left, so that some process can always serve the database again.
Crash(p) ==
    /\ phase[p] # "down" /\ restarts < MaxRestarts
    /\ phase' = [phase EXCEPT ![p] = "down"]
    /\ fenced' = [fenced EXCEPT ![p] = FALSE]
    /\ exec' = [exec EXCEPT ![p] = IdleExec]
    /\ late' = {h \in late : h.proc # p}
    /\ cleared' = [cleared EXCEPT ![p] = {}]
    /\ conf' = [conf EXCEPT ![p] = IdleConf]
    /\ UNCHANGED <<channel, dbVars, holder, restarts, netVars>>

\* initialize acquires the instance lease: the row is free, or its holder did not refresh it in time.
\* That holder may be alive all the same.
Takeover(p) ==
    /\ phase[p] = "down" /\ restarts < MaxRestarts
    /\ holder' = p
    /\ restarts' = restarts + 1
    /\ phase' = [phase EXCEPT ![p] = "requeueRunning"]
    /\ UNCHANGED <<channel, dbVars, fenced, execVars, netVars, conf>>

\* onInstanceLeaseLost: the heartbeat finds another holder; loops stop, runs in progress go on.
LeaseLostNoticed(p) ==
    /\ phase[p] \notin {"down", "offline"} /\ holder # p
    /\ fenced' = [fenced EXCEPT ![p] = TRUE]
    /\ phase' = [phase EXCEPT ![p] = "offline"]
    /\ UNCHANGED <<channel, dbVars, holder, restarts, execVars, netVars, conf>>

\* One statement of recoverInterruptedJobs: a job that matches is changed to j.
Recover(p, now, next, match, j) ==
    /\ phase[p] = now
    /\ job' = IF match THEN j ELSE job
    /\ phase' = [phase EXCEPT ![p] = next]
    /\ UNCHANGED <<channel, row, charged, recorded, gen, holder, fenced, restarts, execVars, netVars, conf>>

\* Mutant: every interrupted job runs again.
RequeueInFlight(p) ==
    Recover(p, "requeueRunning", "failHashless", job.status \in InFlight,
            [Released(job) EXCEPT !.status = "pending", !.code = "none"])

\* A running job has sent nothing yet, so it runs again.
RequeueRunning(p) ==
    Recover(p, "requeueRunning", "failHashless", job.status = "running",
            [Released(job) EXCEPT !.status = "pending", !.code = "none"])

\* Mutant: a job past the boundary fails although its hash is recorded.
FailInFlight(p) ==
    Recover(p, "failHashless", "parkInFlight", job.status \in PastBoundary,
            [Released(job) EXCEPT !.status = "failed", !.code = "PROCESS_RESTART_BEFORE_BROADCAST"])

\* A job past the boundary that recorded no hash has sent nothing: it fails.
FailHashless(p) ==
    Recover(p, "failHashless", "parkInFlight", job.status = "external_execution" /\ job.tx = NoTx,
            [Released(job) EXCEPT !.status = "failed", !.code = "PROCESS_RESTART_BEFORE_BROADCAST"])

\* Mutant: parks the job in a status that is none of the column's values.
ParkMisspelt(p) ==
    Recover(p, "parkInFlight", "closeSessions", job.status \in PastBoundary,
            [Released(job) EXCEPT !.status = "reconcile", !.code = "PROCESS_RESTART_RECONCILE"])

\* One that recorded a hash may be on chain: it is parked for the confirmer.
ParkInFlight(p) ==
    Recover(p, "parkInFlight", "closeSessions", job.status \in PastBoundary,
            [Released(job) EXCEPT !.status = "reconciliation_required",
                                  !.code = "PROCESS_RESTART_RECONCILE"])

\* dropPendingJobsForClosedSessions, if the job signs with a session that the restart closed. Then
\* the job poller starts.
CloseSessions(p) ==
    \E closed \in BOOLEAN :
       Recover(p, "closeSessions", "up", closed /\ job.status = "pending",
               [Released(job) EXCEPT !.status = "failed", !.code = "PROCESS_RESTART_SESSION_CLOSED"])

\* initialize only logs a recovery that fails.
RecoverySkipped(p) ==
    /\ DbMayFail /\ phase[p] \in {"requeueRunning", "failHashless", "parkInFlight"}
    /\ phase' = [phase EXCEPT ![p] = "closeSessions"]
    /\ UNCHANGED <<channel, dbVars, holder, fenced, restarts, execVars, netVars, conf>>

-----------------------------------------------------------------------------
(* The chain (external), and the crawler's rollback of recorded outcomes. *)

\* A block includes a transaction within its validity window.
Include(t, r) ==
    /\ t \in pool /\ chain[t] = "none" /\ ttl[t] = "valid"
    /\ chain' = [chain EXCEPT ![t] = r]
    /\ UNCHANGED <<channel, dbVars, procVars, execVars, pool, ttl, rollbackDue, reorgs, conf>>

\* A reorganisation replaces t's block: t is gone, or applies differently. Blocks older than ttl and
\* NIGHTGATE_BROADCAST_EXPIRY_MARGIN_MS are final.
Reorg(t, r) ==
    /\ reorgs < MaxReorgs
    /\ t \in pool /\ ttl[t] # "buried" /\ chain[t] # "none" /\ r # chain[t]
    /\ chain' = [chain EXCEPT ![t] = r]
    /\ rollbackDue' = TRUE
    /\ reorgs' = reorgs + 1
    /\ UNCHANGED <<channel, dbVars, procVars, execVars, pool, ttl, conf>>

Expire(t) ==
    /\ ttl[t] = "valid"
    /\ ttl' = [ttl EXCEPT ![t] = "expired"]
    /\ UNCHANGED <<channel, dbVars, procVars, execVars, pool, chain, rollbackDue, reorgs, conf>>

\* The indexer's tip passes ttl and margin.
Bury(t) ==
    /\ ttl[t] = "expired"
    /\ ttl' = [ttl EXCEPT ![t] = "buried"]
    /\ UNCHANGED <<channel, dbVars, procVars, execVars, pool, chain, rollbackDue, reorgs, conf>>

\* revertSubmissionEvidence on an attempt row.
RowReverted(r) ==
    CASE ~r.evid -> r
      [] r.evid /\ r.status \in {"included", "finalized"} ->
            [r EXCEPT !.status = "pending", !.evid = FALSE]
      [] r.evid /\ r.status = "failed" /\ r.code = "CHAIN_EXECUTION_FAILED" ->
            [status |-> "pending", code |-> "none", evid |-> FALSE]
      [] OTHER -> r

\* Mutant: a succeeded job keeps the outcome of the block that was rolled back.
JobRevertedIfFailed(j) ==
    IF j.evid /\ j.status = "failed" /\ j.code = "CHAIN_EXECUTION_FAILED"
    THEN [j EXCEPT !.status = "reconciliation_required", !.chain = "pending", !.code = "none",
                   !.evid = FALSE]
    ELSE j

\* Mutant: every job with evidence is parked again, the succeeded ones too.
JobReopened(j) ==
    IF j.evid /\ j.chain \in Outcomes
    THEN [j EXCEPT !.status = "reconciliation_required", !.chain = "pending", !.code = "none",
                   !.evid = FALSE]
    ELSE j

\* revertSubmissionEvidence on the job: a chain failure is open again, a success is to be confirmed.
JobReverted(j) ==
    CASE ~j.evid -> j
      [] j.evid /\ j.status = "failed" /\ j.code = "CHAIN_EXECUTION_FAILED" ->
            [j EXCEPT !.status = "reconciliation_required", !.chain = "pending", !.code = "none",
                      !.evid = FALSE]
      [] j.evid /\ ~(j.status = "failed" /\ j.code = "CHAIN_EXECUTION_FAILED") /\ j.chain \in Outcomes ->
            [j EXCEPT !.chain = "pending", !.evid = FALSE]
      [] OTHER -> j

\* rollbackIndexedDataFromHeight: one transaction that also advances the reorg generation.
Rollback ==
    /\ rollbackDue /\ \E p \in Procs : phase[p] = "up"
    /\ rollbackDue' = FALSE
    /\ gen' = gen + 1
    /\ row' = [t \in Txs |-> RowReverted(row[t])]
    /\ job' = JobReverted(job)
    /\ UNCHANGED <<channel, charged, recorded, procVars, execVars, pool, chain, ttl, reorgs, conf>>

-----------------------------------------------------------------------------
Execution(p) ==
    \/ Claim(p) \/ ReportExternalExecution(p) \/ AttemptFails(p)
    \/ \E t \in Txs : AnnounceSubmitIntent(p, t)
    \/ AssertLeaseHeld(p) \/ SubmitIntentStored(p) \/ SubmitIntentRefused(p)
    \/ SubmitIntentAbandoned(p)
    \/ \E t \in Txs : WorkerSends(p, t)
    \/ WorkerRejected(p) \/ WorkerAmbiguous(p) \/ WorkerFailed(p) \/ WorkerLanded(p)
    \/ RejectionBooked(p) \/ RejectionNotBooked(p) \/ AttemptClosedAsRebuilt(p) \/ NothingToBook(p)
    \/ ReadFailedJob(p) \/ SettleWithoutHash(p) \/ SettleWithHash(p) \/ SettleNotApplied(p)
    \/ RecordLanded(p) \/ MarkSucceeded(p) \/ ResultNotPersisted(p)

LateHook == \E h \in late : LateHookStored(h) \/ LateHookFails(h)

Passes(p) ==
    \/ ReclaimExpiredLease(p) \/ SettleRejectedAttempt(p)
    \/ ConfirmRead(p) \/ Lookup(p) \/ LookupFails(p)
    \/ RecordOutcome(p) \/ FinalizeLostBroadcast(p) \/ NoVerdict(p)

Lifecycle(p) ==
    \/ Crash(p) \/ Takeover(p) \/ LeaseLostNoticed(p)
    \/ RequeueRunning(p) \/ FailHashless(p) \/ ParkInFlight(p) \/ CloseSessions(p)
    \/ RecoverySkipped(p)

Chain ==
    \/ \E t \in Txs, r \in Outcomes : Include(t, r)
    \/ \E t \in Txs, r \in Outcomes \cup {"none"} : Reorg(t, r)
    \/ \E t \in Txs : Expire(t) \/ Bury(t)

Next ==
    \/ \E p \in Procs : Execution(p) \/ Passes(p) \/ Lifecycle(p)
    \/ LateHook \/ Chain \/ Rollback

Spec == Init /\ [][Next]_vars

\* The poller runs every two seconds and a process that stopped is started again; time passes, so
\* validity windows end; the crawler rolls back a reorg it sees; the indexer answers again and again,
\* and a database that refuses writes takes some of them. A step of a process that only one phase
\* allows needs no condition of its own.
Fairness ==
    /\ \A p \in Procs :
          /\ WF_vars(Takeover(p) \/ RequeueRunning(p) \/ FailHashless(p) \/ ParkInFlight(p) \/ CloseSessions(p))
          /\ WF_vars(SettleRejectedAttempt(p)) /\ WF_vars(ConfirmRead(p)) /\ SF_vars(Lookup(p))
          /\ SF_vars(RecordOutcome(p) \/ FinalizeLostBroadcast(p)) /\ WF_vars(NoVerdict(p))
    /\ \A t \in Txs : WF_vars(Expire(t) \/ Bury(t))
    /\ WF_vars(Rollback)

FairSpec == Spec /\ Fairness

-----------------------------------------------------------------------------
(* Properties. *)

JobRows == [status : Statuses, owner : {NoOwner} \cup {WorkerId[p] : p \in Procs},
            tx : Txs \cup {NoTx}, chain : ChainStatuses, code : Codes, evid : BOOLEAN, attempt : Nat]
AttemptRows == [status : RowStatuses, code : RowCodes, evid : BOOLEAN]
Execs == [pc : Pcs, cur : Txs \cup {NoTx}, led : Txs \cup {NoTx}, err : Errors, snap : Txs \cup {NoTx},
          crossed : BOOLEAN, resv : {0, 1}, chk : BOOLEAN]
Confs == [step : {"idle", "lookup", "write"}, from : {"recon", "flight", "succeeded"},
          tx : Txs \cup {NoTx}, was : ChainStatuses, code : Codes, gen : Nat,
          res : {"unknown", "lost"} \cup Outcomes]

\* The rows, the executions and the lookups keep their types: the columns' enums of
\* db/schema.cds and the states of the code between two awaits.
TypeOK ==
    /\ channel \in {"bound", "sponsor"}
    /\ job \in JobRows
    /\ row \in [Txs -> AttemptRows]
    /\ charged \in Int /\ recorded \in BOOLEAN /\ gen \in Nat
    /\ holder \in Procs
    /\ phase \in [Procs -> Phases] /\ fenced \in [Procs -> BOOLEAN] /\ restarts \in Nat
    /\ exec \in [Procs -> Execs]
    /\ late \in SUBSET LateHooks
    /\ cleared \in [Procs -> SUBSET Txs]
    /\ pool \in SUBSET Txs
    /\ chain \in [Txs -> {"none"} \cup Outcomes]
    /\ ttl \in [Txs -> {"unbuilt", "valid", "expired", "buried"}]
    /\ rollbackDue \in BOOLEAN /\ reorgs \in Nat
    /\ conf \in [Procs -> Confs]

\* Over all attempts, processes and restarts, only the transaction whose hash the job row names can
\* reach the chain. This is what allows restart recovery and the confirmer to look at job.txHash only.
OnlyJobHashCanLand == \A t \in Txs : Landable(t) => job.tx = t

\* A job that may be claimed and executed has nothing that can still land: no restart, reclaimed
\* lease or takeover leads to a second transaction (job-scheduler.ts: "could pay a second fee").
NoReplayAfterSend == job.status \in {"pending", "running"} => \A t \in Txs : ~Landable(t)

\* When the job failed with a code that tells the caller that nothing is on chain, nothing is, and
\* nothing will be.
NothingSentIsTrue ==
    job.status = "failed" /\ job.code \in NothingSentCodes =>
       \A t \in Txs : chain[t] = "none" /\ (Landable(t) => ttl[t] = "buried")

\* Outside the window between a reorg and its rollback, an outcome recorded on the job is the
\* outcome on the canonical chain: the generation check leaves no stale lookup behind.
OutcomeIsCurrent == ~rollbackDue /\ job.chain \in Outcomes => chain[job.tx] = job.chain

\* The deploy budget of the grant is charged exactly once for a sponsored transaction on chain, and
\* a refund is never given twice.
ChargedOnce ==
    /\ charged \in {0, 1}
    /\ channel = "sponsor" /\ (\E t \in Txs : chain[t] # "none") => charged = 1

\* A finished job stays finished, except that a reorg reopens one that failed on chain.
FinishedIsFinal ==
    [][/\ job.status = "succeeded" => job'.status = "succeeded"
       /\ job.status = "failed" /\ job'.status # "failed" =>
             rollbackDue /\ job.code = "CHAIN_EXECUTION_FAILED" /\ job'.status = "reconciliation_required"
      ]_vars

\* A parked job is eventually settled by the confirmer or by the rejected-attempt pass.
ParkedIsSettled == job.status = "reconciliation_required" ~> job.status # "reconciliation_required"

\* "A lost sponsored deploy refunds its deploy reservation" (CHANGELOG.md).
LostDeployRefunded == job.status = "failed" /\ job.code = "BROADCAST_NOT_INCLUDED" => charged = 0

\* "A job settled after a lost send gets the same result as a normal run." (job-reconciliation.ts): what a
\* normal run records on grant, registry and projections is recorded, whoever settles the job, unless the
\* chain was reorganised.
SucceededIsRecorded == job.status = "succeeded" /\ reorgs = 0 => recorded

=============================================================================
