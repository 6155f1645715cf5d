------------------------------ MODULE Disclosure ------------------------------
(***************************************************************************)
(* One row of DisclosureGrants: what a grantee may read of a document,     *)
(* copied from the attestation contract (actions/disclosure.ts,            *)
(* actions/context.ts, disclosure-indexer.ts, executors/contract-command.ts*)
(* and finalizers/reconciliation.ts). Grants, revocations and retractions  *)
(* land in one order; their confirmations and the reads of the contract    *)
(* state are applied in another. Every database statement is one step.     *)
(* A read that fails is tried again by a stored job until its time is up;  *)
(* the first one after a recovered job is in memory only.                  *)
(*                                                                         *)
(* Level 0 stands for no grant, NoHeight for a height that is null.        *)
(***************************************************************************)
EXTENDS Integers, Sequences, FiniteSets

CONSTANTS
    Jobs,        \* grantDisclosure, revokeDisclosure and retract requests for the row
    Levels,      \* levels a grant may give
    MaxHeight,   \* bound: blocks
    MaxReindexes,\* bound: calls of the action reindexDisclosures
    MaxFailures, \* bound: reads of the contract state that fail
    MaxCrashes   \* bound: crashes of the server

VARIABLES
    changes, \* the contract: changes [height, level] in the order they were applied
    tip,     \* height of the newest block
    row,     \* the row, exists FALSE while there is none
    job,     \* jobs: step, operation, level, whether the row was there, its pendingLevel, landed height
    queue,   \* reindexChains: reindexes [by, at] of the contract, one at a time
    run,     \* the reindex at the head: step, height, level read, the row as selected
    spent    \* reindex calls made, failures and crashes met, whether a state was read without a height, and whether a failed start
             \* removed the row while another grant counted on it

disclosureVars == <<changes, tip, row, job, queue, run, spent>>

NoHeight == -1
None == 0
Ops == {"grant", "revoke", "retract"}
Operator == "operator"

NewJob == [step |-> "new", op |-> "grant", level |-> None, had |-> FALSE, pending |-> None, landed |-> NoHeight]
NoRow == [exists |-> FALSE, active |-> FALSE, level |-> None, pending |-> None, revoked |-> FALSE, height |-> NoHeight]
NoRun == [step |-> "idle", height |-> NoHeight, level |-> None, had |-> FALSE, rowHeight |-> NoHeight, revoked |-> FALSE]

\* the contract may hold a grant of before, which this database has no row for
DisclosureInit ==
    /\ changes \in {<<>>} \cup {<<[height |-> 0, level |-> level]>> : level \in Levels}
    /\ tip = 0 /\ row = NoRow /\ queue = <<>> /\ run = NoRun
    /\ job = [j \in Jobs |-> NewJob]
    /\ spent = [reindexes |-> 0, failures |-> 0, crashes |-> 0, blind |-> FALSE, dropped |-> FALSE]

LevelAt(h) ==
    LET upTo == {i \in DOMAIN changes : changes[i].height <= h}
    IN  IF upTo = {} THEN None ELSE changes[CHOOSE i \in upTo : \A k \in upTo : k <= i].level

-----------------------------------------------------------------------------
(* The contract.                                                           *)

\* a block applies some of the calls, in some order; a result carries the height, or it stays unknown
mineBlock(calls, known) ==
    /\ tip < MaxHeight
    /\ \A i \in DOMAIN calls : job[calls[i]].step = "queued"
    /\ \A i, k \in DOMAIN calls : calls[i] = calls[k] => i = k
    /\ tip' = tip + 1
    /\ changes' = changes \o [i \in DOMAIN calls |-> [height |-> tip + 1, level |-> job[calls[i]].level]]
    /\ job' = [j \in Jobs |-> IF \E i \in DOMAIN calls : calls[i] = j
                              THEN [job[j] EXCEPT !.step = "landed", !.landed = IF known THEN tip + 1 ELSE NoHeight]
                              ELSE job[j]]
    /\ UNCHANGED <<row, queue, run, spent>>

-----------------------------------------------------------------------------
(* The requests.                                                           *)

grantDisclosure(j, level) ==
    /\ job[j].step = "new"
    /\ job' = [job EXCEPT ![j] = [NewJob EXCEPT !.step = "read", !.level = level, !.had = row.exists, !.pending = row.pending]]
    /\ UNCHANGED <<changes, tip, row, queue, run, spent>>

\* Mutant: an existing row shows the requested level before the chain took it.
storeGrantAtOnce(j) ==
    LET g == job[j]
    IN  /\ g.step = "read"
        /\ row' = IF ~row.exists /\ ~g.had THEN [NoRow EXCEPT !.exists = TRUE, !.level = g.level]
                  ELSE IF row.exists /\ g.had THEN [row EXCEPT !.level = g.level] ELSE row
        /\ job' = [job EXCEPT ![j].step = IF row.exists /\ ~g.had THEN "ended" ELSE "starting"]
        /\ UNCHANGED <<changes, tip, queue, run, spent>>

\* a new grant's row is inactive, and only one is inserted; an existing one keeps its confirmed level
storeGrant(j) ==
    LET g == job[j]
    IN  /\ g.step = "read"
        /\ row' = IF ~row.exists /\ ~g.had THEN [NoRow EXCEPT !.exists = TRUE, !.level = g.level]
                  ELSE IF row.exists /\ g.had THEN [row EXCEPT !.pending = g.level] ELSE row
        /\ job' = [job EXCEPT ![j].step = IF row.exists /\ ~g.had THEN "ended" ELSE "starting"]
        /\ UNCHANGED <<changes, tip, queue, run, spent>>

\* the job is stored, or it could not be and the row's change is undone, or an equal one exists
startJob(j) ==
    LET g == job[j]
        mine == row.exists /\ row.pending = g.level
    IN  /\ g.step = "starting"
        /\ \/ /\ job' = [job EXCEPT ![j].step = "queued"]
              /\ UNCHANGED <<row, spent>>
           \/ /\ job' = [job EXCEPT ![j].step = "ended"]
              /\ row' = IF ~g.had THEN NoRow ELSE IF mine THEN [row EXCEPT !.pending = None] ELSE row
              /\ spent' = [spent EXCEPT !.dropped = @ \/ (~g.had /\ \E k \in Jobs : job[k].had /\ job[k].step # "ended")]
           \/ /\ g.had
              /\ job' = [job EXCEPT ![j].step = "ended"]
              /\ row' = IF mine THEN [row EXCEPT !.pending = g.pending] ELSE row
              /\ UNCHANGED spent
        /\ UNCHANGED <<changes, tip, queue, run>>

revokeDisclosure(j, op) ==
    /\ job[j].step = "new"
    /\ job' = [job EXCEPT ![j] = [NewJob EXCEPT !.step = "queued", !.op = op]]
    /\ UNCHANGED <<changes, tip, row, queue, run, spent>>

\* the chain did not take the change
clearPendingDisclosureLevel(j) ==
    /\ job[j].step = "queued"
    /\ job' = [job EXCEPT ![j].step = "ended"]
    /\ row' = IF job[j].op = "grant" /\ row.pending = job[j].level THEN [row EXCEPT !.pending = None] ELSE row
    /\ UNCHANGED <<changes, tip, queue, run, spent>>

-----------------------------------------------------------------------------
(* A landed job: the executor's write, or the finalizer's after a restart.  *)

\* without a height only a row without one matches
notNewerThan(h) == IF h = NoHeight THEN row.height = NoHeight ELSE row.height = NoHeight \/ row.height < h

heightStamp(h) == IF h = NoHeight THEN row.height ELSE h

\* active is not set here, the reindex reads it from the contract
confirmedDisclosureLevel(level, h) ==
    [row EXCEPT !.level = level, !.pending = None, !.revoked = FALSE, !.height = heightStamp(h)]

confirmedRevoke(h) == [row EXCEPT !.revoked = TRUE, !.active = FALSE, !.height = heightStamp(h)]

\* the reindex follows, unless the contract's artifact cannot be resolved
finalizeContractProjection(j) ==
    LET g == job[j]
    IN  /\ g.step = "landed"
        /\ row' = IF ~row.exists \/ ~notNewerThan(g.landed) THEN row
                  ELSE IF g.op = "grant" THEN confirmedDisclosureLevel(g.level, g.landed)
                  ELSE IF g.op = "revoke" \/ row.active THEN confirmedRevoke(g.landed) ELSE row
        /\ \/ /\ job' = [job EXCEPT ![j].step = "reindex"]
              /\ queue' = Append(queue, [by |-> j, at |-> g.landed])
           \/ /\ job' = [job EXCEPT ![j].step = "unread"]
              /\ UNCHANGED queue
        /\ UNCHANGED <<changes, tip, run, spent>>

-----------------------------------------------------------------------------
(* The reindex.                                                            *)

\* the action: no height is given
runDisclosureReindex ==
    /\ spent.reindexes < MaxReindexes
    /\ spent' = [spent EXCEPT !.reindexes = @ + 1]
    /\ queue' = Append(queue, [by |-> Operator, at |-> NoHeight])
    /\ UNCHANGED <<changes, tip, row, job, run>>

\* one at a time for the contract; without a height the tip is asked for, and the newest state is read
\* when that fails too
reindexDisclosures ==
    /\ queue # <<>> /\ run.step = "idle"
    /\ \E h \in IF Head(queue).at # NoHeight THEN {Head(queue).at} ELSE {tip, NoHeight} :
          /\ run' = [NoRun EXCEPT !.step = "read", !.height = h]
          /\ spent' = [spent EXCEPT !.blind = @ \/ h = NoHeight]
    /\ UNCHANGED <<changes, tip, row, job, queue>>

readGrants ==
    /\ run.step = "read"
    /\ LET level == IF run.height = NoHeight THEN LevelAt(tip) ELSE LevelAt(run.height)
       IN  run' = [run EXCEPT !.step = IF level = None THEN "sweep" ELSE "select", !.level = level]
    /\ UNCHANGED <<changes, tip, row, job, queue, spent>>

selectRow ==
    /\ run.step \in {"select", "sweep"}
    /\ run' = [run EXCEPT !.step = IF run.step = "select" THEN "update" ELSE "deactivate",
                          !.had = IF run.step = "select" THEN row.exists ELSE row.exists /\ row.active,
                          !.rowHeight = row.height, !.revoked = row.revoked]
    /\ UNCHANGED <<changes, tip, row, job, queue, spent>>

\* a read at a job's height or above makes up for one that was given up
Finished ==
    /\ run' = NoRun
    /\ queue' = Tail(queue)
    /\ job' = [j \in Jobs |->
                  IF j = Head(queue).by \/ (job[j].step = "unread" /\ run.height # NoHeight /\ run.height >= job[j].landed)
                  THEN [job[j] EXCEPT !.step = "ended"] ELSE job[j]]

\* a later change of the row is kept; a read without a height does not undo a confirmed revoke
keepsRow ==
    \/ run.height # NoHeight /\ run.rowHeight # NoHeight /\ run.rowHeight > run.height
    \/ run.height = NoHeight /\ run.rowHeight # NoHeight /\ run.revoked

reindexOnce ==
    /\ run.step = "update"
    /\ ~run.had => ~row.exists
    /\ row' = IF ~run.had
              THEN [NoRow EXCEPT !.exists = TRUE, !.active = TRUE, !.level = run.level, !.height = run.height]
              ELSE IF keepsRow \/ ~row.exists \/ row.height # run.rowHeight THEN row
              ELSE [row EXCEPT !.level = run.level, !.active = TRUE, !.revoked = FALSE, !.height = heightStamp(run.height)]
    /\ Finished
    /\ UNCHANGED <<changes, tip, spent>>

\* a row that is gone on chain; without heights to compare, one changed a short time ago stays
sweepRow ==
    /\ run.step = "deactivate"
    /\ \E recent \in BOOLEAN :
          LET kept == IF run.height # NoHeight /\ run.rowHeight # NoHeight THEN run.rowHeight > run.height ELSE recent
          IN  row' = IF ~run.had \/ kept \/ ~row.exists \/ row.height # run.rowHeight THEN row
                     ELSE [row EXCEPT !.active = FALSE, !.height = heightStamp(run.height)]
    /\ Finished
    /\ UNCHANGED <<changes, tip, spent>>

\* The indexer does not answer, or another write inserted the row first. A job tries again, until its time is up
\* (DISCLOSURE_REINDEX_FAILED) or when the retry cannot be stored.
reindexFails ==
    /\ \/ run.step = "read" /\ spent.failures < MaxFailures /\ spent' = [spent EXCEPT !.failures = @ + 1]
       \/ run.step = "update" /\ ~run.had /\ row.exists /\ UNCHANGED spent
    /\ run' = NoRun
    /\ \/ /\ Head(queue).by \in Jobs
          /\ queue' = Append(Tail(queue), Head(queue))
          /\ UNCHANGED job
       \/ /\ queue' = Tail(queue)
          /\ job' = [j \in Jobs |-> IF j = Head(queue).by THEN [job[j] EXCEPT !.step = "unread"] ELSE job[j]]
    /\ UNCHANGED <<changes, tip, row>>

\* A crash between two steps. A request is gone, what it wrote stays. A reindex waits on as a stored retry; it is lost
\* with the memory when its job had ended (afterCommit), else the job is finalized once more.
Crash ==
    /\ spent.crashes < MaxCrashes
    /\ spent' = [spent EXCEPT !.crashes = @ + 1]
    /\ run' = NoRun
    /\ \E fate \in [{j \in Jobs : job[j].step = "reindex"} -> {"reindex", "unread", "landed"}] :
          /\ job' = [j \in Jobs |-> IF j \in DOMAIN fate THEN [job[j] EXCEPT !.step = fate[j]]
                                    ELSE IF job[j].step \in {"read", "starting"} THEN [job[j] EXCEPT !.step = "ended"] ELSE job[j]]
          /\ queue' = SelectSeq(queue, LAMBDA e : e.by \in DOMAIN fate /\ fate[e.by] = "reindex")
    /\ UNCHANGED <<changes, tip, row>>

DisclosureNext ==
    \/ \E n \in 0..2 : \E calls \in [1..n -> Jobs], known \in BOOLEAN : mineBlock(calls, known)
    \/ runDisclosureReindex \/ reindexDisclosures \/ readGrants \/ selectRow
    \/ reindexOnce \/ sweepRow \/ reindexFails \/ Crash
    \/ \E j \in Jobs :
          \/ \E level \in Levels : grantDisclosure(j, level)
          \/ \E op \in Ops \ {"grant"} : revokeDisclosure(j, op)
          \/ storeGrant(j) \/ startJob(j) \/ clearPendingDisclosureLevel(j) \/ finalizeContractProjection(j)

DisclosureSpec == DisclosureInit /\ [][DisclosureNext]_disclosureVars

-----------------------------------------------------------------------------
(* Properties.                                                             *)

Quiet ==
    /\ \A j \in Jobs : job[j].step \notin {"landed", "reindex"}
    /\ queue = <<>>

\* every change was recorded, and every state read, with a height
AllHeightsKnown ==
    ~spent.blind /\ Cardinality({j \in Jobs : job[j].landed # NoHeight}) = Cardinality({i \in DOMAIN changes : changes[i].height > 0})

\* The state was read for some change of the newest block that has one, or later: not every retry was given up.
NewestWasRead ==
    \A j \in Jobs : job[j].landed # NoHeight /\ job[j].step = "unread"
                    /\ (\A k \in Jobs : job[k].landed <= job[j].landed) =>
        \E k \in Jobs : job[k].landed = job[j].landed /\ job[k].step = "ended"

\* "an old read cannot undo a revoke or lower a level": with all heights known, once nothing is on its way
\* any more an active row has the contract's level, in whatever order changes were confirmed. Excepted is a newest
\* change every read of which was given up (the retry could not be stored, its time was up, or a crash came before
\* it), until reindexDisclosures runs.
AccessFollowsChain == Quiet /\ AllHeightsKnown /\ NewestWasRead => (row.active => row.level = LevelAt(tip))

\* The same for grants and revocations alone, unless the row of a grant that found one was removed by the failed start
\* of the grant that made it: a later revocation then finds no row to mark (reindexOnce, notNewerThan).
RevokeStaysRevoked == (\A j \in Jobs : job[j].op # "retract") /\ ~spent.dropped => AccessFollowsChain

=============================================================================
