------------------------------- MODULE Crawler -------------------------------
(***************************************************************************)
(* The crawler of NIGHTGATE: it copies the finalized chain of a Midnight   *)
(* node into the database and follows it.                                  *)
(*                                                                         *)
(* Three activities interleave at every await of one process:              *)
(*   - the ingest pipeline (catch up, subscribe, catch up again), driven   *)
(*     at the start, after a reconnect and by a timer after a failure;     *)
(*   - the handler of finalized heads (crawler/Crawler.ts,                 *)
(*     processLiveBlock), which also finds forks and rolls back;           *)
(*   - a trailing pass (crawler/cursor-pass.ts) that works behind the tip  *)
(*     and keeps a cursor.                                                 *)
(* The first two share one catch-up run: a second caller joins it.         *)
(*                                                                         *)
(* A block is the path from genesis to it, so it is its own hash: its      *)
(* parent is the path without the last element. A database transaction is  *)
(* atomic.                                                                 *)
(***************************************************************************)
EXTENDS Integers, Sequences, FiniteSets

CONSTANTS
    StartHeight,   \* config.startHeight
    Window,        \* config.fetchConcurrency, with rpcBatchSize = 1
    ErrorLimit,    \* consecutiveErrors above this stop a run or halt at a block (10)
    MaxForkDepth,  \* how far findForkPoint looks back (100)
    DecodePayloads, \* config.decodePayloads: the trailing pass runs
    PassBatch,     \* blocks a trailing pass takes at once
    Bad,           \* heights whose block cannot be decoded
    Faults,        \* kinds of errors a call of the node can end with
    MaxHeight,     \* bound: height of the chain
    MaxReorgs,     \* bound: times the node's finalized chain changes
    MaxRestarts,   \* bound: restarts, calls of reindexFromHeight and of redecodeFromHeight
    MaxLosses,     \* bound: times the connection is lost
    MaxGen         \* bound: rollbacks

ASSUME CrawlerAssumption ==
    /\ StartHeight \in Nat /\ Window \in Nat \ {0} /\ PassBatch \in Nat \ {0}
    /\ ErrorLimit \in Nat /\ MaxForkDepth \in Nat \ {0}
    /\ Bad \subseteq Nat /\ Faults \subseteq {"transient", "permanent"}
    /\ MaxHeight \in Nat /\ MaxReorgs \in Nat /\ MaxRestarts \in Nat /\ MaxGen \in Nat
    /\ MaxLosses \in Nat
    /\ DecodePayloads \in BOOLEAN

VARIABLES
    tip,        \* the node's last finalized block
    reorgs,     \* times the node's chain changed
    connected,  \* the WebSocket to the node is open
    losses,     \* times it was lost
    subscribed, \* finalized heads reach the handler
    blocks,     \* the Blocks table
    decoded,    \* stored blocks the trailing pass has worked on
    sync,       \* the SyncState row: last indexed block, status, consecutive errors, pass cursor
    gen,        \* SyncState.reorgGeneration
    running,    \* isRunning
    poison,     \* poisonBlock.height, or None
    pipe,       \* the ingest pipeline
    redrive,    \* redriveTimer is set
    again,      \* pendingRedrive
    cu,         \* the catch-up run in flight
    live,       \* the handler of a head
    pending,    \* pendingHeights is not empty
    pass,       \* the trailing pass
    restarts    \* restarts and admin calls so far

nodeVars    == <<tip, reorgs>>
linkVars    == <<connected, losses, subscribed>>
dbVars      == <<blocks, decoded, sync, gen>>
crawlerVars == <<running, poison, pipe, redrive, again, cu, live, pending>>
vars == <<nodeVars, linkVars, dbVars, crawlerVars, pass, restarts>>

-----------------------------------------------------------------------------
None == -1
Null == << >>

Height(b) == Len(b) - 1
Parent(b) == SubSeq(b, 1, Len(b) - 1)
Ancestor(b, h) == SubSeq(b, 1, h + 1)

Heights == 0..MaxHeight
Canonical(h) == Ancestor(tip, h)
BlocksAt(h) == {b \in blocks : Height(b) = h}

\* The block stored at a height, Null without one: Blocks has one row per height.
BlockAt(h) == IF BlocksAt(h) = {} THEN Null ELSE CHOOSE b \in BlocksAt(h) : TRUE

\* lastIndexedHeight: 0 while nothing is indexed.
IndexedHeight == IF sync.tip = Null THEN 0 ELSE Height(sync.tip)

NoPrep   == [kind |-> "none", block |-> Null]
IdleCu   == [pc |-> "idle", next |-> 0, goal |-> 0, prep |-> [h \in Heights |-> NoPrep], retried |-> FALSE]
IdleLive == [pc |-> "idle", head |-> Null, block |-> Null, from |-> 0, res |-> "none"]
IdlePass == [pc |-> "idle", cursor |-> None, gen |-> 0, ceiling |-> 0, todo |-> {}]

Init ==
    /\ tip = <<0>> /\ reorgs = 0 /\ connected = TRUE /\ losses = 0 /\ subscribed = FALSE
    /\ blocks = {} /\ decoded = {} /\ gen = 0
    /\ sync = [tip |-> Null, status |-> "stopped", errs |-> 0, cursor |-> None]
    /\ running = TRUE /\ poison = None
    /\ pipe = [pc |-> "catch1", res |-> "none"] /\ redrive = FALSE /\ again = FALSE
    /\ cu = IdleCu /\ live = IdleLive /\ pending = FALSE
    /\ pass = IdlePass /\ restarts = 0

-----------------------------------------------------------------------------
(* The SyncState row. *)

LeastOf(a, b) == IF a < b THEN a ELSE b

\* recordError: the counter grows in the statement itself. It is cut off above the limit it is
\* compared with.
ErrorRecorded(s, mark) ==
    [s EXCEPT !.errs = LeastOf(@ + 1, ErrorLimit + 1), !.status = IF mark THEN "error" ELSE @]

\* persistFromNode: the block and the new tip are stored in one transaction.
IndexedTo(b) == [sync EXCEPT !.tip = b, !.status = "syncing"]

Stored(b) ==
    /\ blocks' = blocks \cup {b}
    /\ sync' = IndexedTo(b)

\* Mutant of Storable: the parent check is dropped.
StorableAsOrphan(b) == b \in blocks \/ BlocksAt(Height(b)) = {}

\* That transaction fails when the parent is not stored (genesis has none) and, by the unique index
\* on the height, when another block is stored at the height.
Storable(b) ==
    /\ Height(b) = 0 \/ Parent(b) \in blocks
    /\ b \in blocks \/ BlocksAt(Height(b)) = {}

\* Mutant of RolledBack: the generation stays.
RolledBackSilently(from, status) ==
    LET kept == {b \in blocks : Height(b) < from} IN
    /\ gen < MaxGen
    /\ UNCHANGED gen
    /\ IF kept = blocks
       THEN UNCHANGED <<blocks, decoded, sync>>
       ELSE /\ blocks' = kept
            /\ decoded' = decoded \cap kept
            /\ LET top == IF kept = {} THEN Null
                          ELSE CHOOSE b \in kept : \A c \in kept : Height(c) <= Height(b)
                   fork == IF top = Null THEN 0 ELSE Height(top)
               IN sync' = [sync EXCEPT !.tip = top, !.status = status,
                                       !.cursor = IF @ = None THEN None ELSE LeastOf(@, fork)]

\* Mutant of RolledBack: rows derived from the removed blocks stay.
RolledBackKeepingDerived(from, status) ==
    LET kept == {b \in blocks : Height(b) < from} IN
    /\ gen < MaxGen
    /\ gen' = gen + 1
    /\ IF kept = blocks
       THEN UNCHANGED <<blocks, decoded, sync>>
       ELSE /\ blocks' = kept
            /\ decoded' = decoded
            /\ LET top == IF kept = {} THEN Null
                          ELSE CHOOSE b \in kept : \A c \in kept : Height(c) <= Height(b)
                   fork == IF top = Null THEN 0 ELSE Height(top)
               IN sync' = [sync EXCEPT !.tip = top, !.status = status,
                                       !.cursor = IF @ = None THEN None ELSE LeastOf(@, fork)]

\* rollbackIndexedDataFromHeight: rows derived from the removed blocks go with them and the cursor
\* of the pass is pulled back below them.
RolledBack(from, status) ==
    LET kept == {b \in blocks : Height(b) < from} IN
    /\ gen < MaxGen
    /\ gen' = gen + 1
    /\ IF kept = blocks
       THEN UNCHANGED <<blocks, decoded, sync>>
       ELSE /\ blocks' = kept
            /\ decoded' = decoded \cap kept
            /\ LET top == IF kept = {} THEN Null
                          ELSE CHOOSE b \in kept : \A c \in kept : Height(c) <= Height(b)
                   fork == IF top = Null THEN 0 ELSE Height(top)
               IN sync' = [sync EXCEPT !.tip = top, !.status = status,
                                       !.cursor = IF @ = None THEN None ELSE LeastOf(@, fork)]

-----------------------------------------------------------------------------
(* The catch-up run. *)

\* catchUp: joins the run in flight or starts one; with a poison block it returns at once.
CatchUpCalled == cu' = IF cu.pc = "idle" /\ poison = None THEN [IdleCu EXCEPT !.pc = "read"] ELSE cu
CatchUpSkipped == cu.pc = "idle" /\ poison # None

\* The run ends; the callers that wait for it get its result.
CatchUpEnds(res) ==
    /\ cu' = IdleCu
    /\ pipe' = IF pipe.pc \in {"wait1", "wait2"} /\ pipe.res = "none"
               THEN [pipe EXCEPT !.res = res] ELSE pipe
    /\ live' = IF live.pc \in {"waitHead", "waitDrain"} /\ live.res = "none"
               THEN [live EXCEPT !.res = res] ELSE live

\* runCatchUp reads where to start, then asks the node for the finalized head.
ReadStart ==
    /\ cu.pc = "read"
    /\ cu' = [cu EXCEPT !.pc = "head", !.next = IF sync.tip = Null THEN 0 ELSE Height(sync.tip) + 1]
    /\ UNCHANGED <<nodeVars, linkVars, dbVars, running, poison, pipe, redrive, again, live, pending,
                   pass, restarts>>

\* Blocks are left to fetch up to the head read from the node.
RunFrom(next, goal) ==
    /\ cu' = [cu EXCEPT !.pc = "run", !.next = next, !.goal = goal]
    /\ UNCHANGED <<pipe, live>>

ReadFinalizedHead ==
    /\ cu.pc = "head" /\ connected
    /\ LET goal == Height(tip) IN
       IF cu.next = 0 /\ StartHeight > 0
       THEN /\ cu' = [cu EXCEPT !.pc = "seed", !.goal = goal]
            /\ UNCHANGED <<sync, pipe, live>>
       ELSE IF cu.next > goal
            THEN CatchUpEnds("ok") /\ UNCHANGED sync
            ELSE RunFrom(cu.next, goal) /\ sync' = [sync EXCEPT !.status = "syncing"]
    /\ UNCHANGED <<nodeVars, linkVars, blocks, decoded, gen, running, poison, redrive, again, pending,
                   pass, restarts>>

\* seedStartHeight: an empty index gets the block below startHeight as its anchor, the only block
\* stored without its parent. It is ignored when the index has blocks.
SeedStartHeight ==
    /\ cu.pc = "seed" /\ connected
    /\ \/ /\ blocks # {}
          /\ RunFrom(0, cu.goal)
          /\ UNCHANGED <<blocks, sync>>
       \/ /\ blocks = {} /\ StartHeight - 1 > cu.goal
          /\ CatchUpEnds("ok")
          /\ UNCHANGED <<blocks, sync>>
       \/ /\ blocks = {} /\ StartHeight - 1 <= cu.goal /\ StartHeight - 1 <= Height(tip)
          /\ StartHeight - 1 \notin Bad
          /\ Stored(Canonical(StartHeight - 1))
          /\ IF StartHeight > cu.goal THEN CatchUpEnds("ok") ELSE RunFrom(StartHeight, cu.goal)
    /\ UNCHANGED <<nodeVars, linkVars, decoded, gen, running, poison, redrive, again, pending, pass,
                   restarts>>

\* Before the first block is fetched, an error ends the run with that error.
CatchUpFails(kind) ==
    /\ cu.pc \in {"head", "seed"}
    /\ kind \in Faults \/ (kind = "permanent" /\ cu.pc = "seed" /\ StartHeight - 1 \in Bad)
    /\ CatchUpEnds(kind)
    /\ UNCHANGED <<nodeVars, linkVars, dbVars, running, poison, redrive, again, pending, pass,
                   restarts>>

\* fetchBlockBatch of one height: several heights are fetched at the same time, ahead of the next one
\* to store. It notes whether the block is stored already.
FetchBlock(h) ==
    /\ cu.pc = "run" /\ running /\ connected
    /\ h \in cu.next..LeastOf(cu.next + Window - 1, cu.goal) /\ cu.prep[h] = NoPrep
    /\ cu' = [cu EXCEPT !.prep[h] =
                IF h > Height(tip) THEN [kind |-> "transient", block |-> Null]
                ELSE IF Canonical(h) \in blocks THEN [kind |-> "known", block |-> Null]
                ELSE IF h \in Bad THEN [kind |-> "permanent", block |-> Null]
                ELSE [kind |-> "new", block |-> Canonical(h)]]
    /\ UNCHANGED <<nodeVars, linkVars, dbVars, running, poison, pipe, redrive, again, live, pending,
                   pass, restarts>>

FetchFails(h, kind) ==
    /\ cu.pc = "run" /\ running /\ kind \in Faults
    /\ h \in cu.next..LeastOf(cu.next + Window - 1, cu.goal) /\ cu.prep[h] = NoPrep
    /\ cu' = [cu EXCEPT !.prep[h] = [kind |-> kind, block |-> Null]]
    /\ UNCHANGED <<nodeVars, linkVars, dbVars, running, poison, pipe, redrive, again, live, pending,
                   pass, restarts>>

\* At the last block of a run, and after every batchSize blocks, the error counter is reset.
ErrorsReset(s) == {[s EXCEPT !.errs = 0]} \cup IF cu.next = cu.goal THEN {} ELSE {s}

\* The next block in height order is stored, or skipped when it is stored already.
PersistNext ==
    /\ cu.pc = "run" /\ running /\ cu.next <= cu.goal
    /\ LET prep == cu.prep[cu.next] IN
       \/ /\ prep.kind = "known" \/ (prep.kind = "new" /\ Storable(prep.block) /\ prep.block \in blocks)
          /\ blocks' = blocks
          /\ sync' \in ErrorsReset(sync)
       \/ /\ prep.kind = "new" /\ Storable(prep.block) /\ prep.block \notin blocks
          /\ blocks' = blocks \cup {prep.block}
          /\ sync' \in ErrorsReset(IndexedTo(prep.block))
    /\ cu' = [cu EXCEPT !.next = @ + 1, !.retried = FALSE, !.prep[cu.next] = NoPrep]
    /\ UNCHANGED <<nodeVars, linkVars, decoded, gen, running, poison, pipe, redrive, again, live,
                   pending, pass, restarts>>

\* The error of the next block: fetched with an error, or refused because its parent is not stored.
PrepError ==
    LET prep == cu.prep[cu.next] IN
    IF prep.kind \in {"transient", "permanent"} THEN prep.kind
    ELSE IF prep.kind = "new" /\ ~Storable(prep.block) THEN "permanent"
    ELSE "none"

\* Mutant of BatchFails: a transient error halts indexing too.
BatchFailsForGood ==
    /\ cu.pc = "run" /\ running /\ cu.next <= cu.goal /\ PrepError # "none"
    /\ sync' = ErrorRecorded(sync, TRUE)
    /\ IF sync'.errs > ErrorLimit
       THEN CatchUpEnds("ok") /\ UNCHANGED poison
       ELSE IF ~cu.retried
            THEN /\ cu' = [cu EXCEPT !.retried = TRUE, !.prep[cu.next] = NoPrep]
                 /\ UNCHANGED <<poison, pipe, live>>
            ELSE /\ CatchUpEnds("ok")
                 /\ poison' = cu.next
    /\ UNCHANGED <<nodeVars, linkVars, blocks, decoded, gen, running, redrive, again, pending, pass,
                   restarts>>

\* A failed block is fetched once more; then the run stops, and on a permanent error indexing halts
\* at this height.
BatchFails ==
    /\ cu.pc = "run" /\ running /\ cu.next <= cu.goal /\ PrepError # "none"
    /\ sync' = ErrorRecorded(sync, TRUE)
    /\ IF sync'.errs > ErrorLimit
       THEN CatchUpEnds("ok") /\ UNCHANGED poison
       ELSE IF ~cu.retried
            THEN /\ cu' = [cu EXCEPT !.retried = TRUE, !.prep[cu.next] = NoPrep]
                 /\ UNCHANGED <<poison, pipe, live>>
            ELSE /\ CatchUpEnds("ok")
                 /\ poison' = IF PrepError = "permanent" THEN cu.next ELSE poison
    /\ UNCHANGED <<nodeVars, linkVars, blocks, decoded, gen, running, redrive, again, pending, pass,
                   restarts>>

\* All blocks are stored, or the crawler was stopped.
CatchUpDone ==
    /\ cu.pc = "run" /\ (cu.next > cu.goal \/ ~running)
    /\ CatchUpEnds("ok")
    /\ UNCHANGED <<nodeVars, linkVars, dbVars, running, poison, redrive, again, pending, pass,
                   restarts>>

-----------------------------------------------------------------------------
(* The ingest pipeline. *)

\* driveIngest: a call while the pipeline runs makes it run again afterwards.
DriveIngest ==
    IF pipe.pc = "idle"
    THEN pipe' = [pc |-> "catch1", res |-> "none"] /\ again' = FALSE
    ELSE pipe' = pipe /\ again' = TRUE

PipeCatchUp ==
    /\ pipe.pc \in {"catch1", "catch2"}
    /\ CatchUpCalled
    /\ pipe' = [pc  |-> IF pipe.pc = "catch1" THEN "wait1" ELSE "wait2",
                res |-> IF CatchUpSkipped THEN "ok" ELSE "none"]
    /\ UNCHANGED <<nodeVars, linkVars, dbVars, running, poison, redrive, again, live, pending, pass,
                   restarts>>

PipeResumes ==
    /\ pipe.pc \in {"wait1", "wait2"} /\ pipe.res # "none"
    /\ pipe' = IF pipe.res # "ok" THEN [pipe EXCEPT !.pc = "failed"]
               ELSE [pc |-> IF pipe.pc = "wait1" /\ running THEN "subscribe" ELSE "done", res |-> "none"]
    /\ UNCHANGED <<nodeVars, linkVars, dbVars, running, poison, redrive, again, cu, live, pending, pass,
                   restarts>>

\* subscribeLive: from here on heads reach the handler, before the status is written.
SubscribeLive ==
    /\ pipe.pc = "subscribe" /\ connected
    /\ subscribed' = TRUE
    /\ pipe' = [pc |-> "subscribed", res |-> "none"]
    /\ UNCHANGED <<nodeVars, connected, losses, dbVars, running, poison, redrive, again, cu, live,
                   pending, pass, restarts>>

\* The old subscription is given up before the new one is asked for.
SubscribeFails(kind) ==
    /\ pipe.pc = "subscribe" /\ kind \in Faults
    /\ subscribed' = FALSE
    /\ pipe' = [pc |-> "failed", res |-> kind]
    /\ UNCHANGED <<nodeVars, connected, losses, dbVars, running, poison, redrive, again, cu, live,
                   pending, pass, restarts>>

\* It keeps an error status of the catch-up.
MarkSynced ==
    /\ pipe.pc = "subscribed"
    /\ sync' = [sync EXCEPT !.status = IF @ = "error" THEN @ ELSE "synced"]
    /\ pipe' = [pc |-> IF running THEN "catch2" ELSE "done", res |-> "none"]
    /\ UNCHANGED <<nodeVars, linkVars, blocks, decoded, gen, running, poison, redrive, again, cu, live,
                   pending, pass, restarts>>

\* Mutant of PipeFails: no timer drives the pipeline again.
PipeFailsOnce ==
    /\ pipe.pc = "failed"
    /\ pipe' = [pc |-> "done", res |-> "none"]
    /\ sync' = IF running THEN ErrorRecorded(sync, pipe.res = "permanent") ELSE sync
    /\ IF running /\ pipe.res = "transient"
       THEN UNCHANGED <<redrive, running, subscribed>>
       ELSE running' = FALSE /\ subscribed' = FALSE /\ redrive' = FALSE
    /\ UNCHANGED <<nodeVars, connected, losses, blocks, decoded, gen, poison, again, cu, live, pending,
                   pass, restarts>>

\* A transient failure sets the timer; any other stops the crawler for good.
PipeFails ==
    /\ pipe.pc = "failed"
    /\ pipe' = [pc |-> "done", res |-> "none"]
    /\ sync' = IF running THEN ErrorRecorded(sync, pipe.res = "permanent") ELSE sync
    /\ IF running /\ pipe.res = "transient"
       THEN redrive' = TRUE /\ UNCHANGED <<running, subscribed>>
       ELSE running' = FALSE /\ subscribed' = FALSE /\ redrive' = FALSE
    /\ UNCHANGED <<nodeVars, connected, losses, blocks, decoded, gen, poison, again, cu, live, pending,
                   pass, restarts>>

PipeDone ==
    /\ pipe.pc = "done"
    /\ IF again /\ running
       THEN pipe' = [pc |-> "catch1", res |-> "none"] /\ again' = FALSE
       ELSE pipe' = [pc |-> "idle", res |-> "none"] /\ again' = again
    /\ UNCHANGED <<nodeVars, linkVars, dbVars, running, poison, redrive, cu, live, pending, pass,
                   restarts>>

RedriveTimer ==
    /\ redrive
    /\ redrive' = FALSE
    /\ IF running THEN DriveIngest ELSE UNCHANGED <<pipe, again>>
    /\ UNCHANGED <<nodeVars, linkVars, dbVars, running, poison, cu, live, pending, pass, restarts>>

-----------------------------------------------------------------------------
(* The handler of finalized heads. *)

\* The callback drops a head during a catch-up and queues it while another head is in work.
HeadArrives(b) ==
    /\ connected /\ subscribed /\ running /\ cu.pc = "idle"
    /\ IF live.pc = "idle"
       THEN live' = [IdleLive EXCEPT !.pc = "head", !.head = b] /\ UNCHANGED pending
       ELSE pending' = TRUE /\ UNCHANGED live
    /\ UNCHANGED <<nodeVars, linkVars, dbVars, running, poison, pipe, redrive, again, cu, pass,
                   restarts>>

\* processLiveBlock: nothing while halted; an empty index or a gap is left to the catch-up.
ReadHead ==
    /\ live.pc = "head"
    /\ LET gap == sync.tip = Null \/ Height(live.head) > IndexedHeight + 1 IN
       IF poison # None THEN live' = [live EXCEPT !.pc = "drain"] /\ UNCHANGED cu
       ELSE IF gap THEN live' = [live EXCEPT !.pc = "waitHead"] /\ CatchUpCalled
       ELSE live' = [live EXCEPT !.pc = "check"] /\ UNCHANGED cu
    /\ UNCHANGED <<nodeVars, linkVars, dbVars, running, poison, pipe, redrive, again, pending, pass,
                   restarts>>

\* checkForReorg: reads the tip again. A head at or below it is on our chain when our block at the
\* height below is its parent; then our block at its height is compared with the node's.
CheckForReorg ==
    /\ live.pc = "check"
    /\ LET b == live.head
           h == Height(b)
       IN IF sync.tip = Null \/ Parent(b) = sync.tip \/ h > IndexedHeight + 1 \/ h = 0
          THEN live' = [live EXCEPT !.pc = "store"]
          ELSE IF h > IndexedHeight \/ BlockAt(h - 1) # Parent(b)
          THEN live' = [live EXCEPT !.pc = "fork"]
          ELSE IF BlockAt(h) = Null
          THEN live' = [live EXCEPT !.pc = "store"]
          ELSE live' = [live EXCEPT !.pc = "compare", !.block = BlockAt(h)]
    /\ UNCHANGED <<nodeVars, linkVars, dbVars, running, poison, pipe, redrive, again, cu, pending, pass,
                   restarts>>

CompareWithNode ==
    /\ live.pc = "compare" /\ connected
    /\ LET h == Height(live.head) IN
       live' = IF h > Height(tip) \/ live.block = Canonical(h)
               THEN [live EXCEPT !.pc = "store", !.block = Null]
               ELSE [live EXCEPT !.pc = "rollback", !.block = Null, !.from = h]
    /\ UNCHANGED <<nodeVars, linkVars, dbVars, running, poison, pipe, redrive, again, cu, pending, pass,
                   restarts>>

\* The highest ancestor of b that is stored has height k; k = 0 when none above genesis is.
CommonAncestor(b, k) ==
    /\ k = 0 \/ Ancestor(b, k) \in blocks
    /\ \A j \in (k + 1)..(Height(b) - 1) : Ancestor(b, j) \notin blocks

\* findForkPoint: the height above the common ancestor, 0 without one.
FindForkPoint ==
    /\ live.pc = "fork"
    /\ \E k \in 0..(Height(live.head) - 1) :
          /\ CommonAncestor(live.head, k)
          /\ connected \/ k = Height(live.head) - 1
          /\ Height(live.head) - k <= MaxForkDepth
          /\ live' = [live EXCEPT !.pc = "rollback", !.from = IF k = 0 THEN 0 ELSE k + 1]
    /\ UNCHANGED <<nodeVars, linkVars, dbVars, running, poison, pipe, redrive, again, cu, pending, pass,
                   restarts>>

\* handleReorg, then the new branch is fetched by a catch-up. A removed block is gone for the pass
\* that selected it: stored again it is another row.
HandleReorg ==
    /\ live.pc = "rollback"
    /\ RolledBack(live.from, "syncing")
    /\ live' = [live EXCEPT !.pc = "recatch"]
    /\ pass' = [pass EXCEPT !.todo = {b \in @ : Height(b) < live.from}]
    /\ UNCHANGED <<nodeVars, linkVars, running, poison, pipe, redrive, again, cu, pending, restarts>>

ReindexBranch ==
    /\ live.pc = "recatch"
    /\ CatchUpCalled
    /\ live' = [live EXCEPT !.pc = "waitHead", !.res = IF CatchUpSkipped THEN "ok" ELSE "none"]
    /\ UNCHANGED <<nodeVars, linkVars, dbVars, running, poison, pipe, redrive, again, pending, pass,
                   restarts>>

\* processBlockByHeight: the node's block at the height of the head, fetched and then stored.
FetchHead ==
    /\ live.pc = "store" /\ connected
    /\ LET h == Height(live.head) IN
       /\ h <= Height(tip) /\ h \notin Bad
       /\ live' = IF Canonical(h) \in blocks THEN [live EXCEPT !.pc = "stored"]
                  ELSE [live EXCEPT !.pc = "persist", !.block = Canonical(h)]
    /\ UNCHANGED <<nodeVars, linkVars, dbVars, running, poison, pipe, redrive, again, cu, pending, pass,
                   restarts>>

PersistHead ==
    /\ live.pc = "persist"
    /\ Storable(live.block)
    /\ IF live.block \in blocks THEN UNCHANGED <<blocks, sync>> ELSE Stored(live.block)
    /\ live' = [live EXCEPT !.pc = "stored"]
    /\ UNCHANGED <<nodeVars, linkVars, decoded, gen, running, poison, pipe, redrive, again, cu, pending,
                   pass, restarts>>

HeadStored ==
    /\ live.pc = "stored"
    /\ sync' = [sync EXCEPT !.status = "synced", !.errs = 0]
    /\ live' = [live EXCEPT !.pc = "drain"]
    /\ UNCHANGED <<nodeVars, linkVars, blocks, decoded, gen, running, poison, pipe, redrive, again, cu,
                   pending, pass, restarts>>

\* Why the handler can fail where it is.
HeadError(kind) ==
    \/ live.pc \in {"compare", "fork", "store"} /\ kind \in Faults
    \/ /\ live.pc = "fork" /\ kind = "permanent"
       /\ \E k \in 0..(Height(live.head) - 1) : /\ CommonAncestor(live.head, k)
                                                /\ Height(live.head) - k > MaxForkDepth
    \/ live.pc = "store" /\ kind = "transient" /\ Height(live.head) > Height(tip)
    \/ live.pc = "store" /\ kind = "permanent" /\ Height(live.head) \in Bad
    \/ live.pc = "persist" /\ kind = "permanent" /\ ~Storable(live.block)
    \/ live.pc = "waitHead" /\ live.res = kind

\* The catch block of processLiveBlock: too many errors, the last one permanent, halt indexing.
HeadFails(kind) ==
    /\ kind \in {"transient", "permanent"} /\ HeadError(kind)
    /\ sync' = ErrorRecorded(sync, TRUE)
    /\ poison' = IF sync'.errs > ErrorLimit /\ kind = "permanent" THEN Height(live.head) ELSE poison
    /\ live' = [live EXCEPT !.pc = "drain", !.res = "none"]
    /\ UNCHANGED <<nodeVars, linkVars, blocks, decoded, gen, running, pipe, redrive, again, cu, pending,
                   pass, restarts>>

HeadCaughtUp ==
    /\ live.pc \in {"waitHead", "waitDrain"} /\ live.res # "none"
    /\ live.pc = "waitHead" => live.res = "ok"
    /\ live' = [live EXCEPT !.pc = IF @ = "waitDrain" /\ live.res # "ok" THEN "idle" ELSE "drain",
                            !.res = "none"]
    /\ UNCHANGED <<nodeVars, linkVars, dbVars, running, poison, pipe, redrive, again, cu, pending, pass,
                   restarts>>

\* Heads that arrived meanwhile are covered by one catch-up.
DrainHeads ==
    /\ live.pc = "drain"
    /\ IF pending /\ running
       THEN /\ pending' = FALSE
            /\ CatchUpCalled
            /\ live' = IF CatchUpSkipped THEN live ELSE [live EXCEPT !.pc = "waitDrain"]
       ELSE live' = IdleLive /\ UNCHANGED <<pending, cu>>
    /\ UNCHANGED <<nodeVars, linkVars, dbVars, running, poison, pipe, redrive, again, pass, restarts>>

-----------------------------------------------------------------------------
(* The trailing pass. *)

\* readPassWindow: cursor, tip and generation in one read.
PassReads ==
    /\ DecodePayloads /\ pass.pc = "idle" /\ running
    /\ (IF sync.cursor = None THEN 0 ELSE sync.cursor + 1) <= IndexedHeight
    /\ pass' = [IdlePass EXCEPT !.pc = "select", !.cursor = sync.cursor, !.gen = gen,
                                !.ceiling = IndexedHeight]
    /\ UNCHANGED <<nodeVars, linkVars, dbVars, crawlerVars, restarts>>

PassFrom == IF pass.cursor = None THEN 0 ELSE pass.cursor + 1

\* blocksInRange: the oldest blocks of the window; without any the cursor moves past the range.
PassSelects ==
    /\ pass.pc = "select"
    /\ LET range == {b \in blocks : Height(b) \in PassFrom..pass.ceiling}
           oldest == {b \in range : Cardinality({c \in range : Height(c) < Height(b)}) < PassBatch}
       IN pass' = IF range = {}
                  THEN [pass EXCEPT !.pc = "advance",
                                    !.ceiling = LeastOf(PassFrom + PassBatch - 1, @)]
                  ELSE [pass EXCEPT !.pc = "decode", !.todo = oldest,
                                    !.ceiling = CHOOSE h \in {Height(b) : b \in oldest} :
                                                   \A b \in oldest : Height(b) <= h]
    /\ UNCHANGED <<nodeVars, linkVars, dbVars, crawlerVars, restarts>>

\* decodeBlock, oldest block first.
PassDecodes ==
    /\ pass.pc = "decode"
    /\ IF pass.todo = {}
       THEN pass' = [pass EXCEPT !.pc = "advance"] /\ UNCHANGED decoded
       ELSE \E b \in pass.todo :
               /\ \A c \in pass.todo : Height(b) <= Height(c)
               /\ pass' = [pass EXCEPT !.todo = @ \ {b}]
               /\ decoded' = decoded \cup {b}
    /\ UNCHANGED <<nodeVars, linkVars, blocks, sync, gen, crawlerVars, restarts>>

\* Mutant of PassAdvances: the generation is not compared.
AdvanceDespiteRollback ==
    /\ pass.pc = "advance"
    /\ sync' = IF sync.cursor = pass.cursor
               THEN [sync EXCEPT !.cursor = pass.ceiling] ELSE sync
    /\ pass' = IdlePass
    /\ UNCHANGED <<nodeVars, linkVars, blocks, decoded, gen, crawlerVars, restarts>>

\* advancePassCursor: only when neither the cursor nor the generation changed since the start.
PassAdvances ==
    /\ pass.pc = "advance"
    /\ sync' = IF gen = pass.gen /\ sync.cursor = pass.cursor
               THEN [sync EXCEPT !.cursor = pass.ceiling] ELSE sync
    /\ pass' = IdlePass
    /\ UNCHANGED <<nodeVars, linkVars, blocks, decoded, gen, crawlerVars, restarts>>

-----------------------------------------------------------------------------
(* The node (external), the connection to it, restarts and the admin action. *)

NewBlock ==
    /\ Height(tip) < MaxHeight
    /\ tip' = Append(tip, reorgs)
    /\ UNCHANGED <<reorgs, linkVars, dbVars, crawlerVars, pass, restarts>>

\* The node reports another finalized chain, which leaves the old one after height h.
NodeReorg(h, n) ==
    /\ reorgs < MaxReorgs
    /\ h < Height(tip) /\ h + n <= MaxHeight
    /\ tip' = Ancestor(tip, h) \o [i \in 1..n |-> reorgs + 1]
    /\ reorgs' = reorgs + 1
    /\ UNCHANGED <<linkVars, dbVars, crawlerVars, pass, restarts>>

ConnectionLost ==
    /\ connected /\ losses < MaxLosses
    /\ losses' = losses + 1
    /\ connected' = FALSE /\ subscribed' = FALSE
    /\ UNCHANGED <<nodeVars, dbVars, crawlerVars, pass, restarts>>

\* attemptReconnect never gives up; the callback drives the pipeline again.
Reconnected ==
    /\ ~connected
    /\ connected' = TRUE
    /\ IF running THEN DriveIngest ELSE UNCHANGED <<pipe, again>>
    /\ UNCHANGED <<nodeVars, losses, subscribed, dbVars, running, poison, redrive, cu, live, pending,
                   pass, restarts>>

\* A new crawler object on a new connection.
FreshCrawler ==
    /\ running' = TRUE /\ poison' = None
    /\ pipe' = [pc |-> "catch1", res |-> "none"] /\ redrive' = FALSE /\ again' = FALSE
    /\ cu' = IdleCu /\ live' = IdleLive /\ pending' = FALSE /\ pass' = IdlePass
    /\ connected' = TRUE /\ subscribed' = FALSE
    /\ restarts' = restarts + 1

\* The process restarts, or pauseCrawler and resumeCrawler are called; a stopped crawler writes so.
Restart ==
    /\ restarts < MaxRestarts
    /\ FreshCrawler
    /\ \E status \in {sync.status, "stopped"} : sync' = [sync EXCEPT !.status = status]
    /\ UNCHANGED <<nodeVars, losses, blocks, decoded, gen>>

\* reindexFromHeight stops the crawler, rolls back and starts it again.
ReindexFromHeight(h) ==
    /\ restarts < MaxRestarts /\ running
    /\ RolledBack(h, "stopped")
    /\ FreshCrawler
    /\ UNCHANGED <<nodeVars, losses>>

\* redecodeFromHeight lowers the cursor, never raises it; the blocks from h on count as not worked on.
RedecodeFromHeight(h) ==
    /\ restarts < MaxRestarts /\ DecodePayloads
    /\ sync.cursor # None /\ sync.cursor >= h
    /\ sync' = [sync EXCEPT !.cursor = h - 1]
    /\ decoded' = {b \in decoded : Height(b) < h}
    /\ restarts' = restarts + 1
    /\ UNCHANGED <<nodeVars, linkVars, blocks, gen, crawlerVars, pass>>

-----------------------------------------------------------------------------
\* The head the node announces: its last block or, when heads are replayed, the one below.
Announced == {Canonical(h) : h \in {Height(tip), Height(tip) - 1} \cap Heights}

CatchUp ==
    \/ ReadStart \/ ReadFinalizedHead \/ SeedStartHeight
    \/ \E kind \in {"transient", "permanent"} : CatchUpFails(kind)
    \/ \E h \in Heights : FetchBlock(h) \/ \E kind \in Faults : FetchFails(h, kind)
    \/ PersistNext \/ BatchFails \/ CatchUpDone

Pipeline ==
    \/ PipeCatchUp \/ PipeResumes \/ SubscribeLive \/ (\E kind \in Faults : SubscribeFails(kind))
    \/ MarkSynced \/ PipeFails \/ PipeDone

Handler ==
    \/ ReadHead \/ CheckForReorg \/ CompareWithNode \/ FindForkPoint \/ HandleReorg \/ ReindexBranch
    \/ FetchHead \/ PersistHead \/ HeadStored \/ HeadCaughtUp \/ DrainHeads
    \/ \E kind \in {"transient", "permanent"} : HeadFails(kind)

TrailingPass == PassReads \/ PassSelects \/ PassDecodes \/ PassAdvances

Environment ==
    \/ NewBlock \/ (\E b \in Announced : HeadArrives(b)) \/ \E h \in Heights, n \in 1..2 : NodeReorg(h, n)
    \/ ConnectionLost \/ Reconnected \/ Restart
    \/ \E h \in Heights : ReindexFromHeight(h) \/ RedecodeFromHeight(h)

Next == CatchUp \/ Pipeline \/ RedriveTimer \/ Handler \/ TrailingPass \/ Environment

Spec == Init /\ [][Next]_vars

\* Every await of the process returns: a call of the node ends with an answer, an error or a timeout.
\* The node answers each kind of call again and again, announces its last block again and again, and
\* the provider reconnects.
Fairness ==
    /\ WF_vars(CatchUp) /\ WF_vars(Pipeline) /\ WF_vars(Handler)
    /\ WF_vars(RedriveTimer) /\ WF_vars(Reconnected)
    /\ SF_vars(ReadFinalizedHead) /\ SF_vars(SeedStartHeight) /\ SF_vars(FetchBlock(cu.next))
    /\ SF_vars(SubscribeLive) /\ SF_vars(HeadArrives(tip)) /\ SF_vars(live.head = tip /\ FetchHead)

FairSpec == Spec /\ Fairness

-----------------------------------------------------------------------------
(* Properties. *)

Paths == UNION {[1..n -> 0..MaxReorgs] : n \in 1..(MaxHeight + 1)}
Results == {"none", "ok", "transient", "permanent"}

\* Every variable holds a value the code can give it.
TypeOK ==
    /\ tip \in Paths /\ reorgs \in 0..MaxReorgs /\ connected \in BOOLEAN /\ subscribed \in BOOLEAN
    /\ blocks \subseteq Paths /\ decoded \subseteq blocks /\ gen \in 0..MaxGen
    /\ sync \in [tip : Paths \cup {Null}, status : {"stopped", "syncing", "synced", "error"},
                 errs : 0..(ErrorLimit + 1), cursor : Heights \cup {None}]
    /\ running \in BOOLEAN /\ poison \in Heights \cup {None}
    /\ pipe.pc \in {"idle", "catch1", "wait1", "subscribe", "subscribed", "catch2", "wait2", "failed",
                    "done"}
    /\ pipe.res \in Results
    /\ redrive \in BOOLEAN /\ again \in BOOLEAN /\ pending \in BOOLEAN
    /\ cu.pc \in {"idle", "read", "head", "seed", "run"} /\ cu.next \in 0..(MaxHeight + 1)
    /\ cu.goal \in Heights /\ cu.retried \in BOOLEAN
    /\ cu.prep \in [Heights -> [kind : {"none", "known", "new", "transient", "permanent"},
                                block : Paths \cup {Null}]]
    /\ live.pc \in {"idle", "head", "check", "compare", "fork", "rollback", "recatch", "waitHead", "store",
                    "persist", "stored", "drain", "waitDrain"}
    /\ live.head \in Paths \cup {Null} /\ live.block \in Paths \cup {Null}
    /\ live.from \in Heights /\ live.res \in Results
    /\ pass.pc \in {"idle", "select", "decode", "advance"} /\ pass.cursor \in Heights \cup {None}
    /\ pass.gen \in 0..MaxGen /\ pass.ceiling \in Heights /\ pass.todo \subseteq blocks
    /\ restarts \in 0..MaxRestarts /\ losses \in 0..MaxLosses

\* The index is one unbroken chain from genesis or the anchor to the tip in SyncState, whatever the
\* node does to its chain and however the catch-up, the head handler and a rollback overlap.
IndexIsChain ==
    IF sync.tip = Null THEN blocks = {}
    ELSE \E low \in {0, StartHeight - 1} \cap Nat :
            blocks = {Ancestor(sync.tip, h) : h \in low..Height(sync.tip)}

\* What the index promises its readers, with the Blocks table, the tip and the reorg generation of the
\* SyncState row as the abstract state.
Index == INSTANCE ChainIndex WITH ParentOf <- Parent, HeightOf <- Height, NoBlock <- Null,
                                  index <- blocks, newest <- sync.tip, generation <- gen

\* The crawler implements that: every step of the catch-up, the head handler, the trailing pass, a restart
\* and the admin calls adds one child of the tip, or removes blocks at the upper end together with a new
\* generation, or leaves the index alone (persistFromNode, rollbackIndexedDataFromHeight).
IndexPromise == Index!IndexSpec

\* Indexing halts only at a block that cannot be indexed (poisonBlock).
HaltedMeansBadBlock == poison # None => poison \in Bad

\* The pass has worked on every stored block up to its cursor: a rollback and a pass that overlap
\* skip no block. Genesis is left out: a pass on an empty index takes height 0 as
\* indexed and moves its cursor to it before genesis is stored.
PassCoversIndex ==
    \A b \in blocks : Height(b) \in 1..sync.cursor => b \in decoded

\* A block the node has finalized is indexed some time later, with a lost connection and failing calls
\* on the way (driveIngest, scheduleRedrive, the gap check of processLiveBlock).
FinalizedIsIndexed ==
    \A h \in 1..MaxHeight : (h >= StartHeight /\ Height(tip) >= h) ~> (\E b \in blocks : Height(b) = h)
=============================================================================
