------------------------------ MODULE WalletSync ------------------------------
(***************************************************************************)
(* When a wallet counts as synced (midnight/worker/facades.ts): a job waits *)
(* in waitForGenuineSync while the progress watch reads the same indexer.   *)
(* Failed reads fall back on recent ones, so a verdict may rest on old      *)
(* answers. The indexer gains events and blocks or is stuck, the wallet      *)
(* applies events, loses its connection, or is replaced by one at 0.        *)
(***************************************************************************)
EXTENDS Integers, Sequences

CONSTANTS
    Gap,                      \* SYNC_TIP_GAP
    Freshness,                \* SYNC_FRESHNESS_MS
    Stall, Ceiling,           \* stallMs and timeoutMs of the wait
    Poll, WatchEvery,         \* SYNC_POLL_MS, PROGRESS_WATCH_MS
    TipGrace,                 \* NIGHTGATE_INDEXER_TIP_GRACE_MS
    StreamAge, StreamGrace,   \* a stream tip this young is not read again; NIGHTGATE_STREAM_TIP_GRACE_MS
    ReadLimit,                \* timeouts of a state peek and a subscription
    Worlds,                   \* bound: what happens outside, per time: see world
    MaxReports                \* bound: reports of the watch

VARIABLES
    world,    \* per time: the indexer's last dust event and the time of its last block, the wallet's applied index and connection
    time,
    tips,     \* indexerTipCache and streamTipCache with the times of the reads, 0 for none
    wait,     \* waitForGenuineSync; first is the time of its first reading of the wallet
    watch,    \* progressWatchTick
    progress  \* syncProgress

syncVars == <<world, time, tips, wait, watch, progress>>

Unknown == -1
None == 0
Now == world[time]
NoProgress == [applied |-> Unknown, at |-> None, progressAt |-> None, caughtUp |-> FALSE]
IdleWatch == [step |-> "idle", last |-> NoProgress, applied |-> Unknown, connected |-> FALSE, since |-> 0, reports |-> 0]
Unread(w) == [w EXCEPT !.tip = None, !.applied = Unknown, !.connected = FALSE]

SyncTypeOK ==
    /\ time \in 1..Len(world)
    /\ tips \in [block : Nat, blockAt : 0..time, stream : Nat, streamAt : 0..time]
    /\ wait.step \in {"poll", "peek", "stream", "done"}
    /\ wait.result \in {"none", "synced", "stalled", "unreadable", "ceiling", "cancelled"}
    /\ watch.step \in {"idle", "tips"}

\* the wait begins
SyncInit ==
    /\ world \in Worlds /\ time = 1
    /\ tips = [block |-> None, blockAt |-> None, stream |-> 0, streamAt |-> None]
    /\ wait = [step |-> "poll", tip |-> None, applied |-> Unknown, connected |-> FALSE, since |-> 1 - Poll, progressApplied |-> Unknown,
               lastProgressAt |-> 1, first |-> None, result |-> "none"]
    /\ watch = IdleWatch
    /\ progress = NoProgress

-----------------------------------------------------------------------------
(* Reads of the indexer: what they give, and the caches after them.        *)

\* over HTTP or the subscription, else the last read while it is recent
getIndexerTip ==
    {[tip |-> Now.block, tips |-> [tips EXCEPT !.block = Now.block, !.blockAt = time]],
     [tip |-> IF tips.blockAt # None /\ time - tips.blockAt < TipGrace THEN tips.block ELSE None, tips |-> tips]}

staleStreamTip == IF tips.streamAt = None \/ time - tips.streamAt >= StreamGrace THEN Unknown ELSE tips.stream

getDustStreamTip ==
    IF tips.streamAt # None /\ time - tips.streamAt < StreamAge THEN {[tip |-> tips.stream, tips |-> tips]}
    ELSE {[tip |-> Now.events, tips |-> [tips EXCEPT !.stream = Now.events, !.streamAt = time]],
          [tip |-> staleStreamTip, tips |-> tips]}

fresh(tip) == tip # None /\ time - tip <= Freshness

\* Mutant: a stream tip that could not be read does not keep the wallet from being synced.
caughtUpToUnknown(connected, applied, stream, tip) == connected /\ applied >= 0 /\ applied >= stream - Gap /\ fresh(tip)

isGenuinelyCaughtUp(connected, applied, stream, tip) ==
    connected /\ stream > 0 /\ applied >= 0 /\ applied >= stream - Gap /\ fresh(tip)

-----------------------------------------------------------------------------
(* waitForGenuineSync.                                                     *)

Ended(result) == [Unread(wait) EXCEPT !.step = "done", !.since = 0, !.result = result]
Slept == [Unread(wait) EXCEPT !.step = "poll", !.since = time]
Stalled(lastProgressAt) == Stall > 0 /\ time - lastProgressAt > Stall

\* a poll reads the indexer's tip first; past the ceiling it does so only for the error
poll ==
    /\ wait.step = "poll" /\ time >= wait.since + Poll
    /\ \E read \in getIndexerTip :
          /\ tips' = read.tips
          /\ wait' = IF time >= 1 + Ceiling THEN Ended("ceiling")
                     ELSE [wait EXCEPT !.step = "peek", !.tip = read.tip, !.since = time]
    /\ UNCHANGED <<world, time, watch, progress>>

throwIfRpcCancelled ==
    /\ wait.step = "poll" /\ time >= wait.since + Poll /\ time < 1 + Ceiling
    /\ wait' = Ended("cancelled")
    /\ UNCHANGED <<world, time, tips, watch, progress>>

\* a state that cannot be read counts as no progress
peekFacadeState ==
    /\ wait.step = "peek"
    /\ \/ wait' = [wait EXCEPT !.step = "stream", !.applied = Now.applied, !.connected = Now.connected, !.since = time]
       \/ wait' = IF Stalled(wait.lastProgressAt) THEN Ended("unreadable") ELSE Slept
    /\ UNCHANGED <<world, time, tips, watch, progress>>

\* the first reading shows no progress; a replaced wallet begins lower, and moves from there
judge ==
    /\ wait.step = "stream"
    /\ \E read \in getDustStreamTip :
          LET moved == wait.progressApplied >= 0 /\ wait.applied > wait.progressApplied
              lastProgressAt == IF moved THEN time ELSE wait.lastProgressAt
              caughtUp == isGenuinelyCaughtUp(wait.connected, wait.applied, read.tip, wait.tip)
              seen == [(IF caughtUp THEN Ended("synced") ELSE IF Stalled(lastProgressAt) THEN Ended("stalled") ELSE Slept)
                       EXCEPT !.progressApplied = wait.applied, !.lastProgressAt = lastProgressAt, !.first = IF @ = None THEN wait.since ELSE @]
          IN  /\ tips' = read.tips
              /\ wait' = seen
              /\ progress' = [applied |-> wait.applied, at |-> time, progressAt |-> lastProgressAt, caughtUp |-> caughtUp]
    /\ UNCHANGED <<world, time, watch>>

-----------------------------------------------------------------------------
(* The progress watch, when no wait has reported lately.                   *)

progressWatchTick ==
    /\ watch.step = "idle" /\ watch.reports < MaxReports
    /\ ~(progress.at # None /\ time - progress.at < WatchEvery)
    /\ watch' = [step |-> "tips", last |-> progress, applied |-> Now.applied, connected |-> Now.connected, since |-> time,
                 reports |-> watch.reports + 1]
    /\ UNCHANGED <<world, time, tips, wait, progress>>

\* both tips are read; what the wait reported meanwhile is replaced
watchReports ==
    /\ watch.step = "tips"
    /\ \E stream \in getDustStreamTip, block \in getIndexerTip :
          /\ tips' = [stream.tips EXCEPT !.block = block.tips.block, !.blockAt = block.tips.blockAt]
          /\ progress' = [applied |-> watch.applied, at |-> time,
                          progressAt |-> IF watch.last.at # None /\ watch.last.applied = watch.applied THEN watch.last.progressAt ELSE time,
                          caughtUp |-> isGenuinelyCaughtUp(watch.connected, watch.applied, stream.tip, block.tip)]
    /\ watch' = [IdleWatch EXCEPT !.reports = watch.reports]
    /\ UNCHANGED <<world, time, wait>>

-----------------------------------------------------------------------------
\* No read outlasts its timeout; the behaviour ends with the wait.
Tick ==
    /\ time < Len(world) /\ wait.step # "done"
    /\ wait.step \in {"peek", "stream"} => time < wait.since + ReadLimit
    /\ watch.step = "tips" => time < watch.since + ReadLimit
    /\ time' = time + 1
    /\ UNCHANGED <<world, tips, wait, watch, progress>>

SyncNext ==
    \/ poll \/ throwIfRpcCancelled \/ peekFacadeState \/ judge
    \/ progressWatchTick \/ watchReports
    \/ Tick

SyncSpec == SyncInit /\ [][SyncNext]_syncVars

-----------------------------------------------------------------------------
(* Properties.                                                             *)

Since(age) == {t \in 1..time : t >= time - age}
Oldest == IF StreamAge > StreamGrace THEN StreamAge ELSE StreamGrace

\* A wallet that is said to be synced had, a read ago, applied all events but Gap that the indexer knew of within the grace of a failed
\* read, and the indexer had a block no older than Freshness (isGenuinelyCaughtUp, staleStreamTip, getIndexerTip).
SyncedIsRecent ==
    progress.at = time /\ progress.caughtUp
    => /\ \E t \in Since(Oldest + ReadLimit) : progress.applied >= world[t].events - Gap
       /\ \E t \in Since(ReadLimit) : progress.applied = world[t].applied /\ world[t].connected
       /\ Now.block >= time - Freshness

\* A wait that is given up as stalled had a wallet that, at a reading no older than a read's timeout, was no further than at a reading
\* made before the time that takes, or than at its first one: a state that cannot be read counts as no progress (lastProgressAt).
StallIsReal ==
    wait.result = "stalled"
    => \E p, q \in 1..time : /\ q >= time - ReadLimit /\ (q - p >= Stall - ReadLimit \/ p = wait.first)
                             /\ world[q].applied <= world[p].applied
=============================================================================
