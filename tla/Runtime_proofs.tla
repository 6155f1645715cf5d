---------------------------- MODULE Runtime_proofs ----------------------------
(***************************************************************************)
(* Theorems about the parts of MC_Runtime, for every number of processes   *)
(* and any bounds.                                                         *)
(*                                                                         *)
(* The instance lease: the argument is about one process p at a time. A    *)
(* process that works refreshes the lease or knows that it lost it         *)
(* (HasLease); one that refreshes it has the row, or its last refresh is   *)
(* older than the ttl (HeartbeatKnows): another process takes the row only *)
(* when it is, and time only makes it older.                               *)
(*                                                                         *)
(* Block authors: what a resolver remembers is the list after the block it *)
(* names (ResolversKnow), and up to the end of a batch only rows the pass  *)
(* has read can be without an author (PassKnows).                          *)
(*                                                                         *)
(* Contract states: a run of the supplement that no rollback overlapped    *)
(* has done the blocks behind it (RunKnows), and the parameters it         *)
(* remembers are those of a block up to which all are stored (CacheKnows). *)
(* What a reader is about to answer is as new as when it asked             *)
(* (ReadKnows).                                                            *)
(***************************************************************************)
EXTENDS MC_Runtime, SequenceTheorems, WellFoundedInduction, TLAPS

-----------------------------------------------------------------------------
(* The instance lease.                                                     *)

\* A process that refreshes its lease knows when it did, and either still has the row with that refresh or has
\* not refreshed it for longer than the ttl.
HeartbeatKnows ==
    \A p \in LeaseProcs :
        server[p].heartbeat => \/ leaseRow.holder = p /\ leaseRow.beat = server[p].beat
                               \/ now - server[p].beat > LeaseTTL

\* A process works only after it took the lease, and it refreshes it or knows that it is lost.
HasLease(s) ==
    /\ s.loops => s.phase \in {"crawler", "up"}
    /\ s.initialized => s.phase \in {"up", "stopping", "releasing"}
    /\ s.phase \in {"recover", "close", "worker", "crawler", "up"} => s.heartbeat \/ s.fenced
    /\ s.heartbeat => s.phase \in {"recover", "close", "worker", "crawler", "up"}

WorkerHasLease == \A p \in LeaseProcs : HasLease(server[p])

\* What the type invariant says, by what steps change.
LeaseRecord ==
    [phase : Lease!Phases, deadline : Int, raced : BOOLEAN, loops : BOOLEAN, crawler : BOOLEAN, heartbeat : BOOLEAN,
     fenced : BOOLEAN, initialized : BOOLEAN, mode : {"idle", "active", "offline"}, failed : BOOLEAN, beat : Int]

LeaseShape ==
    /\ now \in 0..LeaseMaxNow
    /\ leaseRow \in [holder : LeaseProcs \cup {"none"}, beat : Int]
    /\ server \in [LeaseProcs -> LeaseRecord]

LInv == LeaseShape /\ WorkerHasLease /\ HeartbeatKnows

\* What a step of process p does to the lease row: nothing, p takes or refreshes it, or p gives it back.
RowStep(p) ==
    \/ leaseRow' = leaseRow
    \/ /\ leaseRow' = [holder |-> p, beat |-> now]
       /\ leaseRow.holder \in LeaseProcs \ {p} => leaseRow.beat < now - LeaseTTL
    \/ leaseRow.holder = p /\ leaseRow' = Lease!NoRow

\* A refresh of p's own is known to p.
BeatStep(p) ==
    server'[p].heartbeat =>
        \/ leaseRow' = [holder |-> p, beat |-> now] /\ server'[p].beat = now
        \/ leaseRow' = leaseRow /\ server'[p].beat = server[p].beat /\ server[p].heartbeat

\* What the proof needs to know of a step of p.
StepOf(p) == /\ server' = [server EXCEPT ![p] = server'[p]]
             /\ server'[p] \in LeaseRecord /\ HasLease(server'[p])
             /\ now' = now /\ RowStep(p) /\ BeatStep(p)

LEMMA LeaseInitInv == Lease!LeaseInit => LInv
  <1> SUFFICES ASSUME Lease!LeaseInit PROVE LInv
    OBVIOUS
  <1>1. LeaseShape
    BY LeaseAssumption DEF Lease!LeaseInit, LeaseShape, Lease!NoRow, LeaseRecord, Lease!Down, Lease!Phases
  <1>2. WorkerHasLease /\ HeartbeatKnows
    BY DEF Lease!LeaseInit, WorkerHasLease, HeartbeatKnows, HasLease, Lease!Down
  <1> QED
    BY <1>1, <1>2 DEF LInv

\* A step that leaves the row alone and gives p the record s.
LEMMA SetsRecord ==
    ASSUME LInv, NEW p \in LeaseProcs, NEW s \in LeaseRecord, HasLease(s), server' = [server EXCEPT ![p] = s],
           now' = now, leaseRow' = leaseRow, s.heartbeat => s.beat = server[p].beat /\ server[p].heartbeat
    PROVE  StepOf(p)
  <1>1. server'[p] = s
    BY DEF LInv, LeaseShape
  <1> QED
    BY <1>1 DEF StepOf, RowStep, BeatStep

\* A step that only goes on to the next phase.
LEMMA MovesStep ==
    ASSUME LInv, NEW p \in LeaseProcs, NEW phase \in Lease!Phases, Lease!Moves(p, phase),
           HasLease([server[p] EXCEPT !.phase = phase])
    PROVE  StepOf(p)
  <1> DEFINE s == [server[p] EXCEPT !.phase = phase]
  <1>1. s \in LeaseRecord /\ s.heartbeat = server[p].heartbeat /\ s.beat = server[p].beat
    BY DEF LInv, LeaseShape, LeaseRecord
  <1>2. server' = [server EXCEPT ![p] = s] /\ now' = now /\ leaseRow' = leaseRow
    BY DEF Lease!Moves, LInv, LeaseShape
  <1> QED
    BY <1>1, <1>2, SetsRecord

\* A start that fails leaves the process down; the lease, if it had it, lapses.
LEMMA DownRecord ==
    ASSUME NEW m \in {"idle", "active", "offline"}, NEW f \in BOOLEAN
    PROVE  [Lease!Down EXCEPT !.mode = m, !.fenced = f] \in LeaseRecord
  <1> DEFINE s == [Lease!Down EXCEPT !.mode = m, !.fenced = f]
  <1>1. Lease!Down \in LeaseRecord
    BY DEF LeaseRecord, Lease!Phases, Lease!Down
  <1> QED
    BY <1>1 DEF LeaseRecord

LEMMA FailsStep ==
    ASSUME LInv, NEW p \in LeaseProcs, Lease!startFails(p)
    PROVE  StepOf(p)
  <1> DEFINE s == [Lease!Down EXCEPT !.mode = "offline", !.fenced = server[p].fenced]
  <1>0. server[p].fenced \in BOOLEAN
    BY DEF LInv, LeaseShape, LeaseRecord
  <1>1. s \in LeaseRecord
    BY <1>0, DownRecord
  <1>3. HasLease(s) /\ ~s.heartbeat
    BY DEF HasLease, Lease!Down
  <1>2. server' = [server EXCEPT ![p] = s] /\ now' = now /\ leaseRow' = leaseRow
    BY DEF Lease!startFails
  <1> QED
    BY <1>1, <1>2, <1>3, SetsRecord

\* tryAcquireInstanceLease takes a row that is free, its own or stale.
LEMMA TakesStep ==
    ASSUME LInv, NEW p \in LeaseProcs, Lease!Takes(p),
           server[p].phase \in {"own", "stale", "insert"},
           leaseRow.holder \in LeaseProcs \ {p} => leaseRow.beat < now - LeaseTTL
    PROVE  StepOf(p)
  <1> DEFINE s == [server[p] EXCEPT !.phase = "recover", !.heartbeat = TRUE, !.fenced = FALSE, !.beat = now]
  <1>0. server[p] \in LeaseRecord /\ now \in Int
    BY LeaseAssumption DEF LInv, LeaseShape
  <1>1. s \in LeaseRecord /\ s.beat = now
    BY <1>0 DEF LeaseRecord, Lease!Phases
  <1>4. HasLease(server[p])
    BY DEF LInv, WorkerHasLease
  <1>5. HasLease(s)
    BY <1>4 DEF HasLease, LInv, LeaseShape, LeaseRecord
  <1>2. server' = [server EXCEPT ![p] = s] /\ now' = now /\ leaseRow' = [holder |-> p, beat |-> now]
    BY DEF Lease!Takes, LInv, LeaseShape
  <1>3. server'[p] = s
    BY <1>2 DEF LInv, LeaseShape
  <1> QED
    BY <1>1, <1>2, <1>3, <1>5 DEF StepOf, RowStep, BeatStep

\* A step of process p.
ServerStep(p) ==
    \/ Lease!initialize(p) \/ Lease!ensureSchemaDeployed(p) \/ Lease!ensureSyncStateSingleton(p) \/ Lease!tryOwn(p) \/ Lease!tryTakeover(p) \/ Lease!tryLook(p)
    \/ Lease!tryInsert(p) \/ Lease!acquireInstanceLease(p) \/ Lease!renewInstanceLease(p) \/ Lease!recoverJobs(p) \/ Lease!closeSessions(p) \/ Lease!startWorkers(p)
    \/ Lease!startCrawler(p) \/ Lease!assertLeaseHeld(p) \/ Lease!shutdown(p) \/ Lease!stopWorkers(p) \/ Lease!releaseInstanceLease(p) \/ Lease!kill(p)

LEMMA ServerSteps ==
    ASSUME LInv, NEW p \in LeaseProcs, ServerStep(p)
    PROVE  StepOf(p)
  <1> DEFINE old == server[p]
  <1>o. /\ old \in LeaseRecord /\ HasLease(old) /\ server \in [LeaseProcs -> LeaseRecord]
        /\ now \in Nat /\ now \in Int /\ LeaseTTL \in Nat /\ "none" \notin LeaseProcs
        /\ leaseRow = [holder |-> leaseRow.holder, beat |-> leaseRow.beat] /\ leaseRow.beat \in Int
    BY LeaseAssumption DEF LInv, LeaseShape, WorkerHasLease
  <1> USE <1>o
  <1>1. CASE Lease!initialize(p)
    <2>1. "schema" \in Lease!Phases /\ HasLease([old EXCEPT !.phase = "schema"])
      BY <1>1 DEF Lease!initialize, HasLease, LeaseRecord, Lease!Phases
    <2> QED
      BY <1>1, <2>1, MovesStep, FailsStep DEF Lease!initialize
  <1>2. CASE Lease!ensureSchemaDeployed(p)
    <2>1. "binding" \in Lease!Phases /\ HasLease([old EXCEPT !.phase = "binding"])
      BY <1>2 DEF Lease!ensureSchemaDeployed, HasLease, LeaseRecord, Lease!Phases
    <2> QED
      BY <1>2, <2>1, MovesStep, FailsStep DEF Lease!ensureSchemaDeployed
  <1>3. CASE Lease!ensureSyncStateSingleton(p)
    <2>1. "own" \in Lease!Phases /\ HasLease([old EXCEPT !.phase = "own"])
      BY <1>3 DEF Lease!ensureSyncStateSingleton, HasLease, LeaseRecord, Lease!Phases
    <2> QED
      BY <1>3, <2>1, MovesStep, FailsStep DEF Lease!ensureSyncStateSingleton
  <1>4. CASE Lease!tryOwn(p)
    <2>1. "stale" \in Lease!Phases /\ HasLease([old EXCEPT !.phase = "stale"])
      BY <1>4 DEF Lease!tryOwn, HasLease, LeaseRecord, Lease!Phases
    <2> QED
      BY <1>4, <2>1, MovesStep, TakesStep DEF Lease!tryOwn
  <1>5. CASE Lease!tryTakeover(p)
    <2>1. "look" \in Lease!Phases /\ HasLease([old EXCEPT !.phase = "look"])
      BY <1>5 DEF Lease!tryTakeover, HasLease, LeaseRecord, Lease!Phases
    <2> QED
      BY <1>5, <2>1, MovesStep, TakesStep DEF Lease!tryTakeover, Lease!isStale
  <1>6. CASE Lease!tryLook(p)
    <2>1. "insert" \in Lease!Phases /\ HasLease([old EXCEPT !.phase = "insert"])
      BY <1>6 DEF Lease!tryLook, HasLease, LeaseRecord, Lease!Phases
    <2>2. "wait" \in Lease!Phases /\ HasLease([old EXCEPT !.phase = "wait"])
      BY <1>6 DEF Lease!tryLook, HasLease, LeaseRecord, Lease!Phases
    <2> QED
      BY <1>6, <2>1, <2>2, MovesStep DEF Lease!tryLook
  <1>7. CASE Lease!tryInsert(p)
    <2> DEFINE s == [old EXCEPT !.phase = "own", !.raced = TRUE]
    <2>1. s \in LeaseRecord /\ HasLease(s) /\ s.heartbeat = old.heartbeat /\ s.beat = old.beat
      BY <1>7 DEF Lease!tryInsert, LeaseRecord, HasLease, Lease!Phases
    <2>2. CASE server' = [server EXCEPT ![p] = s] /\ now' = now /\ leaseRow' = leaseRow
      BY <2>1, <2>2, SetsRecord
    <2>3. CASE leaseRow = Lease!NoRow /\ Lease!Takes(p)
      BY <1>7, <2>3, TakesStep DEF Lease!tryInsert, Lease!NoRow
    <2>4. CASE Lease!startFails(p)
      BY <2>4, FailsStep
    <2> QED
      BY <1>7, <2>2, <2>3, <2>4 DEF Lease!tryInsert
  <1>8. CASE Lease!acquireInstanceLease(p)
    <2> DEFINE deadline == IF old.deadline = 0 THEN now + LeaseTTL ELSE old.deadline
               s == [old EXCEPT !.phase = "own", !.deadline = deadline, !.raced = FALSE]
    <2>d. deadline \in Int
      BY DEF LeaseRecord
    <2>1. s \in LeaseRecord /\ HasLease(s) /\ s.heartbeat = old.heartbeat /\ s.beat = old.beat
      <3> HIDE DEF deadline
      <3> QED
        BY <1>8, <2>d DEF Lease!acquireInstanceLease, LeaseRecord, HasLease, Lease!Phases
    <2>2. CASE server' = [server EXCEPT ![p] = s] /\ now' = now /\ leaseRow' = leaseRow
      BY <2>1, <2>2, SetsRecord
    <2>3. CASE Lease!startFails(p)
      BY <2>3, FailsStep
    <2> QED
      BY <1>8, <2>2, <2>3 DEF Lease!acquireInstanceLease
  <1>9. CASE Lease!renewInstanceLease(p)
    <2>1. CASE leaseRow.holder = p
      <3> DEFINE s == [old EXCEPT !.beat = now]
      <3>1. s \in LeaseRecord /\ HasLease(s) /\ s.beat = now
        BY DEF LeaseRecord, HasLease
      <3>2. server' = [server EXCEPT ![p] = s] /\ now' = now /\ leaseRow' = [holder |-> p, beat |-> now]
        BY <1>9, <2>1 DEF Lease!renewInstanceLease
      <3>3. server'[p] = s
        BY <3>2
      <3> QED
        BY <2>1, <3>1, <3>2, <3>3 DEF StepOf, RowStep, BeatStep
    <2>2. CASE leaseRow.holder # p
      <3> DEFINE s == [old EXCEPT !.heartbeat = FALSE, !.fenced = TRUE, !.loops = FALSE, !.crawler = FALSE, !.mode = "offline"]
      <3>1. s \in LeaseRecord /\ HasLease(s) /\ ~s.heartbeat
        BY DEF LeaseRecord, HasLease
      <3>2. server' = [server EXCEPT ![p] = s] /\ now' = now /\ leaseRow' = leaseRow
        BY <1>9, <2>2 DEF Lease!renewInstanceLease
      <3> QED
        BY <3>1, <3>2, SetsRecord
    <2> QED
      BY <2>1, <2>2
  <1>10. CASE Lease!recoverJobs(p)
    <2>1. "close" \in Lease!Phases /\ HasLease([old EXCEPT !.phase = "close"])
      BY <1>10 DEF Lease!recoverJobs, HasLease, LeaseRecord, Lease!Phases
    <2> QED
      BY <1>10, <2>1, MovesStep DEF Lease!recoverJobs
  <1>11. CASE Lease!closeSessions(p)
    <2>1. "worker" \in Lease!Phases /\ HasLease([old EXCEPT !.phase = "worker"])
      BY <1>11 DEF Lease!closeSessions, HasLease, LeaseRecord, Lease!Phases
    <2> QED
      BY <1>11, <2>1, MovesStep DEF Lease!closeSessions
  <1>12. CASE Lease!startWorkers(p)
    <2>1. PICK started \in BOOLEAN :
             server' = [server EXCEPT ![p].phase = "crawler", ![p].loops = started, ![p].failed = ~started]
      BY <1>12 DEF Lease!startWorkers
    <2> DEFINE s == [old EXCEPT !.phase = "crawler", !.loops = started, !.failed = ~started]
    <2>2. s \in LeaseRecord /\ HasLease(s) /\ s.heartbeat = old.heartbeat /\ s.beat = old.beat
      BY <1>12 DEF Lease!startWorkers, LeaseRecord, HasLease, Lease!Phases
    <2>3. server' = [server EXCEPT ![p] = s] /\ now' = now /\ leaseRow' = leaseRow
      BY <1>12, <2>1 DEF Lease!startWorkers
    <2> QED
      BY <2>2, <2>3, SetsRecord
  <1>13. CASE Lease!startCrawler(p)
    <2>1. PICK enabled \in BOOLEAN, started \in BOOLEAN :
             server' = [server EXCEPT ![p].phase = "up", ![p].initialized = TRUE, ![p].crawler = enabled /\ started,
                          ![p].mode = IF old.failed \/ (enabled /\ ~started) THEN "offline" ELSE IF enabled THEN "active" ELSE "idle"]
      BY <1>13 DEF Lease!startCrawler
    <2> DEFINE s == [old EXCEPT !.phase = "up", !.initialized = TRUE, !.crawler = enabled /\ started,
                          !.mode = IF old.failed \/ (enabled /\ ~started) THEN "offline" ELSE IF enabled THEN "active" ELSE "idle"]
    <2>2. s \in LeaseRecord /\ HasLease(s) /\ s.heartbeat = old.heartbeat /\ s.beat = old.beat
      BY <1>13 DEF Lease!startCrawler, LeaseRecord, HasLease, Lease!Phases
    <2>3. server' = [server EXCEPT ![p] = s] /\ now' = now /\ leaseRow' = leaseRow
      BY <1>13, <2>1 DEF Lease!startCrawler
    <2> QED
      BY <2>2, <2>3, SetsRecord
  <1>14. CASE Lease!assertLeaseHeld(p)
    <2> DEFINE s == [old EXCEPT !.fenced = TRUE]
    <2>1. s \in LeaseRecord /\ HasLease(s) /\ (s.heartbeat => s.beat = old.beat /\ old.heartbeat)
      BY <1>14 DEF Lease!assertLeaseHeld, LeaseRecord, HasLease, Lease!Phases
    <2>2. server' = [server EXCEPT ![p] = s] /\ now' = now /\ leaseRow' = leaseRow
      BY <1>14 DEF Lease!assertLeaseHeld
    <2> QED
      BY <2>1, <2>2, SetsRecord
  <1>15. CASE Lease!shutdown(p)
    <2> DEFINE s == [old EXCEPT !.phase = "stopping", !.loops = FALSE, !.heartbeat = FALSE, !.crawler = FALSE]
    <2>1. s \in LeaseRecord /\ HasLease(s) /\ (s.heartbeat => s.beat = old.beat /\ old.heartbeat)
      BY <1>15 DEF Lease!shutdown, LeaseRecord, HasLease, Lease!Phases
    <2>2. server' = [server EXCEPT ![p] = s] /\ now' = now /\ leaseRow' = leaseRow
      BY <1>15 DEF Lease!shutdown
    <2> QED
      BY <2>1, <2>2, SetsRecord
  <1>16. CASE Lease!stopWorkers(p)
    <2>1. "releasing" \in Lease!Phases /\ HasLease([old EXCEPT !.phase = "releasing"])
      BY <1>16 DEF Lease!stopWorkers, HasLease, LeaseRecord, Lease!Phases
    <2> QED
      BY <1>16, <2>1, MovesStep DEF Lease!stopWorkers
  <1>17. CASE Lease!releaseInstanceLease(p)
    <2> DEFINE s == [Lease!Down EXCEPT !.fenced = old.fenced]
    <2>0. old.fenced \in BOOLEAN
      BY DEF LeaseRecord
    <2>1. s \in LeaseRecord
      <3>1. Lease!Down \in LeaseRecord
        BY DEF LeaseRecord, Lease!Phases, Lease!Down
      <3> QED
        BY <2>0, <3>1 DEF LeaseRecord
    <2>4. HasLease(s) /\ ~s.heartbeat
      BY DEF HasLease, Lease!Down
    <2>2. /\ server' = [server EXCEPT ![p] = s] /\ now' = now
          /\ leaseRow' = leaseRow \/ (leaseRow.holder = p /\ leaseRow' = Lease!NoRow)
      BY <1>17 DEF Lease!releaseInstanceLease
    <2>3. server'[p] = s
      BY <2>2
    <2> QED
      BY <2>1, <2>2, <2>3, <2>4 DEF StepOf, RowStep, BeatStep, Lease!NoRow
  <1>18. CASE Lease!kill(p)
    <2>1. Lease!Down \in LeaseRecord /\ HasLease(Lease!Down) /\ ~Lease!Down.heartbeat
      BY DEF LeaseRecord, HasLease, Lease!Down, Lease!Phases
    <2>2. server' = [server EXCEPT ![p] = Lease!Down] /\ now' = now /\ leaseRow' = leaseRow
      BY <1>18 DEF Lease!kill
    <2> QED
      BY <2>1, <2>2, SetsRecord
  <1> QED
    BY <1>1, <1>2, <1>3, <1>4, <1>5, <1>6, <1>7, <1>8, <1>9, <1>10, <1>11, <1>12, <1>13, <1>14, <1>15, <1>16, <1>17, <1>18 DEF ServerStep

LEMMA LeaseStepInv == LInv /\ Lease!LeaseNext => LInv'
  <1> SUFFICES ASSUME LInv, Lease!LeaseNext PROVE LInv'
    OBVIOUS
  <1>1. CASE Lease!Tick
    <2>1. LeaseShape'
      BY <1>1, LeaseAssumption DEF LInv, LeaseShape, Lease!Tick
    <2>2. WorkerHasLease'
      BY <1>1 DEF LInv, WorkerHasLease, Lease!Tick
    <2>3. \A p \in LeaseProcs : server[p].beat \in Int
      BY DEF LInv, LeaseShape, LeaseRecord
    <2>4. HeartbeatKnows'
      BY <1>1, <2>3, LeaseAssumption DEF LInv, LeaseShape, HeartbeatKnows, Lease!Tick
    <2> QED
      BY <2>1, <2>2, <2>4 DEF LInv
  <1>2. ASSUME NEW p \in LeaseProcs, ServerStep(p) PROVE LInv'
    <2>1. StepOf(p)
      BY <1>2, ServerSteps
    <2>2. \A q \in LeaseProcs : q # p => server'[q] = server[q]
      BY <2>1 DEF StepOf, LInv, LeaseShape
    <2>3. LeaseShape'
      <3>1. server' \in [LeaseProcs -> LeaseRecord] /\ now' \in 0..LeaseMaxNow
        BY <2>1 DEF StepOf, LInv, LeaseShape
      <3>2. leaseRow' \in [holder : LeaseProcs \cup {"none"}, beat : Int]
        BY <2>1, LeaseAssumption DEF StepOf, RowStep, LInv, LeaseShape, Lease!NoRow
      <3> QED
        BY <3>1, <3>2 DEF LeaseShape
    <2>4. WorkerHasLease'
      BY <2>1, <2>2 DEF StepOf, LInv, WorkerHasLease
    <2>5. ASSUME NEW q \in LeaseProcs, server'[q].heartbeat
          PROVE  (leaseRow'.holder = q /\ leaseRow'.beat = server'[q].beat) \/ now' - server'[q].beat > LeaseTTL
      <3>0. now' = now /\ now \in Int /\ LeaseTTL \in Int /\ server[q].beat \in Int /\ leaseRow.beat \in Int
        BY <2>1, LeaseAssumption DEF StepOf, LInv, LeaseShape, LeaseRecord
      <3>1. CASE q = p
        <4>1. CASE leaseRow' = [holder |-> p, beat |-> now] /\ server'[p].beat = now
          BY <3>1, <4>1
        <4>2. CASE leaseRow' = leaseRow /\ server'[p].beat = server[p].beat /\ server[p].heartbeat
          BY <3>0, <3>1, <4>2 DEF LInv, HeartbeatKnows
        <4> QED
          BY <2>1, <2>5, <3>1, <4>1, <4>2 DEF StepOf, BeatStep
      <3>2. CASE q # p
        <4>1. server'[q] = server[q] /\ server[q].heartbeat
          BY <2>2, <2>5, <3>2
        <4>2. CASE now - server[q].beat > LeaseTTL
          BY <3>0, <4>1, <4>2
        <4>3. CASE leaseRow.holder = q /\ leaseRow.beat = server[q].beat
          <5>1. CASE leaseRow' = leaseRow
            BY <4>1, <4>3, <5>1
          <5>2. CASE leaseRow.holder \in LeaseProcs \ {p} => leaseRow.beat < now - LeaseTTL
            BY <3>0, <3>2, <4>1, <4>3, <5>2
          <5> QED
            BY <2>1, <3>2, <4>3, <5>1, <5>2 DEF StepOf, RowStep
        <4> QED
          BY <4>1, <4>2, <4>3 DEF LInv, HeartbeatKnows
      <3> QED
        BY <3>1, <3>2
    <2>6. HeartbeatKnows'
      BY <2>5 DEF HeartbeatKnows
    <2> QED
      BY <2>3, <2>4, <2>6 DEF LInv
  <1> QED
    BY <1>1, <1>2 DEF Lease!LeaseNext, ServerStep

\* A process with its loops on refreshes the lease, so it has the row or its last refresh is too old.
LEMMA LeaseInvImplies == LInv => Lease!LeaseTypeOK /\ Lease!OneWorkerUnlessStale
  <1> SUFFICES ASSUME LInv PROVE Lease!LeaseTypeOK /\ Lease!OneWorkerUnlessStale
    OBVIOUS
  <1>1. Lease!LeaseTypeOK
    BY DEF LInv, LeaseShape, LeaseRecord, Lease!LeaseTypeOK
  <1>2. ASSUME NEW p \in LeaseProcs, server[p].phase \notin {"stopping", "releasing"},
               (server[p].loops /\ ~server[p].fenced) \/ Lease!acceptsWrites(p)
        PROVE  leaseRow.holder = p \/ now - server[p].beat > LeaseTTL
    <2>1. HasLease(server[p])
      BY DEF LInv, WorkerHasLease
    <2>2. server[p].heartbeat
      BY <1>2, <2>1 DEF HasLease, Lease!acceptsWrites
    <2> QED
      BY <2>2 DEF LInv, HeartbeatKnows
  <1>3. Lease!OneWorkerUnlessStale
    BY <1>2 DEF Lease!OneWorkerUnlessStale
  <1> QED
    BY <1>1, <1>3

LeasePart == part = "lease" => LInv

\* A process that works or accepts writes holds the lease row, or has not refreshed it for longer than the ttl,
\* whatever other processes start, die, race for the row and take it over
\* (tryAcquireInstanceLease, renewInstanceLease, releaseInstanceLease, assertLeaseHeld).
THEOREM OneWorkerUnlessStaleAlways == Spec => []OneWorkerUnlessStale
  <1>1. Init => LeasePart
    BY LeaseInitInv DEF Init, LeasePart
  <1>2. LeasePart /\ [Next]_vars => LeasePart'
    <2> SUFFICES ASSUME LeasePart, [Next]_vars PROVE LeasePart'
      OBVIOUS
    <2>1. CASE UNCHANGED <<part, leaseVars>>
      BY <2>1 DEF LeasePart, LInv, LeaseShape, WorkerHasLease, HeartbeatKnows, leaseVars
    <2>2. CASE Only("lease") /\ Lease!LeaseNext
      BY <2>2, LeaseStepInv DEF LeasePart, Only
    <2>3. CASE part # "lease" /\ part' = part
      BY <2>3 DEF LeasePart
    <2>4. part = "lease" /\ Next => Only("lease") /\ Lease!LeaseNext
      BY DEF Next, Only
    <2>5. Next => part' = part
      BY DEF Next, Only
    <2>6. UNCHANGED vars => UNCHANGED <<part, leaseVars>>
      BY DEF vars
    <2> QED
      BY <2>1, <2>2, <2>3, <2>4, <2>5, <2>6
  <1>3. LeasePart => OneWorkerUnlessStale
    BY LeaseInvImplies DEF LeasePart, OneWorkerUnlessStale
  <1> QED
    BY <1>1, <1>2, <1>3, PTL DEF Spec

-----------------------------------------------------------------------------
(* Block authors.                                                          *)

\* the validator the chain says a block has
AuthorOf(b) == Authors!producer(b, AuthorLists[AuthorBlocks[b].parent])

AuthorNames == AuthorKeys \cup {Authors!Nobody}
AuthorRow == [id : AuthorIds, author : AuthorNames \cup {Authors!Unknown}, slot : BOOLEAN]

IsTrue(r) == r.author # Authors!Unknown => r.author = AuthorOf(r.id)

RowsAreTrue ==
    /\ rows \in Seq(AuthorRow) /\ cursor \in Nat
    /\ \A i \in 1..Len(rows) : IsTrue(rows[i]) /\ (rows[i].slot => rows[i].author # Authors!Unknown)
    /\ \A i \in 1..Len(rows) : i <= cursor \/ finished => rows[i].author # Authors!Unknown

\* A resolver remembers the list after the block it remembers, and what it found so far is true.
ResolversKnow ==
    /\ \A r \in Authors!Resolvers : memory[r].parent # -1 => memory[r].parent \in AuthorIds /\ memory[r].list = AuthorLists[memory[r].parent]
    /\ DOMAIN memory = Authors!Resolvers /\ DOMAIN work = AuthorWorks
    /\ \A w \in AuthorWorks : DOMAIN work[w] = {"step", "id", "list", "author"}
    /\ \A w \in AuthorWorks : /\ work[w].step # "idle" => work[w].id \in AuthorIds
                              /\ work[w].step = "store" => work[w].author = AuthorOf(work[w].id)

\* The pass names true authors; up to its end, a row it did not read has an author, also one stored since.
PassKnows ==
    /\ DOMAIN pass = {"step", "ids", "found", "last"}
    /\ pass.step = "resolve" =>
           /\ pass.last \in Nat /\ DOMAIN pass.found \subseteq DOMAIN pass.ids
           /\ \A k \in DOMAIN pass.ids : pass.ids[k] \in AuthorIds
           /\ \A k \in DOMAIN pass.found : pass.found[k] = AuthorOf(pass.ids[k])
           /\ \A i \in 1..Len(rows) : i <= pass.last /\ rows[i].author = Authors!Unknown => \E k \in DOMAIN pass.ids : pass.ids[k] = rows[i].id

HInv == RowsAreTrue /\ ResolversKnow /\ PassKnows

LEMMA AuthorFacts ==
    ASSUME NEW b \in AuthorIds
    PROVE  /\ AuthorBlocks[b].parent \in {0} \cup AuthorIds /\ AuthorBlocks[b].parent # -1
           /\ AuthorOf(b) \in AuthorNames /\ AuthorOf(b) # Authors!Unknown
           /\ Authors!After(b, AuthorLists[AuthorBlocks[b].parent]) = AuthorLists[b]
           /\ \A list : AuthorBlocks[b].slot = -1 => Authors!producer(b, list) = AuthorOf(b)
  <1> DEFINE p == AuthorBlocks[b].parent
             list == AuthorLists[p]
             s == AuthorBlocks[b].slot
  <1>1. p \in {0} \cup AuthorIds /\ p # -1 /\ list \in Seq(AuthorKeys) /\ s \in Nat \cup {-1}
    <2>1. p \in {0} \cup AuthorIds /\ s \in Nat \cup {-1}
      BY AuthorAssumption
    <2>2. AuthorIds \subseteq Nat
      BY AuthorAssumption
    <2>3. p # -1
      BY <2>1, <2>2
    <2>4. AuthorLists \in [{0} \cup AuthorIds -> Seq(AuthorKeys)]
      BY AuthorAssumption
    <2> HIDE DEF p
    <2> QED
      BY <2>1, <2>3, <2>4
  <1>2. AuthorOf(b) \in AuthorNames
    <2>1. CASE s = -1 \/ list = <<>>
      BY <2>1 DEF AuthorOf, Authors!producer, AuthorNames
    <2>2. CASE s # -1 /\ list # <<>>
      <3>1. Len(list) \in Nat \ {0} /\ s \in Nat
        BY <1>1, <2>2
      <3>2. (s % Len(list)) + 1 \in 1..Len(list)
        <4> DEFINE n == Len(list)
        <4>1. n \in Nat \ {0}
          BY <3>1
        <4> HIDE DEF n, s
        <4>2. s % n \in 0..(n - 1)
          BY <3>1, <4>1
        <4> QED
          BY <4>1, <4>2 DEF n
      <3>3. list[(s % Len(list)) + 1] \in AuthorKeys
        BY <1>1, <3>2, ElementOfSeq
      <3> QED
        BY <3>3 DEF AuthorOf, Authors!producer, AuthorNames
    <2> QED
      BY <2>1, <2>2
  <1>3. AuthorOf(b) # Authors!Unknown
    BY <1>2, AuthorAssumption DEF AuthorNames, Authors!Nobody, Authors!Unknown
  <1>4. Authors!After(b, list) = AuthorLists[b]
    BY AuthorAssumption DEF Authors!After
  <1>5. \A l : s = -1 => Authors!producer(b, l) = AuthorOf(b)
    BY DEF AuthorOf, Authors!producer
  <1> QED
    BY <1>1, <1>2, <1>3, <1>4, <1>5

LEMMA HInvInit == Authors!AuthorInit => HInv
  <1> SUFFICES ASSUME Authors!AuthorInit PROVE HInv
    OBVIOUS
  <1>1. PICK q \in Authors!Oldest : rows = [i \in DOMAIN q |-> [id |-> q[i], author |-> Authors!Unknown, slot |-> FALSE]]
    BY DEF Authors!AuthorInit
  <1>2. PICK n \in Nat : q \in [1..n -> AuthorIds]
    BY DEF Authors!Oldest
  <1>3. rows \in Seq(AuthorRow) /\ Len(rows) = n /\ \A i \in 1..n : rows[i].author = Authors!Unknown /\ rows[i].slot = FALSE
    <2>1. \A i \in 1..n : [id |-> q[i], author |-> Authors!Unknown, slot |-> FALSE] \in AuthorRow
      BY <1>2 DEF AuthorRow
    <2>2. rows \in [1..n -> AuthorRow]
      BY <1>1, <1>2, <2>1
    <2>3. rows \in Seq(AuthorRow)
      BY <1>2, <2>2, SeqDef
    <2> QED
      BY <1>1, <1>2, <2>3
  <1> QED
    BY <1>3 DEF Authors!AuthorInit, HInv, RowsAreTrue, IsTrue, ResolversKnow, PassKnows, Authors!Between, Authors!Idle

\* A resolver that goes by the right list finds the true author, and remembers the right list.
LEMMA ResolveStep ==
    ASSUME ResolversKnow, NEW r \in Authors!Resolvers, NEW b \in AuthorIds, NEW list,
           list = AuthorLists[AuthorBlocks[b].parent] \/ AuthorBlocks[b].slot = -1,
           memory' = Authors!resolve(r, b, list)
    PROVE  /\ Authors!producer(b, list) = AuthorOf(b)
           /\ DOMAIN memory' = Authors!Resolvers
           /\ \A s \in Authors!Resolvers :
                 memory'[s].parent # -1 => memory'[s].parent \in AuthorIds /\ memory'[s].list = AuthorLists[memory'[s].parent]
  <1>1. Authors!producer(b, list) = AuthorOf(b)
    BY AuthorFacts DEF AuthorOf
  <1>2. CASE AuthorBlocks[b].slot = -1
    BY <1>1, <1>2 DEF Authors!resolve, ResolversKnow
  <1>3. CASE AuthorBlocks[b].slot # -1
    <2>1. memory' = [memory EXCEPT ![r] = [parent |-> b, list |-> AuthorLists[b]]]
      BY <1>3, AuthorFacts DEF Authors!resolve
    <2> QED
      BY <1>1, <2>1 DEF ResolversKnow
  <1> QED
    BY <1>2, <1>3

\* Steps that leave the rows and the pass alone.
LEMMA HInvCrawls ==
    ASSUME HInv, NEW w \in AuthorWorks, UNCHANGED <<rows, pass, cursor, finished>>,
           \/ \E b \in AuthorIds : Authors!fetchBlock(w, b)
           \/ Authors!resolveBlock(w)
           \/ Authors!readAuthorities(w)
    PROVE  HInv'
  <1> DEFINE b == work[w].id
  <1>1. RowsAreTrue' /\ PassKnows'
    BY DEF HInv, RowsAreTrue, PassKnows, IsTrue, AuthorOf
  <1>2. /\ DOMAIN work = AuthorWorks
        /\ \A v \in AuthorWorks : /\ work[v].step # "idle" => work[v].id \in AuthorIds
                                  /\ work[v].step = "store" => work[v].author = AuthorOf(work[v].id)
    BY DEF HInv, ResolversKnow
  <1>3. CASE \E c \in AuthorIds : Authors!fetchBlock(w, c)
    BY <1>1, <1>2, <1>3 DEF Authors!fetchBlock, Authors!Idle, HInv, ResolversKnow
  <1>4. ASSUME NEW list, list = AuthorLists[AuthorBlocks[b].parent] \/ AuthorBlocks[b].slot = -1, b \in AuthorIds,
               memory' = Authors!resolve("crawler", b, list),
               work' = [work EXCEPT ![w].step = "store", ![w].author = Authors!producer(b, list)]
        PROVE  HInv'
    <2>1. /\ Authors!producer(b, list) = AuthorOf(b)
          /\ DOMAIN memory' = Authors!Resolvers
          /\ \A s \in Authors!Resolvers :
                memory'[s].parent # -1 => memory'[s].parent \in AuthorIds /\ memory'[s].list = AuthorLists[memory'[s].parent]
      BY <1>4, ResolveStep DEF HInv, Authors!Resolvers
    <2>2. work' = [work EXCEPT ![w].step = "store", ![w].author = AuthorOf(b)]
      BY <1>4, <2>1
    <2>3. \A v \in AuthorWorks : /\ work'[v].step # "idle" => work'[v].id \in AuthorIds
                                 /\ work'[v].step = "store" => work'[v].author = AuthorOf(work'[v].id)
      <3>1. \A v \in AuthorWorks : v # w => work'[v] = work[v]
        BY <1>2, <2>2
      <3>2. work'[w].id = b
        BY <1>2, <2>2
      <3>3. work'[w].author = AuthorOf(b) 
        BY <1>2, <2>2
      <3>4. \A v \in AuthorWorks : v # w => /\ work'[v].step # "idle" => work'[v].id \in AuthorIds
                                            /\ work'[v].step = "store" => work'[v].author = AuthorOf(work'[v].id)
        BY <1>2, <3>1
      <3>5. work'[w].id \in AuthorIds /\ work'[w].author = AuthorOf(work'[w].id)
        BY <1>4, <3>2, <3>3
      <3> QED
        BY <3>4, <3>5
    <2>4. DOMAIN work' = AuthorWorks
      BY <1>2, <2>2
    <2>5. \A v \in AuthorWorks : DOMAIN work'[v] = {"step", "id", "list", "author"}
      BY <1>2, <2>2 DEF HInv, ResolversKnow
    <2> QED
      BY <1>1, <2>1, <2>3, <2>4, <2>5 DEF HInv, ResolversKnow
  <1>5. CASE Authors!resolveBlock(w)
    <2>1. b \in AuthorIds
      <3>1. work[w].step = "resolve"
        BY <1>5 DEF Authors!resolveBlock
      <3>2. work[w].step # "idle"
        BY <3>1
      <3> QED
        BY <1>2, <3>2
    <2>2. CASE AuthorBlocks[b].slot = -1 \/ Authors!Remembers("crawler", b)
      <3>1. AuthorBlocks[b].slot = -1 \/ memory["crawler"].list = AuthorLists[AuthorBlocks[b].parent]
        BY <2>1, <2>2, AuthorFacts DEF HInv, ResolversKnow, Authors!Remembers, Authors!Resolvers
      <3> QED
        BY <1>4, <1>5, <2>1, <2>2, <3>1 DEF Authors!resolveBlock
    <2>3. CASE ~(AuthorBlocks[b].slot = -1 \/ Authors!Remembers("crawler", b))
      <3>1. work' = [work EXCEPT ![w].step = "read"] /\ memory' = memory
        BY <1>5, <2>3 DEF Authors!resolveBlock
      <3>2. \A v \in AuthorWorks : work'[v].step = (IF v = w THEN "read" ELSE work[v].step) /\ work'[v].id = work[v].id
                                   /\ work'[v].author = work[v].author
        BY <1>2, <3>1
      <3>3. DOMAIN work' = AuthorWorks
        BY <1>2, <3>1
      <3> QED
        BY <1>1, <1>2, <2>1, <3>1, <3>2, <3>3 DEF HInv, ResolversKnow
    <2> QED
      BY <2>2, <2>3
  <1>6. CASE Authors!readAuthorities(w)
    <2>1. b \in AuthorIds
      <3>1. work[w].step = "read"
        BY <1>6 DEF Authors!readAuthorities
      <3>2. work[w].step # "idle"
        BY <3>1
      <3> QED
        BY <1>2, <3>2
    <2>2. CASE work' = [work EXCEPT ![w] = Authors!Idle] /\ memory' = memory
      BY <1>1, <1>2, <2>2 DEF HInv, ResolversKnow, Authors!Idle
    <2> QED
      BY <1>4, <1>6, <2>1, <2>2 DEF Authors!readAuthorities, Authors!authoritiesAfter
  <1> QED
    BY <1>3, <1>5, <1>6

LEMMA HInvStores ==
    ASSUME HInv, NEW w \in AuthorWorks, Authors!storeBlock(w)
    PROVE  HInv'
  <1> DEFINE b == work[w].id
             new == [id |-> b, author |-> work[w].author, slot |-> AuthorBlocks[b].slot # -1]
  <1>1. /\ DOMAIN work = AuthorWorks
        /\ \A v \in AuthorWorks : /\ work[v].step # "idle" => work[v].id \in AuthorIds
                                  /\ work[v].step = "store" => work[v].author = AuthorOf(work[v].id)
    BY DEF HInv, ResolversKnow
  <1>2. work[w].step = "store" /\ work[w].step # "idle"
    BY DEF Authors!storeBlock
  <1>3. b \in AuthorIds /\ work[w].author = AuthorOf(b)
    BY <1>1, <1>2
  <1>4. new \in AuthorRow /\ IsTrue(new) /\ new.author # Authors!Unknown
    BY <1>3, AuthorFacts DEF AuthorRow, IsTrue
  <1>5. ResolversKnow'
    BY <1>1, <1>2 DEF HInv, ResolversKnow, Authors!storeBlock, Authors!Idle
  <1>6. UNCHANGED <<pass, cursor, finished>>
    BY DEF Authors!storeBlock
  <1>7. CASE rows' = rows
    BY <1>5, <1>6, <1>7 DEF HInv, RowsAreTrue, PassKnows, IsTrue, AuthorOf
  <1>8. CASE rows' = Append(rows, new)
    <2> HIDE DEF new
    <2>1. rows \in Seq(AuthorRow) /\ Len(rows) \in Nat
      BY DEF HInv, RowsAreTrue
    <2>2. rows' \in Seq(AuthorRow) /\ Len(rows') = Len(rows) + 1 /\ rows'[Len(rows) + 1] = new
          /\ \A i \in 1..Len(rows) : rows'[i] = rows[i]
      BY <1>4, <1>8, <2>1, AppendProperties
    <2>3. \A i \in 1..Len(rows') : i \in 1..Len(rows) \/ rows'[i] = new
      BY <2>1, <2>2
    <2>4. RowsAreTrue'
      <3>1. \A i \in 1..Len(rows') : IsTrue(rows'[i]) /\ (rows'[i].slot => rows'[i].author # Authors!Unknown)
        BY <1>4, <2>2, <2>3 DEF HInv, RowsAreTrue
      <3>2. \A i \in 1..Len(rows') : i <= cursor \/ finished => rows'[i].author # Authors!Unknown
        BY <1>4, <2>2, <2>3 DEF HInv, RowsAreTrue
      <3>3. cursor' \in Nat
        BY <1>6 DEF HInv, RowsAreTrue
      <3> QED
        BY <1>6, <2>2, <3>1, <3>2, <3>3 DEF RowsAreTrue, IsTrue, AuthorOf
    <2>5. PassKnows'
      BY <1>4, <1>6, <2>2, <2>3 DEF HInv, PassKnows, AuthorOf
    <2> QED
      BY <1>5, <2>4, <2>5 DEF HInv
  <1> QED
    BY <1>7, <1>8 DEF Authors!storeBlock

LEMMA HInvRollsBack ==
    ASSUME HInv, NEW k \in 0..Len(rows), Authors!rollback(k)
    PROVE  HInv'
  <1>1. rows \in Seq(AuthorRow) /\ Len(rows) \in Nat /\ k \in 0..(Len(rows) - 1) /\ rows' = SubSeq(rows, 1, k)
    BY DEF HInv, RowsAreTrue, Authors!rollback
  <1>2. rows' \in Seq(AuthorRow) /\ Len(rows') = k /\ \A i \in 1..k : rows'[i] = rows[i]
    <2>1. 1 \in 1..(Len(rows) + 1) /\ k \in 0..Len(rows) /\ k \in Nat
      BY <1>1
    <2>2. rows' \in Seq(AuthorRow) /\ Len(rows') = IF 1 <= k THEN k - 1 + 1 ELSE 0
      BY <1>1, <2>1, SubSeqProperties
    <2>3. \A i \in 1..(k - 1 + 1) : rows'[i] = rows[1 + i - 1]
      BY <1>1, <2>1, SubSeqProperties
    <2> QED
      BY <2>1, <2>2, <2>3
  <1>3. 1..k \subseteq 1..Len(rows)
    BY <1>1
  <1>4. UNCHANGED <<memory, work, pass, cursor, finished>>
    BY DEF Authors!rollback
  <1>5. RowsAreTrue'
    BY <1>2, <1>3, <1>4 DEF HInv, RowsAreTrue, IsTrue, AuthorOf
  <1>6. ResolversKnow' /\ PassKnows'
    BY <1>2, <1>3, <1>4 DEF HInv, ResolversKnow, PassKnows, AuthorOf
  <1> QED
    BY <1>5, <1>6 DEF HInv

LEMMA HInvPasses ==
    ASSUME HInv, Authors!runOnce \/ Authors!resolveRow \/ Authors!resolveRowFails \/ Authors!writeRows
    PROVE  HInv'
  <1>0. /\ rows \in Seq(AuthorRow) /\ Len(rows) \in Nat /\ cursor \in Nat /\ DOMAIN rows = 1..Len(rows)
        /\ \A i \in 1..Len(rows) : rows[i].id \in AuthorIds /\ rows[i].author \in AuthorNames \cup {Authors!Unknown}
                                   /\ rows[i].slot \in BOOLEAN
    <2>1. rows \in Seq(AuthorRow) /\ Len(rows) \in Nat /\ cursor \in Nat /\ DOMAIN rows = 1..Len(rows)
      BY DEF HInv, RowsAreTrue
    <2>2. \A i \in 1..Len(rows) : rows[i] \in AuthorRow
      BY <2>1, ElementOfSeq
    <2> QED
      BY <2>1, <2>2 DEF AuthorRow
  <1>1. CASE Authors!runOnce
    <2>1. CASE cursor >= Len(rows)
      <3>1. UNCHANGED <<rows, memory, work, cursor, pass>> /\ finished' = TRUE
        BY <1>1, <2>1 DEF Authors!runOnce
      <3>2. \A i \in 1..Len(rows) : i <= cursor
        BY <1>0, <2>1
      <3>3. RowsAreTrue'
        BY <3>1, <3>2 DEF HInv, RowsAreTrue, IsTrue, AuthorOf
      <3> QED
        BY <3>1, <3>3 DEF HInv, ResolversKnow, PassKnows, AuthorOf
    <2>2. CASE ~(cursor >= Len(rows))
      <3> DEFINE top == IF cursor + AuthorBatch < Len(rows) THEN cursor + AuthorBatch ELSE Len(rows)
                 open == {i \in (cursor + 1)..top : ~rows[i].slot}
      <3>1. UNCHANGED <<rows, memory, work, cursor, finished>>
            /\ pass' = [step |-> "resolve", ids |-> [i \in open |-> rows[i].id], found |-> <<>>, last |-> top]
        BY <1>1, <2>2 DEF Authors!runOnce
      <3>2. top \in Nat /\ open \subseteq 1..Len(rows)
        BY <1>0, AuthorAssumption
      <3>3. ASSUME NEW i \in 1..Len(rows), i <= top, rows[i].author = Authors!Unknown PROVE i \in open
        BY <1>0, <3>2, <3>3 DEF HInv, RowsAreTrue
      <3> HIDE DEF top, open
      <3>4. /\ pass'.last = top /\ DOMAIN pass'.ids = open /\ \A i \in open : pass'.ids[i] = rows[i].id
            /\ DOMAIN pass'.found = {}
        BY <3>1
      <3>5. PassKnows'
        BY <1>0, <3>1, <3>2, <3>3, <3>4 DEF PassKnows, AuthorOf
      <3> QED
        BY <3>1, <3>5 DEF HInv, RowsAreTrue, ResolversKnow, IsTrue, AuthorOf
    <2> QED
      BY <2>1, <2>2
  <1>2. CASE Authors!resolveRow
    <2>1. PICK k \in DOMAIN pass.ids \ DOMAIN pass.found :
             LET b == pass.ids[k]
                 list == IF Authors!Remembers("pass", b) THEN memory["pass"].list ELSE AuthorLists[AuthorBlocks[b].parent]
             IN  /\ memory' = Authors!resolve("pass", b, list)
                 /\ pass' = [pass EXCEPT !.found = [j \in DOMAIN pass.found \cup {k} |->
                                                       IF j = k THEN Authors!producer(b, list) ELSE pass.found[j]]]
      BY <1>2 DEF Authors!resolveRow, Authors!authoritiesAfter
    <2> DEFINE b == pass.ids[k]
               list == IF Authors!Remembers("pass", b) THEN memory["pass"].list ELSE AuthorLists[AuthorBlocks[b].parent]
               found == [j \in DOMAIN pass.found \cup {k} |-> IF j = k THEN AuthorOf(b) ELSE pass.found[j]]
    <2>2. pass.step = "resolve" /\ b \in AuthorIds
      BY <1>2 DEF Authors!resolveRow, HInv, PassKnows
    <2>3. list = AuthorLists[AuthorBlocks[b].parent]
      BY <2>2, AuthorFacts DEF HInv, ResolversKnow, Authors!Remembers, Authors!Resolvers
    <2>4. /\ Authors!producer(b, list) = AuthorOf(b)
          /\ DOMAIN memory' = Authors!Resolvers
          /\ \A s \in Authors!Resolvers :
                memory'[s].parent # -1 => memory'[s].parent \in AuthorIds /\ memory'[s].list = AuthorLists[memory'[s].parent]
      BY <2>1, <2>2, <2>3, ResolveStep DEF HInv, Authors!Resolvers
    <2>5. pass' = [pass EXCEPT !.found = found]
      BY <2>1, <2>4
    <2>6. UNCHANGED <<rows, work, cursor, finished>>
      BY <1>2 DEF Authors!resolveRow
    <2>7. RowsAreTrue' /\ ResolversKnow'
      BY <2>4, <2>6 DEF HInv, RowsAreTrue, ResolversKnow, IsTrue, AuthorOf
    <2>8. DOMAIN found \subseteq DOMAIN pass.ids /\ \A j \in DOMAIN found : found[j] = AuthorOf(pass.ids[j])
      BY <2>2 DEF HInv, PassKnows
    <2>9. PassKnows'
      <3> HIDE DEF found
      <3>1. pass'.step = pass.step /\ pass'.ids = pass.ids /\ pass'.last = pass.last
        BY <2>5
      <3>2. pass'.found = found
        BY <2>5 DEF HInv, PassKnows
      <3>3. DOMAIN pass' = DOMAIN pass
        BY <2>5
      <3> QED
        BY <2>2, <2>6, <2>8, <3>1, <3>2, <3>3 DEF HInv, PassKnows, AuthorOf
    <2> QED
      BY <2>7, <2>9 DEF HInv
  <1>3. CASE Authors!resolveRowFails
    BY <1>3 DEF Authors!resolveRowFails, Authors!Between, HInv, RowsAreTrue, ResolversKnow, PassKnows, IsTrue, AuthorOf
  <1>4. CASE Authors!writeRows
    <2> DEFINE Named(r) == {k \in DOMAIN pass.ids : pass.ids[k] = r.id}
               At(i) == CHOOSE k \in Named(rows[i]) : TRUE
               named == [i \in 1..Len(rows) |->
                              IF Named(rows[i]) = {} \/ rows[i].slot THEN rows[i]
                              ELSE [id |-> rows[i].id, author |-> pass.found[At(i)], slot |-> AuthorBlocks[rows[i].id].slot # -1]]
    <2>1. rows' = named /\ cursor' = pass.last /\ pass' = Authors!Between /\ UNCHANGED <<memory, work, finished>>
      BY <1>0, <1>4 DEF Authors!writeRows
    <2>2. pass.step = "resolve" /\ DOMAIN pass.found = DOMAIN pass.ids
      BY <1>4 DEF Authors!writeRows
    <2>3. ASSUME NEW i \in 1..Len(rows)
          PROVE  /\ named[i] \in AuthorRow /\ IsTrue(named[i]) /\ (named[i].slot => named[i].author # Authors!Unknown)
                 /\ named[i].author = Authors!Unknown => rows[i].author = Authors!Unknown /\ Named(rows[i]) = {}
      <3>1. CASE Named(rows[i]) = {} \/ rows[i].slot
        <4>1. named[i] = rows[i]
          BY <3>1
        <4>2. rows[i] \in AuthorRow
          BY <1>0, ElementOfSeq
        <4> HIDE DEF Named, named
        <4> QED
          BY <3>1, <4>1, <4>2 DEF HInv, RowsAreTrue
      <3>2. CASE ~(Named(rows[i]) = {} \/ rows[i].slot)
        <4>1. At(i) \in Named(rows[i])
          BY <3>2
        <4>2. pass.found[At(i)] = AuthorOf(rows[i].id)
          BY <2>2, <4>1 DEF HInv, PassKnows
        <4>3. named[i] = [id |-> rows[i].id, author |-> AuthorOf(rows[i].id), slot |-> AuthorBlocks[rows[i].id].slot # -1]
          BY <3>2, <4>2
        <4> HIDE DEF Named, At, named
        <4>4. rows[i].id \in AuthorIds
          BY <1>0
        <4> QED
          BY <4>3, <4>4, AuthorFacts DEF AuthorRow, IsTrue
      <3> QED
        BY <3>1, <3>2
    <2>4. \A i \in 1..Len(rows) : i <= pass.last => named[i].author # Authors!Unknown
      <3> SUFFICES ASSUME NEW i \in 1..Len(rows), i <= pass.last, named[i].author = Authors!Unknown PROVE FALSE
        OBVIOUS
      <3>1. rows[i].author = Authors!Unknown /\ Named(rows[i]) = {}
        BY <2>3
      <3>2. PICK k \in DOMAIN pass.ids : pass.ids[k] = rows[i].id
        BY <2>2, <3>1 DEF HInv, PassKnows
      <3> QED
        BY <3>1, <3>2
    <2>5. \A i \in 1..Len(rows) : finished => named[i].author # Authors!Unknown
      BY <2>3 DEF HInv, RowsAreTrue
    <2>6. pass.last \in Nat
      BY <2>2 DEF HInv, PassKnows
    <2>7. named \in Seq(AuthorRow) /\ Len(named) = Len(rows)
      <3>1. named \in [1..Len(rows) -> AuthorRow]
        BY <2>3
      <3> HIDE DEF named
      <3>2. named \in Seq(AuthorRow)
        BY <1>0, <3>1, SeqDef
      <3> QED
        BY <1>0, <3>1, <3>2
    <2>8. RowsAreTrue'
      <3> HIDE DEF named, Named
      <3> QED
        BY <2>1, <2>3, <2>4, <2>5, <2>6, <2>7 DEF RowsAreTrue, IsTrue, AuthorOf
    <2>9. ResolversKnow' /\ PassKnows'
      BY <2>1 DEF HInv, ResolversKnow, PassKnows, Authors!Between, AuthorOf
    <2> QED
      BY <2>8, <2>9 DEF HInv
  <1> QED
    BY <1>1, <1>2, <1>3, <1>4

LEMMA HInvRestarts ==
    ASSUME HInv, Authors!restart
    PROVE  HInv'
  BY DEF Authors!restart, Authors!Between, Authors!Idle, Authors!Resolvers, HInv, RowsAreTrue, ResolversKnow, PassKnows, IsTrue, AuthorOf

LEMMA HInvNext == HInv /\ (Authors!AuthorNext \/ UNCHANGED authorVars) => HInv'
  <1> SUFFICES ASSUME HInv, Authors!AuthorNext \/ UNCHANGED authorVars PROVE HInv'
    OBVIOUS
  <1>1. ASSUME NEW w \in AuthorWorks, \E b \in AuthorIds : Authors!fetchBlock(w, b) PROVE HInv'
    BY <1>1, HInvCrawls DEF Authors!fetchBlock
  <1>2. ASSUME NEW w \in AuthorWorks, Authors!resolveBlock(w) PROVE HInv'
    BY <1>2, HInvCrawls DEF Authors!resolveBlock
  <1>3. ASSUME NEW w \in AuthorWorks, Authors!readAuthorities(w) PROVE HInv'
    BY <1>3, HInvCrawls DEF Authors!readAuthorities
  <1>4. CASE UNCHANGED authorVars
    BY <1>4 DEF authorVars, HInv, RowsAreTrue, ResolversKnow, PassKnows, IsTrue, AuthorOf
  <1> QED
    BY <1>1, <1>2, <1>3, <1>4, HInvStores, HInvRollsBack, HInvPasses, HInvRestarts DEF Authors!AuthorNext

LEMMA HInvImplies == HInv => Authors!AuthorsAreTrue
  <1> SUFFICES ASSUME HInv PROVE Authors!AuthorsAreTrue
    OBVIOUS
  <1>1. DOMAIN rows = 1..Len(rows)
    BY DEF HInv, RowsAreTrue
  <1> QED
    BY <1>1 DEF HInv, RowsAreTrue, IsTrue, AuthorOf, Authors!AuthorsAreTrue, Authors!authoritiesAfter

AuthorPart == part = "authors" => HInv

\* A block is never stored or rewritten with a wrong validator, and none is left without one by a pass that has ended: for any tree of
\* blocks and any changes of the list, in whatever order blocks are resolved, with rollbacks, failed reads and restarts.
THEOREM AuthorsAreTrueAlways == Spec => []AuthorsAreTrue
  <1>1. Init => AuthorPart
    BY HInvInit DEF Init, AuthorPart
  <1>2. AuthorPart /\ [Next]_vars => AuthorPart'
    <2> SUFFICES ASSUME AuthorPart, [Next]_vars PROVE AuthorPart'
      OBVIOUS
    <2>1. CASE UNCHANGED <<part, authorVars>>
      BY <2>1, HInvNext DEF AuthorPart, authorVars
    <2>2. CASE Only("authors") /\ Authors!AuthorNext
      BY <2>2, HInvNext DEF AuthorPart, Only
    <2>3. CASE part # "authors" /\ part' = part
      BY <2>3 DEF AuthorPart
    <2>4. part = "authors" /\ Next => Only("authors") /\ Authors!AuthorNext
      BY DEF Next, Only
    <2>5. Next => part' = part
      BY DEF Next, Only
    <2>6. UNCHANGED vars => UNCHANGED <<part, authorVars>>
      BY DEF vars
    <2> QED
      BY <2>1, <2>2, <2>3, <2>4, <2>5, <2>6
  <1>3. AuthorPart => AuthorsAreTrue
    BY HInvImplies DEF AuthorPart, AuthorsAreTrue
  <1> QED
    BY <1>1, <1>2, <1>3, PTL DEF Spec

-----------------------------------------------------------------------------
(* What is added to the indexed blocks, and the contract's states.         *)

ChainBlock == [params : Nat \ {0}, txs : Seq([mine : Nat, theirs : Nat])]
Triple == Nat \X Nat \X Nat
IsMine(a) ==
    /\ a \in Triple /\ a[1] \in 1..Len(chain) /\ a[2] \in 1..Len(chain[a[1]].txs)
    /\ a[3] \in 1..chain[a[1]].txs[a[2]].mine

BlockRow == [gen : Nat, params : Nat]
StateRow == [hash : Triple, full : BOOLEAN]
CurrentRow == [height : Nat, action : Triple, gen : Nat, state : Triple]

\* a block without parameters has those of the one before
Good(h) == blocks[h].params = chain[h].params \/ (blocks[h].params = 0 /\ h > 1 /\ chain[h].params = chain[h - 1].params)

RowsOk ==
    /\ chain \in Seq(ChainBlock) /\ blocks \in Seq(BlockRow) /\ Len(blocks) <= Len(chain) /\ ixHeight \in 0..Len(chain)
    /\ \A h \in 1..Len(blocks) : blocks[h].params \in {0, chain[h].params}
    /\ generation \in Nat /\ supplemented \in 0..Len(blocks) /\ failures \in Nat

StateOk(a) ==
    /\ IsMine(a) /\ a[1] <= Len(blocks) /\ states[a] \in StateRow
    /\ states[a].hash \in {States!NoAction, a}
    /\ states[a].hash = a => States!SameCount(a)
    /\ states[a].full => states[a].hash = a /\ StateHistory

IsRow(row) == row \in CurrentRow /\ (row # States!NoState => row.state = row.action /\ row.state[1] = row.height)

\* an action whose state was applied; the current state is not older
Applied(a) == States!SameCount(a) => states[a].hash = a /\ (current # States!NoState => current.height >= a[1])

StatesOk ==
    /\ states = [a \in DOMAIN states |-> states[a]]
    /\ \A a \in DOMAIN states : StateOk(a)
    /\ IsRow(current)
    /\ \A h \in 1..supplemented : Good(h)
    /\ \A a \in DOMAIN states : a[1] <= supplemented => Applied(a)
    /\ \A a, b \in DOMAIN states :
          states[a].full /\ b[1] <= supplemented /\ States!SameCount(b) /\ ~states[b].full => a[1] >= b[1]

RunSteps == {"idle", "fetch", "fields", "rows", "tx"}
RunRecord == [pc : RunSteps, from : Nat, gen : Nat, list : Seq([height : Nat, gen : Nat]), at : Nat, tx : Nat, found : Nat \cup {-1}]
RunState == [s : RunRecord, lastLedgerParameters : Nat, cachedGeneration : Nat \cup {-1}]

At == run.s.from + run.s.at
FieldsDone == run.s.pc \in {"rows", "tx"}

RunHolds ==
    run.s.pc # "idle" =>
        /\ run.s.at \in 1..Len(run.s.list) /\ run.s.from + Len(run.s.list) <= Len(chain)
        /\ \A k \in 1..Len(run.s.list) : run.s.list[k].height = run.s.from + k
        /\ supplemented <= run.s.from /\ run.cachedGeneration = run.s.gen /\ run.s.gen <= generation

\* no rollback since the run began
RunKnows ==
    run.s.pc # "idle" /\ run.s.gen = generation =>
        /\ supplemented = run.s.from /\ run.s.from + Len(run.s.list) <= Len(blocks)
        /\ \A k \in 1..Len(run.s.list) : run.s.list[k].gen = blocks[run.s.from + k].gen
        /\ run.s.pc = "tx" => run.s.found = blocks[At].gen
        /\ \A h \in 1..(At - 1) : Good(h)
        /\ FieldsDone => Good(At)
        /\ \A a \in DOMAIN states :
              (run.s.from < a[1] /\ a[1] < At) \/ (run.s.pc = "tx" /\ a[1] = At /\ a[2] < run.s.tx)
                  => Applied(a) /\ (States!SameCount(a) => states[a].full = StateHistory)

\* the remembered parameters are those of a block up to which all are stored
CacheAt(k) ==
    /\ run.lastLedgerParameters = chain[k].params /\ k >= supplemented
    /\ \A h \in 1..k : Good(h)
    /\ run.s.pc # "idle" => k >= At - 1
    /\ FieldsDone => k >= At
CacheKnows ==
    /\ run.cachedGeneration <= generation
    /\ run.cachedGeneration = generation /\ run.lastLedgerParameters # 0 => \E k \in 1..Len(blocks) : CacheAt(k)

ReadSteps == {"idle", "newest", "fetch", "check", "done"}
AnswerRecord == [kind : {"none", "current", "history", "indexer", "behind", "unknown"}, height : Nat, state : Triple, verified : {"null", "true", "false"}]
ReadRecord == [pc : ReadSteps, height : Nat, row : CurrentRow, newest : Triple, stale : Nat, gen : Nat, known : Nat, fetched : Triple, answer : AnswerRecord]

ReadKnows ==
    /\ read \in ReadRecord /\ IsRow(read.row) /\ read.gen <= generation
    /\ read.pc = "newest" /\ read.gen = generation /\ read.known > 0 => \E a \in DOMAIN states : a[1] = read.known
    /\ read.pc \in {"fetch", "check"} /\ read.height = 0 /\ read.row # States!NoState =>
          read.stale > 0 /\ (read.gen = generation => read.stale <= Len(blocks) /\ read.known <= read.stale)
    /\ States!ServedStateIsNotOlder
    /\ read.pc = "done" /\ read.height > 0 /\ read.gen = generation /\ read.answer.kind \in {"current", "history"} => read.height <= Len(blocks)

DInv == RowsOk /\ StatesOk /\ run \in RunState /\ RunHolds /\ RunKnows /\ CacheKnows /\ ReadKnows

-----------------------------------------------------------------------------
LEMMA LeastIs ==
  ASSUME NEW T \in SUBSET Nat, T # {}
  PROVE  \E x \in T : \A y \in T : x <= y
  <1> DEFINE R == OpToRel(<, Nat)
  <1>1. IsWellFoundedOn(R, Nat)
    BY NatLessThanWellFounded
  <1>2. \A x, y \in Nat : x < y => <<x, y>> \in R
    BY DEF OpToRel
  <1> HIDE DEF R
  <1>3. PICK x \in T : \A y \in T : ~(<<y, x>> \in R)
    BY <1>1, WFMin
  <1>4. ASSUME NEW y \in T PROVE x <= y
    <2>1. ~(y < x)
      BY <1>2, <1>3
    <2> QED
      BY <2>1
  <1> QED
    BY <1>4

LEMMA GreatestIs ==
  ASSUME NEW n \in Nat, NEW T \in SUBSET (0..n), T # {}
  PROVE  \E x \in T : \A y \in T : x >= y
  <1> DEFINE U == {n - x : x \in T}
  <1>1. U \in SUBSET Nat /\ U # {}
    <2>1. \A x \in T : n - x \in Nat
      OBVIOUS
    <2> QED
      BY <2>1
  <1>2. PICK u \in U : \A v \in U : u <= v
    BY <1>1, LeastIs
  <1>3. PICK x \in T : u = n - x
    OBVIOUS
  <1>4. ASSUME NEW y \in T PROVE x >= y
    <2>1. n - y \in U
      OBVIOUS
    <2>2. u <= n - y
      BY <1>2, <2>1
    <2> QED
      BY <1>3, <2>2
  <1> QED
    BY <1>4

LEMMA MinIs ==
  ASSUME NEW a \in Int, NEW b \in Int
  PROVE  States!Min({a, b}) = IF a <= b THEN a ELSE b
  BY DEF States!Min

LEMMA InSeq ==
  ASSUME NEW T, NEW s \in Seq(T), NEW i \in 1..Len(s)
  PROVE  s[i] \in T
  OBVIOUS

\* the newest of actions that are bounded in each block and each transaction
LEMMA NewestIs ==
  ASSUME NEW S \in SUBSET Triple, S # {}, NEW n \in Nat, \A a \in S : a[1] <= n,
         \A a \in S : \E m \in Nat : \A b \in S : b[1] = a[1] => b[2] <= m,
         \A a \in S : \E m \in Nat : \A b \in S : b[1] = a[1] /\ b[2] = a[2] => b[3] <= m
  PROVE  /\ States!Newest(S) \in S
         /\ \A b \in S : b # States!Newest(S) => States!Later(States!Newest(S), b)
         /\ \A b \in S : States!Newest(S)[1] >= b[1]
  <1>0. \A a \in S : a[1] \in Nat /\ a[2] \in Nat /\ a[3] \in Nat /\ a = <<a[1], a[2], a[3]>>
    BY DEF Triple
  <1> DEFINE H == {a[1] : a \in S}
  <1>1. H \in SUBSET (0..n) /\ H # {}
    BY <1>0
  <1>2. PICK h \in H : \A x \in H : h >= x
    BY <1>1, GreatestIs
  <1>3. PICK a1 \in S : a1[1] = h
    OBVIOUS
  <1> DEFINE I == {a[2] : a \in {b \in S : b[1] = h}}
  <1>4. PICK m \in Nat : \A b \in S : b[1] = h => b[2] <= m
    BY <1>3
  <1>5. I \in SUBSET (0..m) /\ I # {}
    <2>1. \A b \in S : b[1] = h => b[2] \in 0..m
      BY <1>0, <1>4
    <2> QED
      BY <1>3, <2>1
  <1>6. PICK i \in I : \A x \in I : i >= x
    BY <1>5, GreatestIs
  <1>7. PICK a2 \in S : a2[1] = h /\ a2[2] = i
    OBVIOUS
  <1> DEFINE K == {a[3] : a \in {b \in S : b[1] = h /\ b[2] = i}}
  <1>8. PICK l \in Nat : \A b \in S : b[1] = h /\ b[2] = i => b[3] <= l
    BY <1>7
  <1>9. K \in SUBSET (0..l) /\ K # {}
    <2>1. \A b \in S : b[1] = h /\ b[2] = i => b[3] \in 0..l
      BY <1>0, <1>8
    <2> QED
      BY <1>7, <2>1
  <1>10. PICK k \in K : \A x \in K : k >= x
    BY <1>9, GreatestIs
  <1>11. PICK a \in S : a[1] = h /\ a[2] = i /\ a[3] = k
    OBVIOUS
  <1>12. ASSUME NEW b \in S PROVE b[1] <= h /\ (b[1] = h => b[2] <= i) /\ (b[1] = h /\ b[2] = i => b[3] <= k)
    BY <1>0, <1>2, <1>6, <1>10
  <1>13. ASSUME NEW b \in S, b # a PROVE States!Later(a, b)
    <2>1. b[1] # h \/ b[2] # i \/ b[3] # k
      BY <1>0, <1>11, <1>13
    <2> QED
      BY <1>0, <1>11, <1>12, <1>13, <2>1 DEF States!Later
  <1>14. States!Newest(S) = CHOOSE c \in S : \A b \in S \ {c} : States!Later(c, b)
    BY DEF States!Newest
  <1>15. States!Newest(S) \in S /\ \A b \in S \ {States!Newest(S)} : States!Later(States!Newest(S), b)
    BY <1>13, <1>14
  <1>16. ASSUME NEW b \in S PROVE States!Newest(S)[1] >= b[1]
    <2>1. CASE b = States!Newest(S)
      BY <1>0, <2>1
    <2>2. CASE b # States!Newest(S)
      BY <1>0, <1>15, <2>2 DEF States!Later
    <2> QED
      BY <2>1, <2>2
  <1> QED
    BY <1>15, <1>16

\* actions of the chain
LEMMA NewestMine ==
  ASSUME RowsOk, NEW S, S # {}, \A a \in S : IsMine(a)
  PROVE  /\ States!Newest(S) \in S
         /\ \A b \in S : b # States!Newest(S) => States!Later(States!Newest(S), b)
         /\ \A b \in S : States!Newest(S)[1] >= b[1]
  <1>1. S \in SUBSET Triple /\ Len(chain) \in Nat /\ \A a \in S : a[1] <= Len(chain)
    BY DEF IsMine, RowsOk
  <1>2. ASSUME NEW a \in S
        PROVE  /\ Len(chain[a[1]].txs) \in Nat /\ \A b \in S : b[1] = a[1] => b[2] <= Len(chain[a[1]].txs)
               /\ chain[a[1]].txs[a[2]].mine \in Nat /\ \A b \in S : b[1] = a[1] /\ b[2] = a[2] => b[3] <= chain[a[1]].txs[a[2]].mine
    <2>1. chain[a[1]] \in ChainBlock /\ a[2] \in 1..Len(chain[a[1]].txs)
      BY DEF IsMine, RowsOk
    <2>2. chain[a[1]].txs \in Seq([mine : Nat, theirs : Nat])
      BY <2>1 DEF ChainBlock
    <2>3. chain[a[1]].txs[a[2]] \in [mine : Nat, theirs : Nat]
      BY <2>1, <2>2, InSeq
    <2>4. Len(chain[a[1]].txs) \in Nat /\ chain[a[1]].txs[a[2]].mine \in Nat
      BY <2>2, <2>3
    <2>5. \A b \in S : b[1] = a[1] => b[2] \in 1..Len(chain[a[1]].txs)
      BY DEF IsMine
    <2>6. \A b \in S : b[1] = a[1] /\ b[2] = a[2] => b[3] \in 1..chain[a[1]].txs[a[2]].mine
      BY DEF IsMine
    <2>7. \A x \in Nat : \A y \in 1..x : y <= x
      OBVIOUS
    <2> QED
      BY <2>4, <2>5, <2>6, <2>7
  <1>3. /\ \A a \in S : \E m \in Nat : \A b \in S : b[1] = a[1] => b[2] <= m
        /\ \A a \in S : \E m \in Nat : \A b \in S : b[1] = a[1] /\ b[2] = a[2] => b[3] <= m
    BY <1>2
  <1> QED
    BY <1>1, <1>3, NewestIs

\* the newest stored parameters under a height are those of the block below it
LEMMA ParametersBelow ==
  ASSUME RowsOk, NEW k \in 0..Len(blocks), \A h \in 1..k : Good(h)
  PROVE  States!readParametersBelow(k + 1) = IF k = 0 THEN 0 ELSE chain[k].params
  <1> DEFINE T == {i \in 1..k : blocks[i].params # 0}
  <1>0. /\ Len(blocks) \in Nat /\ \A h \in 1..Len(blocks) : blocks[h].params \in {0, chain[h].params} /\ chain[h].params # 0
    <2>1. ASSUME NEW h \in 1..Len(blocks) PROVE chain[h] \in ChainBlock
      BY InSeq DEF RowsOk
    <2> QED
      BY <2>1 DEF RowsOk, ChainBlock
  <1>1. States!readParametersBelow(k + 1) = IF T = {} THEN 0 ELSE blocks[States!Max(T)].params
    <2>1. States!Height = Len(blocks)
      BY DEF States!Height
    <2>2. States!Min({(k + 1) - 1, Len(blocks)}) = k
      BY <1>0, MinIs
    <2> QED
      BY <2>1, <2>2 DEF States!readParametersBelow
  <1>2. CASE k = 0
    BY <1>1, <1>2
  <1>3. CASE k # 0
    <2>1. 1 \in T
      BY <1>0, <1>3 DEF Good
    <2>2. PICK m \in T : \A x \in T : m >= x
      <3>1. T \in SUBSET (0..k) /\ T # {} /\ k \in Nat
        BY <1>0, <2>1
      <3> HIDE DEF T
      <3> QED
        BY <3>1, GreatestIs
    <2>3. States!Max(T) = m
      <3>1. States!Max(T) = CHOOSE x \in T : \A y \in T : x >= y
        BY DEF States!Max
      <3> HIDE DEF T
      <3>2. States!Max(T) \in T /\ \A y \in T : States!Max(T) >= y
        BY <2>2, <3>1
      <3>3. \A x \in T : x \in Int
        BY DEF T
      <3> QED
        BY <2>2, <3>2, <3>3
    <2>4. blocks[m].params = chain[m].params
      BY <1>0
    <2> DEFINE U == {i \in m..k : chain[i].params # chain[m].params}
    <2>5. U = {}
      <3> SUFFICES ASSUME U # {} PROVE FALSE
        OBVIOUS
      <3>1. U \in SUBSET Nat
        OBVIOUS
      <3>2. PICK i \in U : \A x \in U : i <= x
        BY <3>1, LeastIs
      <3>3. i > m /\ i - 1 \in m..k /\ i \in 1..k /\ ~(i <= i - 1)
        OBVIOUS
      <3>4. chain[i - 1].params = chain[m].params
        BY <3>2, <3>3
      <3>5. blocks[i].params = 0
        BY <2>2, <3>3
      <3>6. Good(i)
        BY <3>3
      <3> QED
        BY <3>4, <3>5, <3>6, <1>0, <3>3 DEF Good
    <2> QED
      BY <1>1, <1>3, <2>1, <2>3, <2>4, <2>5
  <1> QED
    BY <1>2, <1>3

-----------------------------------------------------------------------------
\* the run after a step of it
RunFields(s, p, t, l, f) ==
    /\ run' \in RunState /\ run'.s.pc = p /\ run'.s.from = run.s.from /\ run'.s.gen = run.s.gen /\ run'.s.list = run.s.list
    /\ run'.s.at = s /\ run'.s.tx = t /\ run'.lastLedgerParameters = l /\ run'.s.found = f
    /\ run'.cachedGeneration = run.cachedGeneration

LEMMA RunParts ==
  ASSUME run \in RunState
  PROVE  /\ run.s \in RunRecord /\ run.s.at \in Nat /\ run.s.tx \in Nat /\ run.s.from \in Nat /\ run.s.gen \in Nat /\ run.s.found \in Nat \cup {-1}
         /\ run.lastLedgerParameters \in Nat /\ run.cachedGeneration \in Nat \cup {-1} /\ run.s.list \in Seq([height : Nat, gen : Nat])
         /\ run.s.pc \in RunSteps
  BY DEF RunState, RunRecord

\* the run with one part replaced
LEMMA RunSet ==
  ASSUME run \in RunState, NEW r \in RunRecord, NEW l \in Nat, run' = [run EXCEPT !.s = r, !.lastLedgerParameters = l]
  PROVE  run' \in RunState /\ run'.s = r /\ run'.lastLedgerParameters = l /\ run'.cachedGeneration = run.cachedGeneration
  BY DEF RunState

LEMMA RunStepped ==
  ASSUME run \in RunState, NEW p \in RunSteps, run' = [run EXCEPT !.s.pc = p]
  PROVE  RunFields(run.s.at, p, run.s.tx, run.lastLedgerParameters, run.s.found)
  <1> DEFINE r == [run.s EXCEPT !.pc = p]
  <1>1. r \in RunRecord /\ r.pc = p /\ r.from = run.s.from /\ r.gen = run.s.gen /\ r.list = run.s.list /\ r.at = run.s.at
        /\ r.tx = run.s.tx /\ r.found = run.s.found
    BY RunParts DEF RunRecord
  <1>2. run' = [run EXCEPT !.s = r]
    OBVIOUS
  <1> HIDE DEF r
  <1>3. run' \in RunState /\ run'.s = r /\ run'.lastLedgerParameters = run.lastLedgerParameters /\ run'.cachedGeneration = run.cachedGeneration
    BY <1>1, <1>2 DEF RunState
  <1> QED
    BY <1>1, <1>3 DEF RunFields

LEMMA RunCached ==
  ASSUME run \in RunState, NEW p \in RunSteps, NEW l \in Nat, run' = [run EXCEPT !.lastLedgerParameters = l, !.s.pc = p]
  PROVE  RunFields(run.s.at, p, run.s.tx, l, run.s.found)
  <1> DEFINE r == [run.s EXCEPT !.pc = p]
  <1>1. r \in RunRecord /\ r.pc = p /\ r.from = run.s.from /\ r.gen = run.s.gen /\ r.list = run.s.list /\ r.at = run.s.at
        /\ r.tx = run.s.tx /\ r.found = run.s.found
    BY RunParts DEF RunRecord
  <1>2. run' = [run EXCEPT !.s = r, !.lastLedgerParameters = l]
    BY DEF RunState
  <1> HIDE DEF r
  <1>3. run' \in RunState /\ run'.s = r /\ run'.lastLedgerParameters = l /\ run'.cachedGeneration = run.cachedGeneration
    BY <1>1, <1>2, RunSet
  <1> QED
    BY <1>1, <1>3 DEF RunFields

LEMMA RunFound ==
  ASSUME run \in RunState, NEW p \in RunSteps, NEW f \in Nat \cup {-1}, NEW t \in Nat, run' = [run EXCEPT !.s.found = f, !.s.tx = t, !.s.pc = p]
  PROVE  RunFields(run.s.at, p, t, run.lastLedgerParameters, f)
  <1> DEFINE r == [run.s EXCEPT !.found = f, !.tx = t, !.pc = p]
  <1>1. r \in RunRecord /\ r.pc = p /\ r.from = run.s.from /\ r.gen = run.s.gen /\ r.list = run.s.list /\ r.at = run.s.at
        /\ r.tx = t /\ r.found = f
    BY RunParts DEF RunRecord
  <1>2. run' = [run EXCEPT !.s = r]
    BY DEF RunState
  <1> HIDE DEF r
  <1>3. run' \in RunState /\ run'.s = r /\ run'.lastLedgerParameters = run.lastLedgerParameters /\ run'.cachedGeneration = run.cachedGeneration
    BY <1>1, <1>2 DEF RunState
  <1> QED
    BY <1>1, <1>3 DEF RunFields

LEMMA RunNextTx ==
  ASSUME run \in RunState, run' = [run EXCEPT !.s.tx = @ + 1]
  PROVE  RunFields(run.s.at, run.s.pc, run.s.tx + 1, run.lastLedgerParameters, run.s.found)
  <1> DEFINE t == run.s.tx + 1
             r == [run.s EXCEPT !.tx = t]
  <1>0. t \in Nat
    BY RunParts
  <1>2. run' = [run EXCEPT !.s = r]
    BY DEF RunState
  <1> HIDE DEF t
  <1>1. r \in RunRecord /\ r.pc = run.s.pc /\ r.from = run.s.from /\ r.gen = run.s.gen /\ r.list = run.s.list /\ r.at = run.s.at
        /\ r.tx = t /\ r.found = run.s.found
    BY <1>0, RunParts DEF RunRecord
  <1> HIDE DEF r
  <1>3. run' \in RunState /\ run'.s = r /\ run'.lastLedgerParameters = run.lastLedgerParameters /\ run'.cachedGeneration = run.cachedGeneration
    BY <1>1, <1>2 DEF RunState
  <1> QED
    BY <1>1, <1>3 DEF RunFields, t

LEMMA RunNextBlock ==
  ASSUME run \in RunState, NEW p \in RunSteps, run' = [run EXCEPT !.s.at = @ + 1, !.s.pc = p]
  PROVE  RunFields(run.s.at + 1, p, run.s.tx, run.lastLedgerParameters, run.s.found)
  <1> DEFINE t == run.s.at + 1
             r == [run.s EXCEPT !.at = t, !.pc = p]
  <1>0. t \in Nat
    BY RunParts
  <1>2. run' = [run EXCEPT !.s = r]
    BY DEF RunState
  <1> HIDE DEF t
  <1>1. r \in RunRecord /\ r.pc = p /\ r.from = run.s.from /\ r.gen = run.s.gen /\ r.list = run.s.list /\ r.at = t
        /\ r.tx = run.s.tx /\ r.found = run.s.found
    BY <1>0, RunParts DEF RunRecord
  <1> HIDE DEF r
  <1>3. run' \in RunState /\ run'.s = r /\ run'.lastLedgerParameters = run.lastLedgerParameters /\ run'.cachedGeneration = run.cachedGeneration
    BY <1>1, <1>2 DEF RunState
  <1> QED
    BY <1>1, <1>3 DEF RunFields, t

LEMMA IdleRunIs == States!IdleRun \in RunRecord /\ States!IdleRun.pc = "idle"
  <1> DEFINE z == 0
             i == 1
             p == "idle"
             e == <<>>
  <1>1. z \in Nat /\ i \in Nat /\ p \in RunSteps /\ e \in Seq([height : Nat, gen : Nat]) /\ p = "idle"
    BY DEF RunSteps
  <1>2. States!IdleRun = [pc |-> p, from |-> z, gen |-> z, list |-> e, at |-> i, tx |-> i, found |-> z]
    BY DEF States!IdleRun
  <1> HIDE DEF z, i, p, e
  <1> QED
    BY <1>1, <1>2 DEF RunRecord

LEMMA RunEnds ==
  ASSUME run \in RunState, run' = [run EXCEPT !.s = States!IdleRun]
  PROVE  run' \in RunState /\ run'.s.pc = "idle" /\ run'.lastLedgerParameters = run.lastLedgerParameters /\ run'.cachedGeneration = run.cachedGeneration
  <1> DEFINE r == States!IdleRun
  <1> HIDE DEF r
  <1>2. r \in RunRecord /\ r.pc = "idle"
    BY IdleRunIs DEF r
  <1>3. run' = [run EXCEPT !.s = r]
    BY DEF r
  <1> QED
    BY <1>2, <1>3 DEF RunState

-----------------------------------------------------------------------------
\* a reader is not disturbed by more blocks and actions
LEMMA ReadStays ==
  ASSUME RowsOk, ReadKnows, read' = read, generation' = generation, Len(blocks) <= Len(blocks'), Len(blocks') \in Nat,
         \A a \in DOMAIN states : a \in DOMAIN states',
         \A a \in DOMAIN states' : a \in DOMAIN states \/ (a[1] \in Nat /\ a[1] > Len(blocks))
  PROVE  ReadKnows'
  <1>1. read \in ReadRecord /\ read.stale \in Nat /\ read.height \in Nat /\ Len(blocks) \in Nat
    BY DEF ReadKnows, ReadRecord, RowsOk
  <1>2. read'.pc = "newest" /\ read'.gen = generation' /\ read'.known > 0 => \E a \in DOMAIN states' : a[1] = read'.known
    BY DEF ReadKnows
  <1>3. read'.pc \in {"fetch", "check"} /\ read'.height = 0 /\ read'.row # States!NoState =>
          read'.stale > 0 /\ (read'.gen = generation' => read'.stale <= Len(blocks') /\ read'.known <= read'.stale)
    BY <1>1 DEF ReadKnows
  <1>4. ASSUME read.pc = "done", generation = read.gen, read.height > 0, read.answer.kind \in {"current", "history"}, NEW a \in States!StoredUpTo(read.height)'
        PROVE  ~States!Later(a, read.answer.state)
    <2>1. read.height <= Len(blocks)
      BY <1>4 DEF ReadKnows
    <2>2. a \in DOMAIN states' /\ a[1] <= read.height
      BY <1>4 DEF States!StoredUpTo
    <2>3. a \in DOMAIN states
      BY <1>1, <2>1, <2>2
    <2>4. a \in States!StoredUpTo(read.height)
      BY <2>2, <2>3 DEF States!StoredUpTo
    <2>5. States!ServedStateIsNotOlder
      BY DEF ReadKnows
    <2> QED
      BY <1>4, <2>4, <2>5 DEF States!ServedStateIsNotOlder
  <1>5. States!ServedStateIsNotOlder'
    BY <1>4 DEF ReadKnows, States!ServedStateIsNotOlder
  <1>6. read'.pc = "done" /\ read'.height > 0 /\ read'.gen = generation' /\ read'.answer.kind \in {"current", "history"} => read'.height <= Len(blocks')
    BY <1>1 DEF ReadKnows
  <1> QED
    BY <1>2, <1>3, <1>5, <1>6 DEF ReadKnows

LEMMA Within ==
  ASSUME NEW f \in Nat, NEW n \in Nat, NEW l \in Nat, f + n <= l, NEW k \in 1..n
  PROVE  f + k \in 1..l /\ f + k - 1 \in 0..l
  OBVIOUS

\* where a run is that no rollback overlapped
LEMMA RunAt ==
  ASSUME DInv, run.s.pc # "idle", run.s.gen = generation
  PROVE  /\ run.s.at \in 1..Len(run.s.list) /\ run.s.from \in Nat /\ Len(run.s.list) \in Nat
         /\ run.s.from + Len(run.s.list) <= Len(blocks) /\ At \in 1..Len(blocks) /\ At - 1 \in 0..Len(blocks) /\ RunKnows
         /\ supplemented = run.s.from
  <1>1. run.s.list \in Seq([height : Nat, gen : Nat]) /\ run.s.from \in Nat /\ Len(blocks) \in Nat
    BY RunParts DEF DInv, RowsOk
  <1>2. /\ run.s.at \in 1..Len(run.s.list) /\ RunKnows /\ run.s.from + Len(run.s.list) <= Len(blocks) /\ Len(run.s.list) \in Nat
        /\ supplemented = run.s.from
    BY <1>1 DEF DInv, RunHolds, RunKnows
  <1>3. At \in 1..Len(blocks) /\ At - 1 \in 0..Len(blocks)
    <2> DEFINE f == run.s.from
               k == run.s.at
               n == Len(run.s.list)
               l == Len(blocks)
    <2>1. f \in Nat /\ n \in Nat /\ l \in Nat /\ f + n <= l /\ k \in 1..n
      BY <1>1, <1>2
    <2>2. At = f + k
      BY DEF At
    <2> HIDE DEF f, k, n, l
    <2>3. At \in 1..l /\ At - 1 \in 0..l
      BY <2>1, <2>2, Within
    <2> QED
      BY <2>3 DEF l
  <1> QED
    BY <1>1, <1>2, <1>3

LEMMA PersistKeeps ==
  ASSUME DInv, States!persistBlock
  PROVE  DInv'
  <1> DEFINE L == Len(blocks)
             row == [gen |-> generation, params |-> 0]
             new == States!Mine(L + 1)
  <1>1. /\ RowsOk /\ L \in Nat /\ L < Len(chain) /\ Len(chain) \in Nat /\ row \in BlockRow
        /\ blocks' = Append(blocks, row)
        /\ states' = [a \in DOMAIN states \cup new |-> IF a \in DOMAIN states THEN states[a] ELSE [hash |-> States!NoAction, full |-> FALSE]]
        /\ chain' = chain /\ ixHeight' = ixHeight /\ current' = current /\ supplemented' = supplemented /\ generation' = generation
        /\ run' = run /\ read' = read /\ failures' = failures
    BY DEF DInv, RowsOk, States!persistBlock, States!Height, BlockRow
  <1>2. blocks' \in Seq(BlockRow) /\ Len(blocks') = L + 1 /\ (\A h \in 1..L : blocks'[h] = blocks[h]) /\ blocks'[L + 1] = row
    BY <1>1 DEF RowsOk
  <1>3. ASSUME NEW a \in new PROVE IsMine(a) /\ a[1] = L + 1
    <2>1. chain[L + 1] \in ChainBlock
      BY <1>1, InSeq DEF RowsOk
    <2>2. chain[L + 1].txs \in Seq([mine : Nat, theirs : Nat])
      BY <2>1 DEF ChainBlock
    <2>3. PICK i \in DOMAIN chain[L + 1].txs : a \in {L + 1} \X {i} \X (1..chain[L + 1].txs[i].mine)
      BY DEF States!Mine
    <2>4. i \in 1..Len(chain[L + 1].txs) /\ i \in Nat
      BY <2>2, <2>3
    <2>5. chain[L + 1].txs[i].mine \in Nat
      <3>1. chain[L + 1].txs[i] \in [mine : Nat, theirs : Nat]
        BY <2>2, <2>4, InSeq
      <3> QED
        BY <3>1
    <2>6. a = <<L + 1, i, a[3]>> /\ a[3] \in 1..chain[L + 1].txs[i].mine /\ a[1] = L + 1 /\ a[2] = i
      BY <2>3
    <2>7. a \in Triple
      BY <1>1, <2>4, <2>5, <2>6 DEF Triple
    <2> QED
      BY <1>1, <2>4, <2>6, <2>7 DEF IsMine
  <1> HIDE DEF new, row
  <1>4. /\ DOMAIN states' = DOMAIN states \cup new
        /\ \A a \in DOMAIN states : states'[a] = states[a]
        /\ \A a \in new : a \in DOMAIN states \/ states'[a] = [hash |-> States!NoAction, full |-> FALSE]
    BY <1>1
  <1>5. RowsOk'
    <2>1. ASSUME NEW h \in 1..Len(blocks') PROVE blocks'[h].params \in {0, chain'[h].params}
      BY <1>1, <1>2, <2>1 DEF RowsOk, row
    <2> QED
      BY <1>1, <1>2, <2>1 DEF RowsOk
  <1>6. \A a \in DOMAIN states : StateOk(a) /\ a[1] \in Nat /\ a[1] <= L
    BY DEF DInv, StatesOk, StateOk, IsMine
  <1>7. \A h \in 1..L : Good(h) => Good(h)'
    BY <1>1, <1>2 DEF Good
  <1>8. StatesOk'
    <2>1. states' = [a \in DOMAIN states' |-> states'[a]]
      BY <1>1
    <2>2. ASSUME NEW a \in DOMAIN states' PROVE StateOk(a)'
      <3>1. CASE a \in DOMAIN states
        <4>1. StateOk(a) /\ states'[a] = states[a]
          BY <1>4, <1>6, <3>1
        <4> QED
          BY <4>1, <1>1, <1>2, <1>6, <3>1 DEF StateOk, IsMine, States!SameCount
      <3>2. CASE a \notin DOMAIN states
        <4>1. a \in new /\ states'[a] = [hash |-> States!NoAction, full |-> FALSE]
          BY <1>4, <3>2
        <4>2. IsMine(a) /\ a[1] = L + 1 /\ States!NoAction # a /\ States!NoAction \in Triple
          BY <1>3, <4>1, <1>1 DEF States!NoAction, Triple
        <4> QED
          BY <4>1, <4>2, <1>1, <1>2 DEF StateOk, IsMine, StateRow
      <3> QED
        BY <3>1, <3>2
    <2>3. IsRow(current)'
      BY <1>1 DEF DInv, StatesOk, IsRow
    <2>4. \A h \in 1..supplemented' : Good(h)'
      BY <1>1, <1>7 DEF DInv, StatesOk, RowsOk
    <2>5. ASSUME NEW a \in DOMAIN states', a[1] <= supplemented' PROVE a \in DOMAIN states
      <3>1. supplemented \in Nat /\ supplemented <= L
        BY <1>1 DEF RowsOk
      <3> QED
        BY <1>1, <1>3, <1>4, <2>5, <3>1
    <2>6. \A a \in DOMAIN states' : a[1] <= supplemented' => Applied(a)'
      <3>1. ASSUME NEW a \in DOMAIN states', a[1] <= supplemented' PROVE Applied(a)'
        BY <2>5, <3>1, <1>1, <1>4 DEF DInv, StatesOk, Applied, States!SameCount
      <3> QED
        BY <3>1
    <2>7. ASSUME NEW a \in DOMAIN states', NEW b \in DOMAIN states', states'[a].full, b[1] <= supplemented', States!SameCount(b)', ~states'[b].full
          PROVE  a[1] >= b[1]
      <3>1. b \in DOMAIN states
        BY <2>5, <2>7
      <3>2. a \in DOMAIN states
        BY <1>4, <2>7
      <3> QED
        BY <2>7, <3>1, <3>2, <1>1, <1>4 DEF DInv, StatesOk, States!SameCount
    <2> QED
      BY <2>1, <2>2, <2>3, <2>4, <2>6, <2>7 DEF StatesOk
  <1>9. run \in RunState /\ RunHolds'
    BY <1>1 DEF DInv, RunHolds
  <1>10. RunKnows'
    <2> SUFFICES ASSUME run.s.pc # "idle", run.s.gen = generation PROVE RunKnows'
      BY <1>1 DEF RunKnows
    <2>1. /\ run.s.at \in 1..Len(run.s.list) /\ run.s.from \in Nat /\ Len(run.s.list) \in Nat /\ run.s.from + Len(run.s.list) <= L
          /\ At \in 1..L /\ At - 1 \in 0..L /\ RunKnows
      BY RunAt
    <2>2. /\ supplemented' = run'.s.from /\ run'.s.from + Len(run'.s.list) <= Len(blocks')
      BY <1>1, <1>2, <2>1 DEF RunKnows
    <2>3. \A k \in 1..Len(run'.s.list) : run'.s.list[k].gen = blocks'[run'.s.from + k].gen
      <3>1. ASSUME NEW k \in 1..Len(run.s.list) PROVE run.s.from + k \in 1..L
        BY <1>1, <2>1, Within
      <3> QED
        BY <1>1, <1>2, <2>1, <3>1 DEF RunKnows
    <2>4. At' = At /\ run'.s.pc = "tx" => run'.s.found = blocks'[At'].gen
      BY <1>1, <1>2, <2>1 DEF RunKnows, At
    <2>5. At' = At /\ (\A h \in 1..(At' - 1) : Good(h)') /\ (FieldsDone' => Good(At)')
      <3>1. At' = At /\ FieldsDone' = FieldsDone
        BY <1>1 DEF At, FieldsDone
      <3>2. Good(At) => Good(At)'
        BY <1>1, <1>2, <2>1, <3>1 DEF Good
      <3> QED
        BY <3>1, <3>2, <1>7, <2>1 DEF RunKnows
    <2>6. ASSUME NEW a \in DOMAIN states',
                 (run'.s.from < a[1] /\ a[1] < At') \/ (run'.s.pc = "tx" /\ a[1] = At' /\ a[2] < run'.s.tx)
          PROVE  Applied(a)' /\ (States!SameCount(a)' => states'[a].full = StateHistory)
      <3>1. a \in DOMAIN states
        BY <1>1, <1>3, <1>4, <2>1, <2>5, <2>6
      <3>2. Applied(a) /\ (States!SameCount(a) => states[a].full = StateHistory)
        BY <1>1, <2>1, <2>5, <2>6, <3>1 DEF RunKnows
      <3> QED
        BY <1>1, <1>4, <3>1, <3>2 DEF Applied, States!SameCount
    <2> QED
      BY <2>2, <2>3, <2>4, <2>5, <2>6 DEF RunKnows
  <1>11. CacheKnows'
    <2>1. CacheKnows /\ At' = At /\ FieldsDone' = FieldsDone
      BY <1>1 DEF DInv, At, FieldsDone
    <2> SUFFICES ASSUME run.cachedGeneration = generation, run.lastLedgerParameters # 0
                 PROVE  \E k \in 1..Len(blocks') : CacheAt(k)'
      BY <1>1, <2>1 DEF CacheKnows
    <2>2. PICK k \in 1..L : CacheAt(k)
      BY <1>1, <2>1 DEF CacheKnows
    <2>3. k \in 1..Len(blocks') /\ \A h \in 1..k : Good(h)'
      <3>1. k \in 1..L /\ \A h \in 1..k : h \in 1..L /\ Good(h)
        BY <1>1, <2>2 DEF CacheAt
      <3> QED
        BY <1>1, <1>2, <1>7, <3>1
    <2>4. CacheAt(k)'
      BY <1>1, <2>1, <2>2, <2>3 DEF CacheAt
    <2> QED
      BY <2>3, <2>4
  <1>12. ReadKnows'
    BY <1>1, <1>2, <1>3, <1>4, ReadStays DEF DInv
  <1> QED
    BY <1>1, <1>5, <1>8, <1>9, <1>10, <1>11, <1>12 DEF DInv

LEMMA NoStateIs == States!NoState \in CurrentRow /\ States!NoState.height = 0 /\ IsRow(States!NoState)
  <1> DEFINE z == 0
             t == <<0, 0, 0>>
  <1>1. States!NoState = [height |-> z, action |-> t, gen |-> z, state |-> t] /\ z \in Nat /\ t \in Triple
    BY DEF States!NoState, States!NoAction, Triple
  <1>2. z = 0
    OBVIOUS
  <1> HIDE DEF z, t
  <1> QED
    BY <1>1, <1>2 DEF IsRow, CurrentRow

LEMMA RollbackKeeps ==
  ASSUME DInv, NEW from \in 1..Len(blocks), States!rollbackIndexedDataFromHeight(from)
  PROVE  DInv'
  <1> DEFINE L == Len(blocks)
             kept == States!StoredUpTo(from - 1)
  <1>1. /\ RowsOk /\ L \in Nat /\ Len(chain) \in Nat /\ from \in 1..L /\ generation \in Nat
        /\ blocks' = SubSeq(blocks, 1, from - 1) /\ states' = [a \in kept |-> states[a]] /\ generation' = generation + 1
        /\ current' = IF current.height >= from THEN States!NoState ELSE current
        /\ supplemented \in Nat /\ supplemented <= L
        /\ chain' = chain /\ ixHeight' = ixHeight /\ run' = run /\ read' = read /\ failures' = failures
    BY DEF DInv, RowsOk, States!rollbackIndexedDataFromHeight, States!Height
  <1>2. supplemented' = IF supplemented <= from - 1 THEN supplemented ELSE from - 1
    <2>1. supplemented' = States!Min({supplemented, from - 1})
      BY DEF States!rollbackIndexedDataFromHeight
    <2>2. supplemented \in Int /\ from - 1 \in Int
      BY <1>1
    <2> QED
      BY <2>1, <2>2, MinIs
  <1>3. blocks' \in Seq(BlockRow) /\ Len(blocks') = from - 1 /\ \A h \in 1..(from - 1) : blocks'[h] = blocks[h]
    BY <1>1 DEF RowsOk
  <1>4. /\ kept \subseteq DOMAIN states /\ DOMAIN states' = kept
        /\ \A a \in kept : states'[a] = states[a] /\ a[1] \in Nat /\ a[1] <= from - 1 /\ StateOk(a)
    BY <1>1 DEF States!StoredUpTo, DInv, StatesOk, StateOk, IsMine
  <1> HIDE DEF kept
  <1>5. RowsOk'
    <2>1. /\ chain \in Seq(ChainBlock) /\ L <= Len(chain) /\ ixHeight \in 0..Len(chain) /\ failures \in Nat
          /\ \A h \in 1..L : blocks[h].params \in {0, chain[h].params}
      BY <1>1 DEF RowsOk
    <2>2. Len(blocks') <= Len(chain) /\ supplemented' \in 0..Len(blocks') /\ generation' \in Nat
      BY <1>1, <1>2, <1>3, <2>1
    <2>3. \A h \in 1..Len(blocks') : blocks'[h].params \in {0, chain[h].params}
      BY <1>1, <1>3, <2>1
    <2> QED
      BY <1>1, <1>3, <2>1, <2>2, <2>3 DEF RowsOk
  <1>6. current \in CurrentRow /\ current.height \in Nat
    BY DEF DInv, StatesOk, IsRow, CurrentRow
  <1>7. \A a \in kept : Applied(a) => Applied(a)'
    <2> SUFFICES ASSUME NEW a \in kept, Applied(a), States!SameCount(a), current' # States!NoState PROVE states'[a].hash = a /\ current'.height >= a[1]
      BY <1>1, <1>4 DEF Applied, States!SameCount
    <2> QED
      BY <1>1, <1>4 DEF Applied
  <1>8. StatesOk'
    <2>1. states' = [a \in DOMAIN states' |-> states'[a]]
      BY <1>1
    <2>2. ASSUME NEW a \in kept PROVE StateOk(a)'
      BY <1>1, <1>3, <1>4 DEF StateOk, IsMine, States!SameCount
    <2>3. IsRow(current)'
      BY <1>1, NoStateIs DEF DInv, StatesOk, IsRow
    <2>4. ASSUME NEW h \in 1..supplemented' PROVE Good(h)'
      <3>1. h \in 1..supplemented /\ h \in 1..(from - 1)
        BY <1>1, <1>2
      <3> QED
        BY <1>1, <1>3, <3>1 DEF DInv, StatesOk, Good
    <2>5. ASSUME NEW a \in kept, a[1] <= supplemented' PROVE a[1] <= supplemented
      BY <1>1, <1>2, <1>4, <2>5
    <2>6. \A a \in kept : a[1] <= supplemented' => Applied(a)'
      BY <1>4, <1>7, <2>5 DEF DInv, StatesOk
    <2>7. ASSUME NEW a \in kept, NEW b \in kept, states'[a].full, b[1] <= supplemented', States!SameCount(b)', ~states'[b].full
          PROVE  a[1] >= b[1]
      BY <2>5, <2>7, <1>1, <1>4 DEF DInv, StatesOk, States!SameCount
    <2> QED
      BY <1>4, <2>1, <2>2, <2>3, <2>4, <2>6, <2>7 DEF StatesOk
  <1>9. run \in RunState /\ RunHolds'
    <2>1. run.s.from \in Nat /\ run.s.gen \in Nat /\ supplemented' \in Nat /\ supplemented' <= supplemented
      BY <1>1, <1>2, RunParts DEF DInv
    <2> QED
      BY <1>1, <2>1 DEF DInv, RunHolds
  <1>10. RunKnows'
    <2>1. run.s.pc # "idle" => run.s.gen # generation + 1
      <3>1. run.s.gen \in Nat /\ generation \in Nat
        BY <1>1, RunParts DEF DInv
      <3>2. run.s.pc # "idle" => run.s.gen <= generation
        BY DEF DInv, RunHolds
      <3> QED
        BY <3>1, <3>2
    <2> QED
      BY <1>1, <2>1 DEF RunKnows
  <1>11. CacheKnows'
    <2>1. run.cachedGeneration \in Int /\ generation \in Nat /\ run.cachedGeneration <= generation
      BY <1>1, RunParts DEF DInv, CacheKnows
    <2>2. run'.cachedGeneration <= generation' /\ run'.cachedGeneration # generation'
      BY <1>1, <2>1
    <2> QED
      BY <2>2 DEF CacheKnows
  <1>12. ReadKnows'
    <2>1. read.gen \in Nat /\ read.gen <= generation /\ read.gen # generation + 1 /\ read.gen <= generation + 1
      BY <1>1 DEF DInv, ReadKnows, ReadRecord
    <2> QED
      BY <1>1, <2>1 DEF DInv, ReadKnows, States!ServedStateIsNotOlder, IsRow
  <1> QED
    BY <1>1, <1>5, <1>8, <1>9, <1>10, <1>11, <1>12 DEF DInv

\* what the other parts are told when the index stays as it is
IndexSame ==
    /\ chain' = chain /\ blocks' = blocks /\ states' = states /\ current' = current /\ supplemented' = supplemented
    /\ generation' = generation /\ failures' \in Nat /\ ixHeight' \in 0..Len(chain)

LEMMA IndexStays ==
  ASSUME DInv, IndexSame
  PROVE  RowsOk' /\ StatesOk'
  <1>1. RowsOk /\ StatesOk
    BY DEF DInv
  <1>2. RowsOk'
    BY <1>1 DEF IndexSame, RowsOk
  <1>3. \A a : (Applied(a)' <=> Applied(a)) /\ (StateOk(a)' <=> StateOk(a)) /\ (States!SameCount(a)' <=> States!SameCount(a))
    BY DEF IndexSame, Applied, StateOk, IsMine, States!SameCount
  <1>4. \A h : Good(h)' <=> Good(h)
    BY DEF IndexSame, Good
  <1>5. IsRow(current)' <=> IsRow(current)
    BY DEF IndexSame, IsRow
  <1>6. StatesOk'
    BY <1>1, <1>3, <1>4, <1>5 DEF StatesOk, IndexSame
  <1> QED
    BY <1>2, <1>6

LEMMA RunStays ==
  ASSUME DInv, IndexSame, run' = run
  PROVE  run' \in RunState /\ RunHolds' /\ RunKnows' /\ CacheKnows'
  <1>1. \A a : (Applied(a)' <=> Applied(a)) /\ (States!SameCount(a)' <=> States!SameCount(a))
    BY DEF IndexSame, Applied, States!SameCount
  <1>2. At' = At /\ FieldsDone' = FieldsDone
    BY DEF At, FieldsDone
  <1>3. \A h : Good(h)' <=> Good(h)
    BY DEF IndexSame, Good
  <1>4. \A k : CacheAt(k)' <=> CacheAt(k)
    BY <1>2, <1>3 DEF CacheAt, IndexSame
  <1>5. RunHolds'
    BY DEF DInv, RunHolds, IndexSame
  <1>6. RunKnows'
    BY <1>1, <1>2, <1>3 DEF DInv, RunKnows, IndexSame
  <1>7. CacheKnows'
    BY <1>4 DEF DInv, CacheKnows, IndexSame
  <1> QED
    BY <1>5, <1>6, <1>7 DEF DInv

LEMMA ReaderStays ==
  ASSUME DInv, IndexSame, read' = read
  PROVE  ReadKnows'
  <1>1. RowsOk /\ ReadKnows /\ Len(blocks) \in Nat
    BY DEF DInv, RowsOk
  <1> QED
    BY <1>1, ReadStays DEF IndexSame

LEMMA IndexerKeeps ==
  ASSUME DInv, States!indexerAdvances \/ UNCHANGED stateVars
  PROVE  DInv'
  <1>1. IndexSame /\ run' = run /\ read' = read
    <2>1. ixHeight \in 0..Len(chain) /\ Len(chain) \in Nat /\ failures \in Nat
      BY DEF DInv, RowsOk
    <2> QED
      BY <2>1 DEF States!indexerAdvances, stateVars, IndexSame
  <1> QED
    BY <1>1, IndexStays, RunStays, ReaderStays DEF DInv

-----------------------------------------------------------------------------
Kinds == {"none", "current", "history", "indexer", "behind", "unknown"}
Verdicts == {"null", "true", "false"}

LEMMA ReadParts ==
  ASSUME ReadKnows
  PROVE  /\ read \in ReadRecord /\ read.height \in Nat /\ read.row \in CurrentRow /\ read.newest \in Triple /\ read.stale \in Nat
         /\ read.gen \in Nat /\ read.known \in Nat /\ read.fetched \in Triple
         /\ read.row.height \in Nat /\ read.row.state \in Triple
         /\ read.row # States!NoState => read.row.state = read.row.action /\ read.row.state[1] = read.row.height
  BY DEF ReadKnows, ReadRecord, IsRow, CurrentRow

LEMMA NoActionIs == States!NoAction \in Triple /\ States!NoAction[1] = 0
  BY DEF States!NoAction, Triple

\* what a reader that has its answer knows
LEMMA Answered ==
  ASSUME ReadKnows, NEW k \in Kinds, NEW h \in Nat, NEW t \in Triple, NEW v \in Verdicts, States!Answers(k, h, t, v)
  PROVE  /\ read' \in ReadRecord /\ read'.pc = "done" /\ read'.height = read.height /\ read'.row = read.row /\ read'.gen = read.gen
         /\ read'.known = read.known /\ read'.answer.kind = k /\ read'.answer.state = t
  <1> DEFINE p == "done"
             z == 0
             n == <<0, 0, 0>>
             a == [kind |-> k, height |-> h, state |-> t, verified |-> v]
  <1>1. p \in ReadSteps /\ z \in Nat /\ n \in Triple /\ a \in AnswerRecord /\ a.kind = k /\ a.state = t
    BY DEF ReadSteps, Triple, AnswerRecord, Kinds, Verdicts
  <1>2. read' = [read EXCEPT !.pc = p, !.newest = n, !.stale = z, !.fetched = n, !.answer = a]
    BY DEF States!Answers, States!NoAction
  <1>3. p = "done"
    OBVIOUS
  <1> HIDE DEF p, z, n, a
  <1> QED
    BY <1>1, <1>2, <1>3, ReadParts DEF ReadRecord

LEMMA AnsweredKnows ==
  ASSUME DInv, IndexSame, NEW k \in Kinds, NEW h \in Nat, NEW t \in Triple, NEW v \in Verdicts, States!Answers(k, h, t, v),
         read.height = 0 => k # "history",
         read.gen = generation /\ read.height = 0 /\ read.row # States!NoState /\ k \in {"current", "indexer"} => t[1] >= read.known,
         read.gen = generation /\ read.height > 0 /\ k \in {"current", "history"} =>
            read.height <= Len(blocks) /\ \A a \in States!StoredUpTo(read.height) : ~States!Later(a, t)
  PROVE  ReadKnows'
  <1>1. /\ ReadKnows /\ generation' = generation /\ blocks' = blocks /\ states' = states
    BY DEF DInv, IndexSame
  <1>2. /\ read' \in ReadRecord /\ read'.pc = "done" /\ read'.height = read.height /\ read'.row = read.row /\ read'.gen = read.gen
        /\ read'.known = read.known /\ read'.answer.kind = k /\ read'.answer.state = t
    BY <1>1, Answered
  <1>3. IsRow(read.row)' /\ read.height \in Nat
    BY <1>1, <1>2, ReadParts DEF ReadKnows, IsRow
  <1>4. States!StoredUpTo(read.height)' = States!StoredUpTo(read.height)
    BY <1>1, <1>2 DEF States!StoredUpTo
  <1>5. States!ServedStateIsNotOlder'
    BY <1>1, <1>2, <1>3, <1>4 DEF States!ServedStateIsNotOlder
  <1> QED
    BY <1>1, <1>2, <1>3, <1>5 DEF ReadKnows

\* a step of the reader that does not answer
LEMMA ReadSet ==
  ASSUME ReadKnows, NEW p \in ReadSteps, NEW n \in Triple, NEW s \in Nat, NEW f \in Triple,
         read' = [read EXCEPT !.pc = p, !.newest = n, !.stale = s, !.fetched = f]
  PROVE  /\ read' \in ReadRecord /\ read'.pc = p /\ read'.height = read.height /\ read'.row = read.row /\ read'.gen = read.gen
         /\ read'.known = read.known /\ read'.stale = s /\ read'.newest = n /\ read'.fetched = f
  BY ReadParts DEF ReadRecord

LEMMA FetchKnows ==
  ASSUME DInv, IndexSame, NEW p \in {"fetch", "check"}, NEW n \in Triple, NEW s \in Nat, NEW f \in Triple,
         read' = [read EXCEPT !.pc = p, !.newest = n, !.stale = s, !.fetched = f],
         read.height = 0 /\ read.row # States!NoState =>
            s > 0 /\ (read.gen = generation => s <= Len(blocks) /\ read.known <= s)
  PROVE  ReadKnows'
  <1>1. /\ ReadKnows /\ generation' = generation /\ blocks' = blocks /\ states' = states
    BY DEF DInv, IndexSame
  <1>2. /\ read' \in ReadRecord /\ read'.pc = p /\ read'.height = read.height /\ read'.row = read.row /\ read'.gen = read.gen
        /\ read'.known = read.known /\ read'.stale = s
    <2>1. p \in ReadSteps
      BY DEF ReadSteps
    <2> QED
      BY <1>1, <2>1, ReadSet
  <1>3. IsRow(read.row)'
    BY <1>1, <1>2 DEF ReadKnows, IsRow
  <1>4. p # "done" /\ p # "newest"
    OBVIOUS
  <1> QED
    BY <1>1, <1>2, <1>3, <1>4 DEF ReadKnows, States!ServedStateIsNotOlder

\* the newest stored action
LEMMA NewestStored ==
  ASSUME DInv, NEW S \in SUBSET DOMAIN states
  PROVE  /\ States!Newest(S) \in Triple
         /\ S = {} => States!Newest(S) = States!NoAction
         /\ S # {} => /\ States!Newest(S) \in S /\ States!Newest(S) # States!NoAction /\ States!Newest(S)[1] \in 1..Len(blocks)
                      /\ \A b \in S : b[1] \in Nat /\ States!Newest(S)[1] >= b[1] /\ ~States!Later(b, States!Newest(S))
  <1>1. RowsOk /\ Len(blocks) \in Nat /\ \A a \in S : StateOk(a) /\ IsMine(a) /\ a \in Triple /\ a[1] \in 1..Len(blocks)
    BY DEF DInv, StatesOk, StateOk, IsMine, RowsOk
  <1>2. CASE S = {}
    BY <1>2, NoActionIs DEF States!Newest
  <1>3. CASE S # {}
    <2> DEFINE n == States!Newest(S)
    <2>1. n \in S /\ (\A b \in S : b # n => States!Later(n, b)) /\ \A b \in S : n[1] >= b[1]
      BY <1>1, <1>3, NewestMine
    <2> HIDE DEF n
    <2>2. n # States!NoAction /\ n[1] \in 1..Len(blocks) /\ n \in Triple
      BY <1>1, <2>1, NoActionIs
    <2>3. ASSUME NEW b \in S PROVE b[1] \in Nat /\ ~States!Later(b, n)
      <3>1. b \in Triple
        BY <1>1
      <3>2. CASE b = n
        BY <2>2, <3>1, <3>2 DEF States!Later, Triple
      <3>3. CASE b # n
        BY <2>1, <2>2, <3>1, <3>3 DEF States!Later, Triple
      <3> QED
        BY <1>1, <3>2, <3>3
    <2> QED
      BY <1>3, <2>1, <2>2, <2>3 DEF n
  <1> QED
    BY <1>2, <1>3

LEMMA AskKeeps ==
  ASSUME DInv, NEW height \in 0..Len(chain), States!contractStateAt(height)
  PROVE  DInv'
  <1> DEFINE known == IF height = 0 THEN States!Newest(DOMAIN states)[1] ELSE 0
  <1>1. /\ IndexSame /\ run' = run /\ ReadKnows /\ IsRow(current) /\ current \in CurrentRow /\ generation \in Nat /\ Len(chain) \in Nat
        /\ read' = [States!IdleRead EXCEPT !.pc = "newest", !.height = height, !.row = current, !.gen = generation, !.known = known]
    BY DEF States!contractStateAt, States!Reads, IndexSame, DInv, RowsOk, StatesOk, IsRow
  <1>2. known \in Nat /\ (known > 0 => \E a \in DOMAIN states : a[1] = known)
    <2>1. CASE DOMAIN states = {}
      <3>1. States!Newest(DOMAIN states) = States!NoAction
        BY <2>1, NewestStored
      <3> QED
        BY <3>1, NoActionIs
    <2>2. CASE DOMAIN states # {}
      BY <2>2, NewestStored
    <2> QED
      BY <2>1, <2>2
  <1> HIDE DEF known
  <1>3. read' \in ReadRecord /\ read'.pc = "newest" /\ read'.row = current /\ read'.gen = generation /\ read'.known = known
    <2> DEFINE z == 0
               n == <<0, 0, 0>>
               a == [kind |-> "none", height |-> 0, state |-> n, verified |-> "null"]
               p == "newest"
    <2>1. read' = [pc |-> p, height |-> height, row |-> current, newest |-> n, stale |-> z, gen |-> generation, known |-> known, fetched |-> n, answer |-> a]
      BY <1>1 DEF States!IdleRead, States!NoAction, States!NoAnswer
    <2>2. z \in Nat /\ n \in Triple /\ p \in ReadSteps /\ p = "newest" /\ height \in Nat
      BY <1>1 DEF Triple, ReadSteps
    <2>3. a \in AnswerRecord
      BY <2>2 DEF AnswerRecord
    <2> HIDE DEF z, n, a, p
    <2> QED
      BY <1>1, <1>2, <2>1, <2>2, <2>3 DEF ReadRecord
  <1>4. ReadKnows'
    <2>1. IsRow(read.row)' /\ generation' = generation /\ states' = states
      BY <1>1, <1>3 DEF IsRow, IndexSame
    <2> QED
      BY <1>1, <1>2, <1>3, <2>1 DEF ReadKnows, States!ServedStateIsNotOlder
  <1> QED
    BY <1>1, <1>4, IndexStays, RunStays DEF DInv

LEMMA ReaderKeeps ==
  ASSUME DInv, States!readCurrent \/ States!readHistory \/ States!fetchContractState \/ States!checkFetched \/ States!readAgain
  PROVE  DInv'
  <1>1. /\ IndexSame /\ run' = run /\ ReadKnows /\ RowsOk /\ Len(blocks) \in Nat /\ Len(chain) \in Nat
    BY DEF States!readCurrent, States!readHistory, States!fetchContractState, States!checkFetched, States!readAgain,
           States!Reads, IndexSame, DInv, RowsOk
  <1>2. /\ read \in ReadRecord /\ read.height \in Nat /\ read.row \in CurrentRow /\ read.newest \in Triple /\ read.stale \in Nat
        /\ read.gen \in Nat /\ read.known \in Nat /\ read.fetched \in Triple /\ read.row.height \in Nat /\ read.row.state \in Triple
        /\ read.row # States!NoState => read.row.state = read.row.action /\ read.row.state[1] = read.row.height
    BY <1>1, ReadParts
  <1>3. \A t \in Triple : t[1] \in Nat
    BY DEF Triple
  <1> SUFFICES ReadKnows'
    BY <1>1, IndexStays, RunStays DEF DInv
  <1>4. CASE States!readCurrent
    <2> DEFINE n == States!Newest(DOMAIN states)
    <2>1. read.pc = "newest" /\ read.height = 0
      BY <1>4 DEF States!readCurrent
    <2>2. read.gen = generation /\ read.known > 0 => \E a \in DOMAIN states : a[1] = read.known
      BY <1>1, <2>1 DEF ReadKnows
    <2>3. /\ n \in Triple /\ (DOMAIN states = {} => n = States!NoAction)
          /\ DOMAIN states # {} => n # States!NoAction /\ n[1] \in 1..Len(blocks) /\ \A b \in DOMAIN states : n[1] >= b[1]
      BY NewestStored
    <2>4. CASE read.row = States!NoState /\ read' = [read EXCEPT !.pc = "fetch"]
      <3> DEFINE m == read.newest
                 s == read.stale
                 f == read.fetched
      <3>1. read' = [read EXCEPT !.pc = "fetch", !.newest = m, !.stale = s, !.fetched = f]
        BY <1>2, <2>4 DEF ReadRecord
      <3>2. m \in Triple /\ s \in Nat /\ f \in Triple
        BY <1>2
      <3> HIDE DEF m, s, f
      <3> QED
        BY <1>1, <2>4, <3>1, <3>2, FetchKnows
    <2>5. CASE read.row # States!NoState /\ (n = States!NoAction \/ n[1] <= read.row.height) /\ States!fromCurrent
      <3>1. read.gen = generation => read.row.state[1] >= read.known
        BY <1>1, <1>2, <1>3, <2>2, <2>3, <2>5
      <3>2. "current" \in Kinds /\ "null" \in Verdicts
        BY DEF Kinds, Verdicts
      <3>3. States!Answers("current", read.row.height, read.row.state, "null")
        BY <2>5 DEF States!fromCurrent
      <3>4. "current" # "history" /\ ~(read.height > 0)
        BY <2>1
      <3>5. read.row.height \in Nat /\ read.row.state \in Triple /\ IndexSame
        BY <1>1, <1>2
      <3> QED
        BY <3>1, <3>2, <3>3, <3>4, <3>5, AnsweredKnows
    <2>6. CASE /\ read.row # States!NoState /\ ~(n = States!NoAction \/ n[1] <= read.row.height)
               /\ read' = [read EXCEPT !.pc = "fetch", !.newest = n, !.stale = n[1]]
      <3> HIDE DEF n
      <3>1. DOMAIN states # {} /\ n[1] \in 1..Len(blocks) /\ n[1] \in Nat
        BY <1>1, <1>3, <2>3, <2>6
      <3>2. read.gen = generation => read.known <= n[1]
        BY <1>1, <1>2, <2>2, <2>3, <3>1
      <3>3. read' = [read EXCEPT !.pc = "fetch", !.newest = n, !.stale = n[1], !.fetched = read.fetched]
        BY <1>2, <2>6 DEF ReadRecord
      <3>4. n[1] > 0 /\ n[1] <= Len(blocks)
        BY <1>1, <3>1
      <3> QED
        BY <1>1, <1>2, <2>3, <3>1, <3>2, <3>3, <3>4, FetchKnows
    <2>7. ReadKnows'
      BY <1>4, <2>4, <2>5, <2>6 DEF States!readCurrent
    <2> QED
      BY <2>7
  <1>5. CASE States!readHistory
    <2> DEFINE S == States!StoredUpTo(read.height)
               n == IF read.height <= States!Height THEN States!Newest(S) ELSE States!NoAction
    <2>1. read.height > 0 /\ States!Height = Len(blocks) /\ S \in SUBSET DOMAIN states
      BY <1>5 DEF States!readHistory, States!Height, States!StoredUpTo
    <2>2. /\ n \in Triple
          /\ n # States!NoAction => /\ read.height <= Len(blocks) /\ n \in DOMAIN states /\ \A b \in S : ~States!Later(b, n)
      BY <2>1, NewestStored, NoActionIs
    <2> HIDE DEF n, S
    <2>3. CASE n # States!NoAction /\ states[n].full /\ States!Answers("history", n[1], states[n].hash, "null")
      <3>1. StateOk(n)
        BY <2>2, <2>3 DEF DInv, StatesOk
      <3>2. states[n].hash = n /\ n[1] \in Nat
        BY <1>3, <2>2, <2>3, <3>1 DEF StateOk
      <3>3. "history" \in Kinds /\ "null" \in Verdicts /\ "history" \notin {"current", "indexer"}
        BY DEF Kinds, Verdicts
      <3>4. States!Answers("history", n[1], n, "null")
        BY <2>3, <3>2
      <3> QED
        BY <1>1, <2>1, <2>2, <2>3, <3>2, <3>3, <3>4, AnsweredKnows DEF S
    <2>4. CASE n # States!NoAction /\ read.row.action = n /\ States!fromCurrent
      <3>1. read.row # States!NoState
        BY <2>4 DEF States!NoState
      <3>2. read.row.state = n
        BY <1>2, <2>4, <3>1
      <3>3. "current" \in Kinds /\ "null" \in Verdicts /\ "current" # "history"
        BY DEF Kinds, Verdicts
      <3>4. States!Answers("current", read.row.height, n, "null")
        BY <2>4, <3>2 DEF States!fromCurrent
      <3> QED
        BY <1>1, <1>2, <2>1, <2>2, <2>4, <3>3, <3>4, AnsweredKnows DEF S
    <2>5. CASE read' = [read EXCEPT !.pc = "fetch", !.newest = n]
      <3> DEFINE s == read.stale
                 f == read.fetched
      <3>1. read' = [read EXCEPT !.pc = "fetch", !.newest = n, !.stale = s, !.fetched = f]
        BY <1>2, <2>5 DEF ReadRecord
      <3>2. s \in Nat /\ f \in Triple /\ read.height # 0
        BY <1>2, <2>1
      <3> HIDE DEF s, f
      <3> QED
        BY <1>1, <2>2, <3>1, <3>2, FetchKnows
    <2>6. ReadKnows'
      BY <1>5, <2>3, <2>4, <2>5 DEF States!readHistory, n, S
    <2> QED
      BY <2>6
  <1>6. CASE States!fetchContractState
    <2> DEFINE asked == IF read.stale > 0 THEN read.stale ELSE IF read.height > 0 THEN read.height ELSE ixHeight
               l == States!Min({asked, ixHeight})
               S == UNION { States!Theirs(h) : h \in 1..l }
               found == States!Newest(S)
    <2>1. ixHeight \in Nat /\ ixHeight <= Len(chain) /\ asked \in Nat /\ l \in Nat /\ l <= Len(chain)
      <3>1. ixHeight \in Nat /\ ixHeight <= Len(chain) /\ asked \in Nat
        BY <1>1, <1>2 DEF RowsOk
      <3> HIDE DEF asked
      <3>2. l = IF asked <= ixHeight THEN asked ELSE ixHeight
        BY <3>1, MinIs
      <3> QED
        BY <1>1, <3>1, <3>2
    <2> HIDE DEF asked, l
    <2>2. found \in Triple
      <3>1. CASE S = {}
        BY <3>1, NoActionIs DEF States!Newest
      <3>2. CASE S # {}
        <4>1. ASSUME NEW a \in S
              PROVE  /\ a \in Triple /\ a[1] \in 1..l /\ a[2] \in 1..Len(chain[a[1]].txs) /\ Len(chain[a[1]].txs) \in Nat
                     /\ a[3] \in 1..chain[a[1]].txs[a[2]].theirs /\ chain[a[1]].txs[a[2]].theirs \in Nat
          <5>1. PICK h \in 1..l : a \in States!Theirs(h)
            OBVIOUS
          <5>2. PICK i \in DOMAIN chain[h].txs : a \in {h} \X {i} \X (1..chain[h].txs[i].theirs)
            BY <5>1 DEF States!Theirs
          <5>3. chain[h] \in ChainBlock /\ h \in Nat
            BY <1>1, <2>1, InSeq DEF RowsOk
          <5>4. chain[h].txs \in Seq([mine : Nat, theirs : Nat])
            BY <5>3 DEF ChainBlock
          <5>5. i \in 1..Len(chain[h].txs) /\ i \in Nat /\ Len(chain[h].txs) \in Nat
            BY <5>4
          <5>6. chain[h].txs[i] \in [mine : Nat, theirs : Nat]
            BY <5>4, <5>5, InSeq
          <5>7. a = <<h, i, a[3]>> /\ a[1] = h /\ a[2] = i /\ a[3] \in 1..chain[h].txs[i].theirs /\ chain[h].txs[i].theirs \in Nat
            BY <5>2, <5>6
          <5>8. a \in Triple
            BY <5>3, <5>5, <5>7 DEF Triple
          <5> QED
            BY <5>5, <5>7, <5>8
        <4> HIDE DEF S
        <4>2. S \in SUBSET Triple /\ \A a \in S : a[1] <= l
          BY <2>1, <4>1
        <4>3. \A x \in Nat : \A y \in 1..x : y <= x
          OBVIOUS
        <4>4. ASSUME NEW a \in S PROVE \E m \in Nat : \A b \in S : b[1] = a[1] => b[2] <= m
          <5> DEFINE m == Len(chain[a[1]].txs)
          <5>1. m \in Nat /\ \A b \in S : b[1] = a[1] => b[2] \in 1..m
            BY <4>1
          <5> HIDE DEF m
          <5> QED
            BY <4>3, <5>1
        <4>5. ASSUME NEW a \in S PROVE \E m \in Nat : \A b \in S : b[1] = a[1] /\ b[2] = a[2] => b[3] <= m
          <5> DEFINE m == chain[a[1]].txs[a[2]].theirs
          <5>1. m \in Nat /\ \A b \in S : b[1] = a[1] /\ b[2] = a[2] => b[3] \in 1..m
            BY <4>1
          <5> HIDE DEF m
          <5> QED
            BY <4>3, <5>1
        <4> QED
          BY <2>1, <3>2, <4>2, <4>4, <4>5, NewestIs
      <3> QED
        BY <3>1, <3>2
    <2>3. read.pc = "fetch" /\ read' = [read EXCEPT !.pc = "check", !.fetched = found]
      BY <1>6 DEF States!fetchContractState, asked, l
    <2> HIDE DEF found
    <2>4. read' = [read EXCEPT !.pc = "check", !.newest = read.newest, !.stale = read.stale, !.fetched = found]
      BY <1>2, <2>3 DEF ReadRecord
    <2>5. read.height = 0 /\ read.row # States!NoState =>
            read.stale > 0 /\ (read.gen = generation => read.stale <= Len(blocks) /\ read.known <= read.stale)
      BY <1>1, <2>3 DEF ReadKnows
    <2>6. ReadKnows'
      BY <1>1, <1>2, <2>2, <2>4, <2>5, FetchKnows
    <2> QED
      BY <2>6
  <1>7. CASE States!checkFetched
    <2> DEFINE missing == read.fetched = States!NoAction
               other == read.stale > 0 /\ ~missing /\ read.stale <= States!Height /\ read.fetched[1] # read.stale
    <2>1. read.pc = "check" /\ States!Height = Len(blocks)
      BY <1>7 DEF States!checkFetched, States!Height
    <2>2. CASE States!Answers("behind", 0, States!NoAction, "null") \/ States!Answers("unknown", 0, States!NoAction, "null")
      <3>1. "behind" \in Kinds /\ "unknown" \in Kinds /\ "null" \in Verdicts /\ {"behind", "unknown"} \cap {"current", "history", "indexer"} = {}
        BY DEF Kinds, Verdicts
      <3> QED
        BY <1>1, <2>2, <3>1, NoActionIs, AnsweredKnows
    <2>3. CASE ~missing /\ ~other /\ \E v \in Verdicts : States!Answers("indexer", read.newest[1], read.fetched, v)
      <3>1. "indexer" \in Kinds /\ "indexer" # "history" /\ "indexer" # "current" /\ read.newest[1] \in Nat
        BY <1>2, <1>3 DEF Kinds
      <3>2. read.gen = generation /\ read.height = 0 /\ read.row # States!NoState => read.fetched[1] >= read.known
        <4>1. read.height = 0 /\ read.row # States!NoState /\ read.gen = generation =>
                read.stale > 0 /\ read.stale <= Len(blocks) /\ read.known <= read.stale
          BY <1>1, <2>1 DEF ReadKnows
        <4> QED
          BY <1>2, <1>3, <2>1, <2>3, <4>1
      <3> QED
        BY <1>1, <1>2, <2>3, <3>1, <3>2, AnsweredKnows
    <2>4. ReadKnows'
      <3>1. {"null", "true", "false"} = Verdicts
        BY DEF Verdicts
      <3> QED
        BY <1>7, <2>2, <2>3, <3>1 DEF States!checkFetched
    <2> QED
      BY <2>4
  <1>8. CASE States!readAgain
    <2>1. read' = States!IdleRead /\ IsRow(States!NoState)'
      BY <1>8, NoStateIs DEF States!readAgain, IsRow
    <2>2. read' \in ReadRecord /\ read'.pc = "idle" /\ read'.row = States!NoState /\ read'.gen = 0
      <3> DEFINE z == 0
                 n == <<0, 0, 0>>
                 a == [kind |-> "none", height |-> 0, state |-> n, verified |-> "null"]
                 p == "idle"
                 w == States!NoState
      <3>1. read' = [pc |-> p, height |-> z, row |-> w, newest |-> n, stale |-> z, gen |-> z, known |-> z, fetched |-> n, answer |-> a]
        BY <2>1 DEF States!IdleRead, States!NoAction, States!NoAnswer
      <3>2. z \in Nat /\ n \in Triple /\ p \in ReadSteps /\ p = "idle" /\ z = 0 /\ w \in CurrentRow /\ w = States!NoState
        BY NoStateIs DEF Triple, ReadSteps
      <3>3. a \in AnswerRecord
        BY <3>2 DEF AnswerRecord
      <3> HIDE DEF z, n, a, p, w
      <3> QED
        BY <3>1, <3>2, <3>3 DEF ReadRecord
    <2>3. IsRow(read.row)' /\ generation' \in Nat
      BY <1>1, <2>1, <2>2, NoStateIs DEF IsRow, IndexSame, RowsOk
    <2>4. ReadKnows'
      BY <2>2, <2>3 DEF ReadKnows, States!ServedStateIsNotOlder
    <2> QED
      BY <2>4
  <1> QED
    BY <1>4, <1>5, <1>6, <1>7, <1>8

-----------------------------------------------------------------------------
\* what a step of the run leaves alone
RunOnly == chain' = chain /\ ixHeight' = ixHeight /\ generation' = generation /\ read' = read /\ failures' \in Nat

LEMMA RunOnlySame ==
  ASSUME DInv, RunOnly, blocks' = blocks, states' = states, current' = current, supplemented' = supplemented
  PROVE  IndexSame
  BY DEF DInv, RowsOk, RunOnly, IndexSame

\* the block the run is at
LEMMA BlockAt ==
  ASSUME DInv, run.s.pc # "idle"
  PROVE  /\ States!Block.height = At /\ At \in 1..Len(chain) /\ At \in Nat /\ supplemented < At /\ supplemented \in Nat
         /\ run.s.from < At /\ run.s.from \in Nat /\ run.s.at \in Nat /\ Len(chain) \in Nat
         /\ Len(chain[At].txs) \in Nat /\ chain[At].params \in Nat \ {0}
         /\ run.s.gen = generation => States!Block.gen = blocks[At].gen /\ At \in 1..Len(blocks)
  <1>1. /\ run.s.at \in 1..Len(run.s.list) /\ run.s.list \in Seq([height : Nat, gen : Nat]) /\ run.s.from \in Nat /\ RowsOk
        /\ run.s.from + Len(run.s.list) <= Len(chain) /\ \A k \in 1..Len(run.s.list) : run.s.list[k].height = run.s.from + k
        /\ supplemented <= run.s.from /\ Len(chain) \in Nat /\ Len(run.s.list) \in Nat /\ supplemented \in Nat
    BY RunParts DEF DInv, RunHolds, RowsOk
  <1>2. At \in 1..Len(chain) /\ run.s.from < At /\ supplemented < At /\ run.s.at \in Nat
    <2> DEFINE f == run.s.from
               k == run.s.at
               n == Len(run.s.list)
               l == Len(chain)
    <2>1. f \in Nat /\ n \in Nat /\ l \in Nat /\ f + n <= l /\ k \in 1..n /\ supplemented <= f /\ supplemented \in Nat
      BY <1>1
    <2>2. At = f + k
      BY DEF At
    <2> HIDE DEF f, k, n, l
    <2>3. At \in 1..l /\ f < At /\ supplemented < At /\ k \in Nat
      BY <2>1, <2>2, Within
    <2> QED
      BY <2>3 DEF l, f, k
  <1>3. States!Block.height = At
    BY <1>1 DEF States!Block, At
  <1>4. chain[At] \in ChainBlock
    BY <1>1, <1>2, InSeq DEF RowsOk
  <1>5. chain[At].txs \in Seq([mine : Nat, theirs : Nat]) /\ chain[At].params \in Nat \ {0}
    BY <1>4 DEF ChainBlock
  <1>6. run.s.gen = generation => States!Block.gen = blocks[At].gen /\ At \in 1..Len(blocks)
    BY <1>1, RunAt DEF RunKnows, States!Block, At
  <1> QED
    BY <1>1, <1>2, <1>3, <1>5, <1>6

\* the actions of a transaction
LEMMA MineIs ==
  ASSUME RowsOk, NEW h \in 1..Len(chain), NEW a \in States!Mine(h)
  PROVE  IsMine(a) /\ a[1] = h
  <1>1. chain[h] \in ChainBlock /\ h \in Nat /\ Len(chain) \in Nat
    BY InSeq DEF RowsOk
  <1>2. chain[h].txs \in Seq([mine : Nat, theirs : Nat])
    BY <1>1 DEF ChainBlock
  <1>3. PICK i \in DOMAIN chain[h].txs : a \in {h} \X {i} \X (1..chain[h].txs[i].mine)
    BY DEF States!Mine
  <1>4. i \in 1..Len(chain[h].txs) /\ i \in Nat
    BY <1>2, <1>3
  <1>5. chain[h].txs[i] \in [mine : Nat, theirs : Nat]
    BY <1>2, <1>4, InSeq
  <1>6. a = <<h, i, a[3]>> /\ a[3] \in 1..chain[h].txs[i].mine /\ a[1] = h /\ a[2] = i
    BY <1>3
  <1>7. a \in Triple
    BY <1>1, <1>4, <1>5, <1>6 DEF Triple
  <1> QED
    BY <1>4, <1>6, <1>7 DEF IsMine

LEMMA IsMineIn ==
  ASSUME RowsOk, NEW a, IsMine(a)
  PROVE  a \in States!Mine(a[1]) /\ a[2] \in Nat /\ a[2] >= 1 /\ a[2] <= Len(chain[a[1]].txs)
  <1>1. /\ a \in Triple /\ a[1] \in 1..Len(chain) /\ a[2] \in 1..Len(chain[a[1]].txs) /\ a[3] \in 1..chain[a[1]].txs[a[2]].mine
        /\ chain[a[1]] \in ChainBlock
    BY InSeq DEF IsMine, RowsOk
  <1>2. chain[a[1]].txs \in Seq([mine : Nat, theirs : Nat])
    BY <1>1 DEF ChainBlock
  <1>3. a[2] \in DOMAIN chain[a[1]].txs /\ a[2] \in Nat /\ Len(chain[a[1]].txs) \in Nat
    BY <1>1, <1>2
  <1>4. a = <<a[1], a[2], a[3]>>
    BY <1>1 DEF Triple
  <1>5. a \in {a[1]} \X {a[2]} \X (1..chain[a[1]].txs[a[2]].mine)
    BY <1>1, <1>4
  <1> QED
    BY <1>1, <1>3, <1>5 DEF States!Mine

\* the run is over
LEMMA IdleKeeps ==
  ASSUME DInv, IndexSame, run' = [run EXCEPT !.s = States!IdleRun]
  PROVE  run' \in RunState /\ RunHolds' /\ RunKnows' /\ CacheKnows'
  <1>1. run' \in RunState /\ run'.s.pc = "idle" /\ run'.lastLedgerParameters = run.lastLedgerParameters /\ run'.cachedGeneration = run.cachedGeneration
    BY RunEnds DEF DInv
  <1>2. \A h : Good(h)' <=> Good(h)
    BY DEF IndexSame, Good
  <1>3. ~FieldsDone'
    BY <1>1 DEF FieldsDone
  <1>4. \A k : CacheAt(k) => CacheAt(k)'
    BY <1>1, <1>2, <1>3 DEF CacheAt, IndexSame
  <1>5. CacheKnows'
    BY <1>1, <1>4 DEF DInv, CacheKnows, IndexSame
  <1> QED
    BY <1>1, <1>5 DEF RunHolds, RunKnows

\* a step of the run within its block
LEMMA SteppedKeeps ==
  ASSUME DInv, IndexSame, run.s.pc # "idle", NEW p \in RunSteps, NEW t \in Nat, NEW f, p # "idle",
         RunFields(run.s.at, p, t, run.lastLedgerParameters, f),
         p \in {"rows", "tx"} => FieldsDone,
         p = "tx" /\ run.s.gen = generation =>
            f = blocks[At].gen /\ \A a \in DOMAIN states : a[1] = At /\ a[2] < t => Applied(a) /\ (States!SameCount(a) => states[a].full = StateHistory)
  PROVE  run' \in RunState /\ RunHolds' /\ RunKnows' /\ CacheKnows'
  <1>1. /\ run' \in RunState /\ run'.s.pc = p /\ run'.s.from = run.s.from /\ run'.s.gen = run.s.gen /\ run'.s.list = run.s.list
        /\ run'.s.at = run.s.at /\ run'.s.tx = t /\ run'.lastLedgerParameters = run.lastLedgerParameters /\ run'.s.found = f
        /\ run'.cachedGeneration = run.cachedGeneration
    BY DEF RunFields
  <1>2. At' = At /\ (FieldsDone' => FieldsDone)
    BY <1>1 DEF At, FieldsDone
  <1>3. \A h : Good(h)' <=> Good(h)
    BY DEF IndexSame, Good
  <1>4. \A a : (Applied(a)' <=> Applied(a)) /\ (States!SameCount(a)' <=> States!SameCount(a))
    BY DEF IndexSame, Applied, States!SameCount
  <1>5. RunHolds'
    BY <1>1 DEF DInv, RunHolds, IndexSame
  <1>6. RunKnows'
    <2> SUFFICES ASSUME run.s.gen = generation PROVE RunKnows'
      BY <1>1 DEF RunKnows, IndexSame
    <2>1. RunKnows
      BY DEF DInv
    <2>2. \A a \in DOMAIN states' :
              (run'.s.from < a[1] /\ a[1] < At') \/ (run'.s.pc = "tx" /\ a[1] = At' /\ a[2] < run'.s.tx)
                  => Applied(a)' /\ (States!SameCount(a)' => states'[a].full = StateHistory)
      BY <1>1, <1>2, <1>4, <2>1 DEF RunKnows, IndexSame
    <2> QED
      BY <1>1, <1>2, <1>3, <2>1, <2>2 DEF RunKnows, IndexSame
  <1>7. CacheKnows'
    <2>1. \A k : CacheAt(k) => CacheAt(k)'
      BY <1>1, <1>2, <1>3 DEF CacheAt, IndexSame
    <2> QED
      BY <1>1, <2>1 DEF DInv, CacheKnows, IndexSame
  <1> QED
    BY <1>1, <1>5, <1>6, <1>7

\* the cursor is set past blocks the run is done with
LEMMA CursorSet ==
  ASSUME DInv, RunOnly, run.s.pc # "idle", NEW to \in {At - 1, At}, States!setCursor(to),
         blocks' = blocks, states' = states, current' = current,
         to = At => run.s.pc = "tx" /\ run.s.tx > Len(chain[At].txs)
  PROVE  DInv'
  <1>1. run' = [run EXCEPT !.s = States!IdleRun]
    BY DEF States!setCursor
  <1>2. CASE supplemented' = supplemented
    <2>1. IndexSame
      BY <1>2, RunOnlySame
    <2> QED
      BY <1>1, <2>1, IdleKeeps, IndexStays, ReaderStays DEF DInv, RunOnly
  <1>3. CASE generation = run.s.gen /\ supplemented' = to
    <2>1. /\ RowsOk /\ StatesOk /\ RunKnows /\ CacheKnows /\ supplemented = run.s.from /\ At \in 1..Len(blocks) /\ At - 1 \in 0..Len(blocks)
          /\ Len(blocks) \in Nat /\ run.s.from < At /\ run.s.from \in Nat /\ run.s.tx \in Nat /\ Len(chain[At].txs) \in Nat
      <3>1. RowsOk /\ StatesOk /\ RunKnows /\ CacheKnows /\ Len(blocks) \in Nat /\ run.s.tx \in Nat
        BY RunParts DEF DInv, RowsOk
      <3>2. supplemented = run.s.from /\ At \in 1..Len(blocks) /\ At - 1 \in 0..Len(blocks)
        BY <1>3, RunAt
      <3>3. run.s.from < At /\ run.s.from \in Nat /\ Len(chain[At].txs) \in Nat
        BY BlockAt
      <3> QED
        BY <3>1, <3>2, <3>3
    <2>2. to \in 0..Len(blocks) /\ to >= supplemented /\ to \in Nat
      BY <2>1
    <2>3. \A h \in 1..to : Good(h)
      BY <1>3, <2>1, <2>2 DEF RunKnows, FieldsDone
    <2>4. ASSUME NEW a \in DOMAIN states, a[1] <= to, a[1] > supplemented
          PROVE  Applied(a) /\ (States!SameCount(a) => states[a].full = StateHistory)
      <3>1. StateOk(a)
        BY <2>1 DEF StatesOk
      <3>2. IsMine(a) /\ a[1] \in Nat
        BY <3>1 DEF StateOk, IsMine
      <3>3. a[2] \in Nat /\ a[2] <= Len(chain[a[1]].txs)
        BY <2>1, <3>2, IsMineIn
      <3>4. (run.s.from < a[1] /\ a[1] < At) \/ (run.s.pc = "tx" /\ a[1] = At /\ a[2] < run.s.tx)
        BY <2>1, <2>4, <3>2, <3>3
      <3> QED
        BY <1>3, <2>1, <3>4 DEF RunKnows
    <2>5. RowsOk'
      BY <1>3, <2>1, <2>2 DEF RowsOk, RunOnly
    <2>6. \A a : (Applied(a)' <=> Applied(a)) /\ (StateOk(a)' <=> StateOk(a)) /\ (States!SameCount(a)' <=> States!SameCount(a))
      BY DEF RunOnly, Applied, StateOk, IsMine, States!SameCount
    <2>7. \A h : Good(h)' <=> Good(h)
      BY DEF RunOnly, Good
    <2>8. StatesOk'
      <3>1. IsRow(current)'
        BY <2>1 DEF StatesOk, IsRow
      <3>2. ASSUME NEW a \in DOMAIN states', a[1] <= supplemented' PROVE Applied(a)'
        <4>1. a[1] \in Nat
          BY <2>1 DEF StatesOk, StateOk, IsMine
        <4> QED
          BY <1>3, <2>1, <2>2, <2>4, <2>6, <3>2, <4>1 DEF StatesOk
      <3>3. ASSUME NEW a \in DOMAIN states, NEW b \in DOMAIN states, states[a].full, b[1] <= to, States!SameCount(b), ~states[b].full
            PROVE  a[1] >= b[1]
        <4>1. b[1] \in Nat /\ StateHistory
          BY <2>1, <3>3 DEF StatesOk, StateOk, IsMine
        <4>2. ~(b[1] > supplemented)
          BY <2>4, <3>3, <4>1
        <4> QED
          BY <2>1, <3>3, <4>1, <4>2 DEF StatesOk
      <3> QED
        BY <1>3, <2>1, <2>3, <2>6, <2>7, <3>1, <3>2, <3>3 DEF StatesOk
    <2>9. run' \in RunState /\ run'.s.pc = "idle" /\ run'.lastLedgerParameters = run.lastLedgerParameters /\ run'.cachedGeneration = run.cachedGeneration
      BY <1>1, RunEnds DEF DInv
    <2>10. RunHolds' /\ RunKnows'
      BY <2>9 DEF RunHolds, RunKnows
    <2>11. CacheKnows'
      <3>1. ~FieldsDone'
        BY <2>9 DEF FieldsDone
      <3>2. ASSUME NEW k \in 1..Len(blocks), CacheAt(k) PROVE CacheAt(k)'
        <4>1. k >= to
          BY <2>1, <3>2 DEF CacheAt, FieldsDone
        <4> QED
          BY <1>3, <2>7, <2>9, <3>1, <3>2, <4>1 DEF CacheAt, RunOnly
      <3> QED
        BY <2>1, <2>9, <3>2 DEF CacheKnows, RunOnly
    <2>12. ReadKnows'
      BY <2>1, ReadStays DEF DInv, RunOnly
    <2> QED
      BY <2>5, <2>8, <2>9, <2>10, <2>11, <2>12 DEF DInv
  <1> QED
    BY <1>2, <1>3 DEF States!setCursor

LEMMA RunOnceKeeps ==
  ASSUME DInv, States!runOnce
  PROVE  DInv'
  <1> DEFINE n == States!Min({StateBatch, States!Height - supplemented})
             list == [k \in 1..n |-> [height |-> supplemented + k, gen |-> blocks[supplemented + k].gen]]
             last == IF run.cachedGeneration = generation THEN run.lastLedgerParameters ELSE 0
             s == [States!IdleRun EXCEPT !.pc = "fetch", !.from = supplemented, !.gen = generation, !.list = list]
  <1>1. /\ RowsOk /\ Len(blocks) \in Nat /\ supplemented \in Nat /\ supplemented < Len(blocks) /\ generation \in Nat
        /\ Len(blocks) <= Len(chain) /\ States!Height = Len(blocks)
        /\ run' = [s |-> s, lastLedgerParameters |-> last, cachedGeneration |-> generation]
        /\ RunOnly /\ blocks' = blocks /\ states' = states /\ current' = current /\ supplemented' = supplemented
    BY DEF DInv, RowsOk, States!runOnce, States!Height, States!Supplemented, RunOnly
  <1>2. IndexSame
    BY <1>1, RunOnlySame
  <1>3. n \in Nat \ {0} /\ supplemented + n <= Len(blocks)
    <2> DEFINE m == Len(blocks) - supplemented
    <2>1. m \in Nat \ {0} /\ StateBatch \in Nat \ {0} /\ supplemented + m = Len(blocks)
      BY <1>1, StateAssumption
    <2>2. n = IF StateBatch <= m THEN StateBatch ELSE m
      <3>1. n = States!Min({StateBatch, m})
        BY <1>1
      <3> HIDE DEF m, n
      <3>2. StateBatch \in Int /\ m \in Int
        BY <2>1
      <3> QED
        BY <3>1, <3>2, MinIs
    <2> HIDE DEF m, n
    <2> QED
      BY <1>1, <2>1, <2>2
  <1> HIDE DEF n
  <1>4. \A k \in 1..n : supplemented + k \in 1..Len(blocks)
    BY <1>1, <1>3, Within
  <1>5. /\ list \in Seq([height : Nat, gen : Nat]) /\ Len(list) = n
        /\ \A k \in 1..n : list[k].height = supplemented + k /\ list[k].gen = blocks[supplemented + k].gen
    <2>1. ASSUME NEW k \in 1..n PROVE [height |-> supplemented + k, gen |-> blocks[supplemented + k].gen] \in [height : Nat, gen : Nat]
      <3>1. blocks[supplemented + k] \in BlockRow /\ supplemented + k \in Nat
        BY <1>1, <1>4, InSeq DEF RowsOk
      <3> QED
        BY <3>1 DEF BlockRow
    <2> DEFINE T == [height : Nat, gen : Nat]
    <2>2. list \in [1..n -> T]
      BY <2>1
    <2>3. \A k \in 1..n : list[k].height = supplemented + k /\ list[k].gen = blocks[supplemented + k].gen
      OBVIOUS
    <2> HIDE DEF T, list
    <2>4. list \in Seq(T) /\ Len(list) = n
      BY <1>3, <2>2
    <2> QED
      BY <2>3, <2>4 DEF T
  <1> HIDE DEF list
  <1>6. last \in Nat /\ run.cachedGeneration \in Nat \cup {-1} /\ (last # 0 => run.cachedGeneration = generation /\ last = run.lastLedgerParameters)
    BY RunParts DEF DInv
  <1> HIDE DEF last
  <1>7. /\ s \in RunRecord /\ s.pc = "fetch" /\ s.from = supplemented /\ s.gen = generation /\ s.list = list /\ s.at = 1 /\ s.tx = 1
    <2> DEFINE z == 0
               i == 1
               p == "fetch"
               q == "idle"
               e == <<>>
    <2>0. /\ States!IdleRun = [pc |-> q, from |-> z, gen |-> z, list |-> e, at |-> i, tx |-> i, found |-> z]
          /\ s = [States!IdleRun EXCEPT !.pc = p, !.from = supplemented, !.gen = generation, !.list = list]
      BY DEF States!IdleRun
    <2>1. s = [pc |-> p, from |-> supplemented, gen |-> generation, list |-> list, at |-> i, tx |-> i, found |-> z]
      <3> HIDE DEF z, i, p, q, e, s
      <3> QED
        BY <2>0
    <2>2. z \in Nat /\ i \in Nat /\ p \in RunSteps /\ p = "fetch" /\ i = 1
      BY DEF RunSteps
    <2> HIDE DEF z, i, p, s
    <2> QED
      BY <1>1, <1>5, <2>1, <2>2 DEF RunRecord
  <1> HIDE DEF s
  <1>8. run'.s = s /\ run'.lastLedgerParameters = last /\ run'.cachedGeneration = generation /\ run' \in RunState
    BY <1>1, <1>6, <1>7 DEF RunState
  <1>9. At' = supplemented + 1 /\ At' - 1 = supplemented /\ ~FieldsDone'
    BY <1>1, <1>7, <1>8 DEF At, FieldsDone
  <1>10. RunHolds'
    <2>1. supplemented + n <= Len(chain') /\ 1 \in 1..n
      BY <1>1, <1>3 DEF RunOnly, RowsOk
    <2> QED
      <3>1. /\ run'.s.at \in 1..Len(run'.s.list) /\ run'.s.from + Len(run'.s.list) <= Len(chain')
            /\ \A k \in 1..Len(run'.s.list) : run'.s.list[k].height = run'.s.from + k
        BY <1>5, <1>7, <1>8, <2>1
      <3>2. /\ supplemented' <= run'.s.from /\ run'.cachedGeneration = run'.s.gen /\ run'.s.gen <= generation'
        BY <1>1, <1>7, <1>8 DEF RunOnly
      <3> QED
        BY <3>1, <3>2 DEF RunHolds
  <1>11. \A h : Good(h)' <=> Good(h)
    BY <1>2 DEF IndexSame, Good
  <1>12. RunKnows'
    <2>1. \A h \in 1..(At' - 1) : Good(h)'
      BY <1>9, <1>11 DEF DInv, StatesOk
    <2>2. \A a \in DOMAIN states' : ~(supplemented < a[1] /\ a[1] < At')
      <3>1. \A a \in DOMAIN states : a[1] \in Nat
        BY DEF DInv, StatesOk, StateOk, IsMine
      <3> QED
        BY <1>1, <1>9, <3>1
    <2> QED
      BY <1>1, <1>3, <1>5, <1>7, <1>8, <1>9, <2>1, <2>2 DEF RunKnows
  <1>13. CacheKnows'
    <2>1. ASSUME last # 0 PROVE \E k \in 1..Len(blocks) : CacheAt(k)'
      <3>1. PICK k \in 1..Len(blocks) : CacheAt(k)
        BY <1>6, <2>1 DEF DInv, CacheKnows
      <3>2. CacheAt(k)'
        BY <1>1, <1>6, <1>8, <1>9, <1>11, <2>1, <3>1 DEF CacheAt, RunOnly
      <3> QED
        BY <3>2
    <2> QED
      BY <1>1, <1>8, <2>1 DEF CacheKnows, RunOnly
  <1> QED
    BY <1>1, <1>2, <1>8, <1>10, <1>12, <1>13, IndexStays, ReaderStays DEF DInv, RunOnly

LEMMA FetchKeeps ==
  ASSUME DInv, States!fetchBlock \/ States!passFails \/ States!applyBlock
  PROVE  DInv'
  <1>1. /\ run.s.pc # "idle" /\ RunOnly /\ blocks' = blocks /\ states' = states /\ current' = current /\ run \in RunState
    BY DEF States!fetchBlock, States!passFails, States!applyBlock, States!Supplemented, RunOnly, DInv, RowsOk
  <1>2. /\ run.s.tx \in Nat /\ States!Block.height = At /\ At \in Nat /\ run.s.from \in Nat /\ run.s.at \in Nat
    BY <1>1, BlockAt, RunParts
  <1>3. ASSUME supplemented' = supplemented, run' \in RunState /\ RunHolds' /\ RunKnows' /\ CacheKnows' PROVE DInv'
    <2>1. IndexSame
      BY <1>1, <1>3, RunOnlySame
    <2> QED
      BY <1>1, <1>3, <2>1, IndexStays, ReaderStays DEF DInv, RunOnly
  <1>4. CASE States!fetchBlock
    <2>1. CASE run' = [run EXCEPT !.s.pc = "fields"] /\ supplemented' = supplemented
      <3> DEFINE p == "fields"
      <3>1. p \in RunSteps /\ p \notin {"idle", "rows", "tx"}
        BY DEF RunSteps
      <3>2. run' = [run EXCEPT !.s.pc = p]
        BY <2>1
      <3> HIDE DEF p
      <3>3. RunFields(run.s.at, p, run.s.tx, run.lastLedgerParameters, run.s.found)
        BY <1>1, <3>1, <3>2, RunStepped
      <3>4. IndexSame
        BY <1>1, <2>1, RunOnlySame
      <3>5. run' \in RunState /\ RunHolds' /\ RunKnows' /\ CacheKnows'
        BY <1>1, <1>2, <3>1, <3>3, <3>4, SteppedKeeps
      <3> QED
        BY <1>3, <2>1, <3>5
    <2>2. CASE run' = [run EXCEPT !.s = States!IdleRun] /\ supplemented' = supplemented
      <3>1. IndexSame
        BY <1>1, <2>2, RunOnlySame
      <3> QED
        BY <1>3, <2>2, <3>1, IdleKeeps
    <2>3. CASE States!setCursor(States!Block.height - 1)
      <3>1. States!setCursor(At - 1) /\ At - 1 # At
        BY <1>2, <2>3
      <3> QED
        BY <1>1, <3>1, CursorSet
    <2> QED
      BY <1>4, <2>1, <2>2, <2>3 DEF States!fetchBlock
  <1>5. CASE States!passFails
    <2>1. run' = [run EXCEPT !.s = States!IdleRun] /\ supplemented' = supplemented
      BY <1>5 DEF States!passFails
    <2>2. IndexSame
      BY <1>1, <2>1, RunOnlySame
    <2> QED
      BY <1>3, <2>1, <2>2, IdleKeeps
  <1>6. CASE States!applyBlock
    <2> DEFINE f == IF States!Block.height <= States!Height THEN blocks[States!Block.height].gen ELSE -1
               p == "tx"
               t == 1
    <2>1. run' = [run EXCEPT !.s.found = f, !.s.tx = t, !.s.pc = p] /\ supplemented' = supplemented /\ run.s.pc = "rows"
      BY <1>6 DEF States!applyBlock
    <2>2. f \in Nat \cup {-1} /\ (run.s.gen = generation => f = blocks[At].gen)
      <3>1. f = IF At <= Len(blocks) THEN blocks[At].gen ELSE -1
        BY <1>2 DEF States!Height
      <3>2. At \in 1..Len(chain) /\ Len(blocks) \in Nat /\ (run.s.gen = generation => At \in 1..Len(blocks))
        BY <1>1, BlockAt DEF DInv, RowsOk
      <3>3. At <= Len(blocks) => blocks[At] \in BlockRow
        <4>1. At <= Len(blocks) => At \in 1..Len(blocks)
          BY <3>2
        <4> QED
          BY <4>1, InSeq DEF DInv, RowsOk
      <3> HIDE DEF f
      <3> QED
        BY <3>1, <3>2, <3>3 DEF BlockRow
    <2>3. p \in RunSteps /\ p = "tx" /\ p # "idle" /\ t \in Nat
      BY DEF RunSteps
    <2>4. ASSUME NEW a \in DOMAIN states, a[1] = At PROVE ~(a[2] < t)
      <3>1. IsMine(a) /\ RowsOk
        BY DEF DInv, StatesOk, StateOk
      <3>2. a[2] \in Nat /\ a[2] >= 1
        BY <3>1, IsMineIn
      <3> QED
        BY <3>2
    <2> HIDE DEF f, p, t
    <2>5. RunFields(run.s.at, p, t, run.lastLedgerParameters, f)
      BY <1>1, <2>1, <2>2, <2>3, RunFound
    <2>6. IndexSame
      BY <1>1, <2>1, RunOnlySame
    <2>7. FieldsDone
      BY <2>1 DEF FieldsDone
    <2>8. run' \in RunState /\ RunHolds' /\ RunKnows' /\ CacheKnows'
      BY <1>1, <2>2, <2>3, <2>4, <2>5, <2>6, <2>7, SteppedKeeps
    <2> QED
      BY <1>3, <2>1, <2>8
  <1> QED
    BY <1>4, <1>5, <1>6

LEMMA FieldsKeep ==
  ASSUME DInv, States!applyBlockFields
  PROVE  DInv'
  <1> DEFINE h == States!Block.height
             last == IF run.lastLedgerParameters = 0 THEN States!readParametersBelow(h) ELSE run.lastLedgerParameters
             alive == h <= States!Height /\ blocks[h].gen = States!Block.gen
             v == chain[h].params
  <1>1. /\ run.s.pc = "fields" /\ RunOnly /\ states' = states /\ current' = current /\ supplemented' = supplemented /\ run \in RunState
        /\ blocks' = IF last # v /\ alive THEN [blocks EXCEPT ![h].params = v] ELSE blocks
        /\ run' = [run EXCEPT !.lastLedgerParameters = v, !.s.pc = "rows"]
        /\ RowsOk /\ StatesOk /\ RunKnows /\ CacheKnows /\ Len(blocks) \in Nat /\ Len(blocks) <= Len(chain)
    BY DEF States!applyBlockFields, States!Supplemented, RunOnly, DInv, RowsOk
  <1>2. /\ h = At /\ At \in 1..Len(chain) /\ At \in Nat /\ supplemented < At /\ run.s.from < At /\ v \in Nat \ {0} /\ Len(chain) \in Nat
        /\ run.s.from \in Nat /\ run.s.at \in Nat /\ supplemented \in Nat
        /\ run.s.gen = generation => alive /\ At \in 1..Len(blocks)
    <2>1. run.s.pc # "idle"
      BY <1>1
    <2>2. /\ h = At /\ At \in 1..Len(chain) /\ At \in Nat /\ supplemented < At /\ run.s.from < At /\ v \in Nat \ {0} /\ Len(chain) \in Nat
          /\ run.s.from \in Nat /\ run.s.at \in Nat /\ supplemented \in Nat
      BY <2>1, BlockAt
    <2>3. ASSUME run.s.gen = generation PROVE alive /\ At \in 1..Len(blocks)
      <3>1. States!Block.gen = blocks[At].gen /\ At \in 1..Len(blocks)
        BY <2>1, <2>3, BlockAt
      <3> QED
        BY <1>1, <2>2, <3>1 DEF States!Height
    <2> QED
      BY <2>2, <2>3
  <1>3. last # v /\ alive => At \in 1..Len(blocks) /\ blocks' = [blocks EXCEPT ![At].params = v]
    BY <1>1, <1>2 DEF States!Height
  <1>4. /\ blocks' \in Seq(BlockRow) /\ Len(blocks') = Len(blocks)
        /\ \A i \in 1..Len(blocks) : /\ blocks'[i].gen = blocks[i].gen
                                     /\ i # At => blocks'[i] = blocks[i]
                                     /\ blocks'[i] = blocks[i] \/ (i = At /\ blocks'[i].params = v)
        /\ last # v /\ alive => blocks'[At].params = v
    <2>1. CASE blocks' = blocks /\ ~(last # v /\ alive)
      BY <1>1, <2>1 DEF RowsOk
    <2>2. CASE last # v /\ alive
      <3> DEFINE r == [blocks[At] EXCEPT !.params = v]
      <3>1. blocks' = [blocks EXCEPT ![At] = r] /\ At \in 1..Len(blocks) /\ blocks \in Seq(BlockRow)
        BY <1>1, <1>3, <2>2 DEF RowsOk
      <3>2. blocks[At] \in BlockRow
        BY <3>1, InSeq
      <3> HIDE DEF v
      <3>3. v \in Nat
        BY <1>2
      <3>4. r \in BlockRow /\ r.params = v /\ r.gen = blocks[At].gen
        BY <3>2, <3>3 DEF BlockRow
      <3> HIDE DEF r
      <3>5. blocks' \in Seq(BlockRow) /\ Len(blocks') = Len(blocks) /\ blocks'[At] = r /\ \A i \in 1..Len(blocks) \ {At} : blocks'[i] = blocks[i]
        BY <3>1, <3>4
      <3> QED
        BY <3>4, <3>5
    <2> QED
      BY <1>1, <2>1, <2>2
  <1> DEFINE p == "rows"
  <1>5. RunFields(run.s.at, p, run.s.tx, v, run.s.found) /\ p = "rows"
    <2>1. p \in RunSteps /\ v \in Nat /\ run' = [run EXCEPT !.lastLedgerParameters = v, !.s.pc = p]
      BY <1>1, <1>2 DEF RunSteps
    <2> HIDE DEF p, v
    <2>2. RunFields(run.s.at, p, run.s.tx, v, run.s.found)
      BY <1>1, <2>1, RunCached
    <2> QED
      BY <2>2 DEF p
  <1> HIDE DEF p
  <1>6. v = chain[At].params
    BY <1>2
  <1>7. run.s.gen = generation => alive /\ (run.lastLedgerParameters = 0 => last = IF At = 1 THEN 0 ELSE chain[At - 1].params)
                                  /\ (run.lastLedgerParameters # 0 => last = run.lastLedgerParameters)
    <2> SUFFICES ASSUME run.s.gen = generation, run.lastLedgerParameters = 0 PROVE last = IF At = 1 THEN 0 ELSE chain[At - 1].params
      BY <1>2
    <2>1. \A i \in 1..(At - 1) : Good(i)
      BY <1>1 DEF RunKnows
    <2>2. At - 1 \in 0..Len(blocks) /\ (At - 1) + 1 = At
      BY <1>1, <1>2
    <2>3. States!readParametersBelow((At - 1) + 1) = IF At - 1 = 0 THEN 0 ELSE chain[At - 1].params
      BY <1>1, <2>1, <2>2, ParametersBelow
    <2>4. last = States!readParametersBelow((At - 1) + 1)
      BY <1>2, <2>2
    <2> QED
      BY <1>2, <2>3, <2>4
  <1> HIDE DEF h, last, alive, v
  <1>8. \A i \in 1..Len(blocks) : Good(i) => Good(i)'
    BY <1>1, <1>4, <1>6 DEF Good, RunOnly
  <1>9. /\ run' \in RunState /\ run'.s.pc = "rows" /\ run'.s.from = run.s.from /\ run'.s.gen = run.s.gen /\ run'.s.list = run.s.list
        /\ run'.s.at = run.s.at /\ run'.lastLedgerParameters = v /\ run'.cachedGeneration = run.cachedGeneration
        /\ At' = At /\ FieldsDone'
    BY <1>5 DEF RunFields, At, FieldsDone
  <1>0. PICK e : e = At
    OBVIOUS
  <1>10. ASSUME run.s.gen = generation PROVE Good(e)' /\ At \in 1..Len(blocks) /\ \A i \in 1..At : Good(i)'
    <2>1. At \in 1..Len(blocks) /\ blocks[At].params \in {0, chain[At].params} /\ run.cachedGeneration = generation
      BY <1>1, <1>2, <1>10 DEF RowsOk, DInv, RunHolds
    <2>2. Good(e)'
      <3>1. CASE last # v
        BY <1>0, <1>1, <1>4, <1>6, <1>7, <1>10, <2>1, <3>1 DEF Good, RunOnly
      <3>2. CASE last = v /\ run.lastLedgerParameters = 0
        <4>1. At # 1 /\ chain[At].params = chain[At - 1].params
          BY <1>2, <1>6, <1>7, <1>10, <3>2
        <4>2. Good(At)
          BY <1>2, <2>1, <4>1 DEF Good
        <4> QED
          BY <1>0, <1>8, <2>1, <4>2
      <3>3. CASE last = v /\ run.lastLedgerParameters # 0
        <4>1. PICK k \in 1..Len(blocks) : CacheAt(k)
          BY <1>1, <2>1, <3>3 DEF CacheKnows
        <4>2. k \in Nat /\ chain[k].params = chain[At].params /\ k >= At - 1 /\ k >= 1 /\ \A i \in 1..k : Good(i)
          BY <1>1, <1>6, <1>7, <1>10, <3>3, <4>1 DEF CacheAt
        <4>3. CASE k >= At
          BY <1>0, <1>2, <1>8, <2>1, <4>2, <4>3
        <4>4. CASE k = At - 1
          <5>1. Good(At)
            BY <1>2, <2>1, <4>2, <4>4 DEF Good
          <5> QED
            BY <1>0, <1>8, <2>1, <5>1
        <4> QED
          BY <1>2, <4>2, <4>3, <4>4
      <3> QED
        BY <3>1, <3>2, <3>3
    <2>3. \A i \in 1..(At - 1) : Good(i)
      BY <1>1, <1>10 DEF RunKnows
    <2>4. ASSUME NEW i \in 1..At PROVE Good(i)'
      <3>1. i = At \/ (i \in 1..(At - 1) /\ i \in 1..Len(blocks))
        BY <1>2, <2>1
      <3> QED
        BY <1>0, <1>8, <2>2, <2>3, <3>1
    <2> QED
      BY <2>1, <2>2, <2>4
  <1>11. RowsOk'
    <2>1. ASSUME NEW i \in 1..Len(blocks') PROVE blocks'[i].params \in {0, chain'[i].params}
      BY <1>1, <1>4, <1>6 DEF RowsOk, RunOnly
    <2> QED
      BY <1>1, <1>4, <2>1 DEF RowsOk, RunOnly
  <1>12. StatesOk'
    <2>1. \A a : (Applied(a)' <=> Applied(a)) /\ (StateOk(a)' <=> StateOk(a)) /\ (States!SameCount(a)' <=> States!SameCount(a))
      BY <1>1, <1>4 DEF RunOnly, Applied, StateOk, IsMine, States!SameCount
    <2>2. IsRow(current)'
      BY <1>1 DEF StatesOk, IsRow
    <2>3. \A i \in 1..supplemented' : Good(i)'
      <3>1. \A i \in 1..supplemented : Good(i) /\ i \in 1..Len(blocks)
        BY <1>1 DEF StatesOk, RowsOk
      <3> QED
        BY <1>1, <1>8, <3>1
    <2> QED
      BY <1>1, <2>1, <2>2, <2>3 DEF StatesOk
  <1>13. RunHolds'
    BY <1>1, <1>9 DEF DInv, RunHolds, RunOnly
  <1>14. RunKnows'
    <2> SUFFICES ASSUME run.s.gen = generation PROVE RunKnows'
      BY <1>1, <1>9 DEF RunKnows, RunOnly
    <2>1. \A a : (Applied(a)' <=> Applied(a)) /\ (States!SameCount(a)' <=> States!SameCount(a))
      BY <1>1 DEF RunOnly, Applied, States!SameCount
    <2>2. \A k \in 1..Len(run'.s.list) : run'.s.list[k].gen = blocks'[run'.s.from + k].gen
      <3>1. run.s.from + Len(run.s.list) <= Len(blocks) /\ Len(run.s.list) \in Nat
        BY <1>1, RunAt DEF DInv
      <3>2. ASSUME NEW k \in 1..Len(run.s.list) PROVE run.s.from + k \in 1..Len(blocks)
        BY <1>1, <1>2, <3>1, Within
      <3> QED
        BY <1>1, <1>4, <1>9, <3>2 DEF RunKnows
    <2>3. \A i \in 1..(At' - 1) : Good(i)'
      BY <1>2, <1>9, <1>10
    <2>4. supplemented' = run'.s.from /\ run'.s.from + Len(run'.s.list) <= Len(blocks')
      BY <1>1, <1>4, <1>9 DEF RunKnows
    <2>5. \A a \in DOMAIN states' :
              (run'.s.from < a[1] /\ a[1] < At') \/ (run'.s.pc = "tx" /\ a[1] = At' /\ a[2] < run'.s.tx)
                  => Applied(a)' /\ (States!SameCount(a)' => states'[a].full = StateHistory)
      BY <1>1, <1>9, <2>1 DEF RunKnows
    <2> QED
      BY <1>9, <1>10, <2>2, <2>3, <2>4, <2>5 DEF RunKnows
  <1>15. CacheKnows'
    <2>1. run.cachedGeneration = run.s.gen
      BY <1>1 DEF DInv, RunHolds
    <2>2. ASSUME run.s.gen = generation PROVE CacheAt(At)' /\ At \in 1..Len(blocks')
      BY <1>1, <1>2, <1>4, <1>6, <1>9, <1>10, <2>2 DEF CacheAt, RunOnly
    <2> QED
      BY <1>1, <1>9, <2>1, <2>2 DEF CacheKnows, RunOnly
  <1>16. ReadKnows'
    BY <1>1, <1>4, ReadStays DEF DInv, RunOnly
  <1> QED
    BY <1>9, <1>11, <1>12, <1>13, <1>14, <1>15, <1>16 DEF DInv
LEMMA NextBlockKeeps ==
  ASSUME DInv, States!nextBlock
  PROVE  DInv'
  <1>1. /\ run.s.pc = "tx" /\ run.s.pc # "idle" /\ RunOnly /\ blocks' = blocks /\ states' = states /\ current' = current /\ run \in RunState
        /\ RowsOk /\ FieldsDone
    BY DEF States!nextBlock, States!Supplemented, RunOnly, DInv, RowsOk, FieldsDone
  <1>2. /\ run.s.tx \in Nat /\ States!Block.height = At /\ At \in Nat /\ run.s.from \in Nat /\ run.s.at \in Nat /\ Len(chain[At].txs) \in Nat
        /\ run.s.from < At
    BY <1>1, BlockAt, RunParts
  <1>3. run.s.tx > Len(chain[At].txs)
    BY <1>2 DEF States!nextBlock
  <1>4. CASE States!setCursor(States!Block.height)
    <2>1. States!setCursor(At)
      BY <1>2, <1>4
    <2> QED
      BY <1>1, <1>3, <2>1, CursorSet
  <1>5. CASE run.s.at < Len(run.s.list) /\ run' = [run EXCEPT !.s.at = @ + 1, !.s.pc = "fetch"] /\ supplemented' = supplemented
    <2> DEFINE p == "fetch"
    <2>1. p \in RunSteps /\ p \notin {"idle", "rows", "tx"} /\ run' = [run EXCEPT !.s.at = @ + 1, !.s.pc = p]
      BY <1>5 DEF RunSteps
    <2> HIDE DEF p
    <2>2. RunFields(run.s.at + 1, p, run.s.tx, run.lastLedgerParameters, run.s.found)
      BY <1>1, <2>1, RunNextBlock
    <2>3. /\ run' \in RunState /\ run'.s.pc = p /\ run'.s.from = run.s.from /\ run'.s.gen = run.s.gen /\ run'.s.list = run.s.list
          /\ run'.s.at = run.s.at + 1 /\ run'.s.tx = run.s.tx /\ run'.lastLedgerParameters = run.lastLedgerParameters
          /\ run'.cachedGeneration = run.cachedGeneration
      BY <2>2 DEF RunFields
    <2>4. IndexSame
      BY <1>1, <1>5, RunOnlySame
    <2>5. At' = At + 1 /\ ~FieldsDone'
      BY <1>2, <2>1, <2>3 DEF At, FieldsDone
    <2>6. \A i : Good(i)' <=> Good(i)
      BY <2>4 DEF IndexSame, Good
    <2>7. \A a : (Applied(a)' <=> Applied(a)) /\ (States!SameCount(a)' <=> States!SameCount(a))
      BY <2>4 DEF IndexSame, Applied, States!SameCount
    <2>8. RunHolds'
      <3>1. run.s.at \in 1..Len(run.s.list) /\ Len(run.s.list) \in Nat
        BY <1>1, RunParts DEF DInv, RunHolds
      <3>2. run.s.at + 1 \in 1..Len(run.s.list)
        BY <1>2, <1>5, <3>1
      <3> QED
        BY <1>1, <2>3, <2>4, <3>2 DEF DInv, RunHolds, IndexSame
    <2>9. RunKnows'
      <3> SUFFICES ASSUME run.s.gen = generation PROVE RunKnows'
        BY <2>3, <2>4 DEF RunKnows, IndexSame
      <3>1. RunKnows
        BY DEF DInv
      <3>2. \A i \in 1..(At' - 1) : Good(i)'
        <4>1. ASSUME NEW i \in 1..(At' - 1) PROVE i = At \/ i \in 1..(At - 1)
          BY <1>2, <2>5
        <4> QED
          BY <1>1, <2>6, <3>1, <4>1 DEF RunKnows
      <3>3. ASSUME NEW a \in DOMAIN states', run'.s.from < a[1], a[1] < At'
            PROVE  Applied(a)' /\ (States!SameCount(a)' => states'[a].full = StateHistory)
        <4>1. a \in DOMAIN states
          BY <2>4 DEF IndexSame
        <4>2. IsMine(a)
          BY <4>1 DEF DInv, StatesOk, StateOk
        <4>3. a[1] \in Nat /\ a[2] \in Nat /\ a[2] <= Len(chain[a[1]].txs)
          BY <1>1, <4>2, IsMineIn DEF IsMine
        <4>4. (run.s.from < a[1] /\ a[1] < At) \/ (run.s.pc = "tx" /\ a[1] = At /\ a[2] < run.s.tx)
          BY <1>1, <1>2, <1>3, <2>3, <2>5, <3>3, <4>3
        <4>5. Applied(a) /\ (States!SameCount(a) => states[a].full = StateHistory)
          BY <1>1, <3>1, <4>1, <4>4 DEF RunKnows
        <4> QED
          BY <2>4, <2>7, <4>5 DEF IndexSame
      <3> QED
        BY <1>1, <2>1, <2>3, <2>4, <2>5, <3>1, <3>2, <3>3 DEF RunKnows, IndexSame
    <2>10. CacheKnows'
      <3>1. ASSUME NEW k \in 1..Len(blocks), CacheAt(k) PROVE CacheAt(k)'
        BY <1>1, <1>2, <2>3, <2>4, <2>5, <2>6, <3>1 DEF CacheAt, IndexSame
      <3> QED
        BY <2>3, <2>4, <3>1 DEF DInv, CacheKnows, IndexSame
    <2> QED
      BY <1>1, <2>3, <2>4, <2>8, <2>9, <2>10, IndexStays, ReaderStays DEF DInv, RunOnly
  <1> QED
    BY <1>4, <1>5 DEF States!nextBlock
\* the stored current state after an action's state
LEMMA UpsertIs ==
  ASSUME IsRow(current), NEW a \in Triple, NEW g \in Nat, NEW c, c = States!upsertCurrentState(current, a, g)
  PROVE  /\ IsRow(c) /\ c.height >= a[1] /\ c.height >= current.height /\ (c = current \/ c.height = a[1])
         /\ a[1] \in Nat /\ current.height \in Nat /\ c.height \in Nat
         /\ c = current => current.height > a[1] \/ c.height = a[1]
  <1>1. a[1] \in Nat /\ current \in CurrentRow /\ current.height \in Nat
    BY DEF Triple, IsRow, CurrentRow
  <1>2. CASE current.height > a[1]
    BY <1>1, <1>2 DEF States!upsertCurrentState
  <1>3. CASE ~(current.height > a[1])
    <2> DEFINE n == a[1]
    <2>1. c = [height |-> n, action |-> a, gen |-> g, state |-> a] /\ n \in Nat /\ n = a[1]
      BY <1>1, <1>3 DEF States!upsertCurrentState
    <2> HIDE DEF n
    <2>2. c \in CurrentRow /\ c.height = n /\ c.state = a /\ c.action = a
      BY <2>1 DEF CurrentRow
    <2> QED
      BY <1>1, <1>3, <2>1, <2>2 DEF IsRow
  <1> QED
    BY <1>2, <1>3

LEMMA CompactKeeps ==
  ASSUME DInv, States!compactStoredContractState
  PROVE  DInv'
  <1> DEFINE full == {a \in DOMAIN states : states[a].full}
             n == States!Newest(full)
             g == blocks[n[1]].gen
  <1>1. /\ run.s.pc = "idle" /\ full # {} /\ current' = States!upsertCurrentState(current, n, g)
        /\ states' = [a \in DOMAIN states |-> [states[a] EXCEPT !.full = FALSE]]
        /\ blocks' = blocks /\ supplemented' = supplemented /\ failures' = failures /\ run' = run /\ RunOnly
        /\ RowsOk /\ StatesOk /\ Len(blocks) \in Nat /\ supplemented \in Nat /\ RunHolds /\ CacheKnows /\ ReadKnows /\ run \in RunState
    BY DEF States!compactStoredContractState, States!Supplemented, RunOnly, DInv, RowsOk
  <1>2. \A a \in DOMAIN states : StateOk(a) /\ IsMine(a) /\ states[a] \in StateRow /\ a[1] <= Len(blocks) /\ a \in Triple /\ a[1] \in Nat /\ a[1] >= 1
    <2>1. ASSUME NEW a \in DOMAIN states PROVE StateOk(a) /\ IsMine(a) /\ states[a] \in StateRow /\ a[1] <= Len(blocks) /\ a \in Triple /\ a[1] \in 1..Len(chain)
      BY <1>1 DEF StatesOk, StateOk, IsMine
    <2> QED
      BY <2>1
  <1>3. n \in full /\ \A b \in full : n[1] >= b[1]
    BY <1>1, <1>2, NewestMine
  <1>4. n \in DOMAIN states /\ states[n].full /\ n \in Triple /\ n[1] \in Nat /\ n[1] \in 1..Len(blocks) /\ g \in Nat
    <2>1. n \in DOMAIN states /\ states[n].full /\ n \in Triple /\ n[1] \in Nat /\ n[1] \in 1..Len(blocks)
      BY <1>1, <1>2, <1>3
    <2>2. blocks[n[1]] \in BlockRow
      BY <1>1, <2>1, InSeq DEF RowsOk
    <2> QED
      BY <2>1, <2>2 DEF BlockRow
  <1>5. \A a \in DOMAIN states : states[a].full => n[1] >= a[1]
    BY <1>3
  <1> HIDE DEF full, n, g
  <1>6. IsRow(current') /\ current'.height >= n[1] /\ current'.height >= current.height /\ current.height \in Nat /\ current'.height \in Nat
    BY <1>1, <1>4, UpsertIs DEF StatesOk
  <1>7. \A a \in DOMAIN states : states'[a].hash = states[a].hash /\ states'[a].full = FALSE /\ states'[a] \in StateRow
    <2>1. ASSUME NEW r \in StateRow PROVE [r EXCEPT !.full = FALSE] \in StateRow /\ [r EXCEPT !.full = FALSE].hash = r.hash /\ [r EXCEPT !.full = FALSE].full = FALSE
      <3> DEFINE b == FALSE
      <3>1. b \in BOOLEAN /\ b = FALSE
        OBVIOUS
      <3> HIDE DEF b
      <3>2. [r EXCEPT !.full = b] \in StateRow /\ [r EXCEPT !.full = b].hash = r.hash /\ [r EXCEPT !.full = b].full = b
        BY <3>1 DEF StateRow
      <3> QED
        BY <3>1, <3>2
    <2> QED
      BY <1>1, <1>2, <2>1
  <1>8. DOMAIN states' = DOMAIN states /\ \A a : States!SameCount(a)' <=> States!SameCount(a)
    BY <1>1 DEF States!SameCount, RunOnly
  <1>9. RowsOk'
    BY <1>1 DEF RowsOk, RunOnly
  <1>10. ASSUME NEW a \in DOMAIN states, a[1] <= supplemented PROVE Applied(a)'
    <2>1. Applied(a)
      BY <1>1, <1>10 DEF StatesOk
    <2>2. States!SameCount(a) => states[a].full \/ n[1] >= a[1]
      BY <1>1, <1>4, <1>10 DEF StatesOk
    <2>3. a[1] \in Nat /\ states'[a].hash = states[a].hash /\ (States!SameCount(a)' <=> States!SameCount(a))
      BY <1>2, <1>7, <1>8
    <2>4. States!SameCount(a) => states[a].hash = a /\ current'.height >= a[1]
      <3>1. States!SameCount(a) => n[1] >= a[1]
        BY <1>5, <2>2
      <3> QED
        BY <1>4, <1>6, <2>1, <2>3, <3>1 DEF Applied
    <2> QED
      BY <2>3, <2>4 DEF Applied
  <1>11. StatesOk'
    <2>1. states' = [a \in DOMAIN states' |-> states'[a]]
      BY <1>1
    <2>2. ASSUME NEW a \in DOMAIN states' PROVE StateOk(a)'
      BY <1>1, <1>2, <1>7, <1>8, <2>2 DEF StateOk, IsMine, RunOnly
    <2>3. IsRow(current)'
      BY <1>6 DEF IsRow
    <2>4. \A i \in 1..supplemented' : Good(i)'
      BY <1>1 DEF StatesOk, Good, RunOnly
    <2>5. ASSUME NEW a \in DOMAIN states' PROVE ~states'[a].full
      BY <1>7, <1>8
    <2> QED
      BY <1>1, <1>8, <1>10, <2>1, <2>2, <2>3, <2>4, <2>5 DEF StatesOk
  <1>12. RunHolds' /\ RunKnows'
    BY <1>1 DEF RunHolds, RunKnows
  <1>13. CacheKnows'
    <2>1. \A k : CacheAt(k) => CacheAt(k)'
      BY <1>1 DEF CacheAt, Good, RunOnly, FieldsDone, At
    <2> QED
      BY <1>1, <2>1 DEF CacheKnows, RunOnly
  <1>14. ReadKnows'
    BY <1>1, <1>8, ReadStays DEF RunOnly
  <1> QED
    BY <1>1, <1>9, <1>11, <1>12, <1>13, <1>14 DEF DInv
LEMMA ApplyKeeps ==
  ASSUME DInv, States!applyContractState
  PROVE  DInv'
  <1> DEFINE i == run.s.tx
             alive == At <= Len(blocks) /\ blocks[At].gen = run.s.found
             mine == {a \in States!Mine(At) : a[2] = i}
             applies == alive /\ mine # {} /\ States!paired(At, i)
             n == States!Newest(mine)
             f == run.s.found
  <1>1. /\ run.s.pc = "tx" /\ run.s.pc # "idle" /\ RunOnly /\ blocks' = blocks /\ supplemented' = supplemented /\ run \in RunState
        /\ RowsOk /\ StatesOk /\ RunHolds /\ RunKnows /\ CacheKnows /\ ReadKnows /\ Len(blocks) \in Nat /\ FieldsDone
        /\ run' = [run EXCEPT !.s.tx = @ + 1]
    BY DEF States!applyContractState, States!Supplemented, RunOnly, DInv, RowsOk, FieldsDone
  <1>2. /\ run.s.tx \in Nat /\ States!Block.height = At /\ At \in Nat /\ At \in 1..Len(chain) /\ run.s.from \in Nat /\ run.s.from < At
        /\ Len(chain[At].txs) \in Nat /\ supplemented < At /\ supplemented \in Nat
        /\ (run.s.gen = generation => At \in 1..Len(blocks))
    BY <1>1, BlockAt, RunParts
  <1>3. /\ states' = IF applies THEN [a \in DOMAIN states |-> IF a \in mine THEN [hash |-> a, full |-> StateHistory] ELSE states[a]] ELSE states
        /\ current' = IF applies THEN States!upsertCurrentState(current, n, f) ELSE current
    BY <1>2 DEF States!applyContractState, States!Height
  <1>4. \A a \in mine : IsMine(a) /\ a \in Triple /\ a[1] = At /\ a[2] = i /\ (States!SameCount(a) <=> States!paired(At, i))
    <2>1. ASSUME NEW a \in mine PROVE IsMine(a) /\ a[1] = At /\ a[2] = i
      BY <1>1, <1>2, MineIs
    <2> QED
      BY <2>1 DEF IsMine, States!SameCount, States!paired
  <1>5. ASSUME applies PROVE n \in mine /\ f \in Nat /\ n[1] = At /\ n \in Triple
    <2>1. n \in mine
      BY <1>1, <1>4, <1>5, NewestMine
    <2>2. At \in 1..Len(blocks)
      BY <1>1, <1>2, <1>5
    <2>3. blocks[At] \in BlockRow
      BY <1>1, <2>2, InSeq DEF RowsOk
    <2> QED
      BY <1>4, <1>5, <2>1, <2>3 DEF BlockRow
  <1>6. \A a : a \in mine <=> a \in States!Mine(At) /\ a[2] = i
    OBVIOUS
  <1>7. run.s.gen = generation => alive
    BY <1>1, <1>2 DEF RunKnows
  <1>8. applies <=> alive /\ mine # {} /\ States!paired(At, i)
    OBVIOUS
  <1> HIDE DEF mine, n, f, alive, applies
  <1>9. ASSUME NEW a \in DOMAIN states
        PROVE  StateOk(a) /\ IsMine(a) /\ states[a] \in StateRow /\ a \in Triple /\ a[1] \in Nat /\ a[2] \in Nat /\ a \in States!Mine(a[1])
    <2>1. StateOk(a) /\ IsMine(a) /\ states[a] \in StateRow /\ a \in Triple /\ a[1] \in 1..Len(chain)
      BY <1>1 DEF StatesOk, StateOk, IsMine
    <2> QED
      BY <1>1, <2>1, IsMineIn
  <1>10. /\ DOMAIN states' = DOMAIN states /\ states' = [a \in DOMAIN states' |-> states'[a]]
         /\ \A a \in DOMAIN states : /\ applies /\ a \in mine => states'[a] = [hash |-> a, full |-> StateHistory]
                                     /\ ~(applies /\ a \in mine) => states'[a] = states[a]
    <2>1. CASE applies
      BY <1>3, <2>1
    <2>2. CASE ~applies
      BY <1>1, <1>3, <2>2 DEF StatesOk
    <2> QED
      BY <2>1, <2>2
  <1>11. /\ IsRow(current') /\ current'.height >= current.height /\ current.height \in Nat /\ current'.height \in Nat
         /\ applies => current'.height >= At
         /\ ~applies => current' = current
    <2>1. IsRow(current) /\ current.height \in Nat
      BY <1>1 DEF StatesOk, IsRow, CurrentRow
    <2>2. CASE applies
      <3>1. n \in Triple /\ f \in Nat /\ current' = States!upsertCurrentState(current, n, f) /\ n[1] = At
        BY <1>3, <1>5, <2>2
      <3> QED
        BY <2>1, <2>2, <3>1, UpsertIs
    <2>3. CASE ~applies
      BY <1>3, <2>1, <2>3
    <2> QED
      BY <2>2, <2>3
  <1>12. \A a : States!SameCount(a)' <=> States!SameCount(a)
    BY <1>1 DEF States!SameCount, RunOnly
  <1>13. StateHistory \in BOOLEAN /\ \A a \in mine : applies => States!SameCount(a)
    BY <1>4, <1>8, StateAssumption DEF StateAssumption
  <1>14. ASSUME NEW a \in DOMAIN states, a[1] <= At, Applied(a) PROVE Applied(a)'
    <2>1. States!SameCount(a) => states'[a].hash = a
      BY <1>10, <1>14 DEF Applied
    <2>2. States!SameCount(a) /\ current' # States!NoState => current'.height >= a[1]
      <3>1. CASE applies
        BY <1>2, <1>9, <1>11, <1>14, <3>1
      <3>2. CASE ~applies
        BY <1>11, <1>14, <3>2 DEF Applied
      <3> QED
        BY <3>1, <3>2
    <2> QED
      BY <1>12, <2>1, <2>2 DEF Applied
  <1>15. RowsOk'
    BY <1>1 DEF RowsOk, RunOnly
  <1>16. StatesOk'
    <2>1. ASSUME NEW a \in DOMAIN states' PROVE StateOk(a)'
      <3>1. CASE applies /\ a \in mine
        <4>1. StateOk(a) /\ IsMine(a) /\ a \in Triple
          BY <1>9, <1>10
        <4>2. states'[a].hash = a /\ states'[a].full = StateHistory /\ states'[a] \in StateRow
          BY <1>10, <1>13, <3>1, <4>1 DEF StateRow
        <4> QED
          BY <1>1, <1>12, <1>13, <3>1, <4>1, <4>2 DEF StateOk, IsMine, RunOnly
      <3>2. CASE ~(applies /\ a \in mine)
        <4>1. StateOk(a) /\ states'[a] = states[a]
          BY <1>9, <1>10, <3>2
        <4> QED
          BY <1>1, <1>12, <4>1 DEF StateOk, IsMine, RunOnly
      <3> QED
        BY <3>1, <3>2
    <2>2. IsRow(current)'
      BY <1>11 DEF IsRow
    <2>3. \A k \in 1..supplemented' : Good(k)'
      BY <1>1 DEF StatesOk, Good, RunOnly
    <2>4. ASSUME NEW a \in DOMAIN states', a[1] <= supplemented' PROVE Applied(a)'
      <3>1. a \in DOMAIN states /\ a[1] <= At /\ Applied(a)
        BY <1>1, <1>2, <1>9, <1>10, <2>4 DEF StatesOk
      <3> QED
        BY <1>14, <3>1
    <2>5. ASSUME NEW a \in DOMAIN states', NEW b \in DOMAIN states', states'[a].full, b[1] <= supplemented', States!SameCount(b)', ~states'[b].full
          PROVE  a[1] >= b[1]
      <3>1. a \in DOMAIN states /\ b \in DOMAIN states /\ b[1] < At /\ a[1] \in Nat /\ b[1] \in Nat /\ b \notin mine
        BY <1>1, <1>2, <1>4, <1>9, <1>10, <2>5
      <3>2. CASE applies /\ a \in mine
        BY <1>2, <1>4, <3>1, <3>2
      <3>3. CASE ~(applies /\ a \in mine)
        BY <1>1, <1>10, <1>12, <2>5, <3>1, <3>3 DEF StatesOk
      <3> QED
        BY <3>2, <3>3
    <2> QED
      BY <1>10, <2>1, <2>2, <2>3, <2>4, <2>5 DEF StatesOk
  <1>17. /\ run' \in RunState /\ run'.s.pc = run.s.pc /\ run'.s.from = run.s.from /\ run'.s.gen = run.s.gen /\ run'.s.list = run.s.list
         /\ run'.s.at = run.s.at /\ run'.s.tx = run.s.tx + 1 /\ run'.lastLedgerParameters = run.lastLedgerParameters
         /\ run'.s.found = run.s.found /\ run'.cachedGeneration = run.cachedGeneration /\ At' = At /\ FieldsDone' = FieldsDone
    <2>1. RunFields(run.s.at, run.s.pc, run.s.tx + 1, run.lastLedgerParameters, run.s.found)
      BY <1>1, RunNextTx
    <2> QED
      BY <2>1 DEF RunFields, At, FieldsDone
  <1>18. RunHolds'
    BY <1>1, <1>17 DEF RunHolds, RunOnly
  <1>19. RunKnows'
    <2> SUFFICES ASSUME run.s.gen = generation PROVE RunKnows'
      BY <1>1, <1>17 DEF RunKnows, RunOnly
    <2>1. ASSUME NEW a \in DOMAIN states',
                 (run'.s.from < a[1] /\ a[1] < At') \/ (run'.s.pc = "tx" /\ a[1] = At' /\ a[2] < run'.s.tx)
          PROVE  Applied(a)' /\ (States!SameCount(a)' => states'[a].full = StateHistory)
      <3>1. a \in DOMAIN states /\ a[1] \in Nat /\ a[2] \in Nat /\ a \in States!Mine(a[1]) /\ a[1] <= At
        BY <1>2, <1>9, <1>10, <1>17, <2>1
      <3>2. CASE a[1] = At /\ a[2] = i
        <4>1. a \in mine
          BY <1>6, <3>1, <3>2
        <4>2. States!SameCount(a) => applies
          BY <1>4, <1>7, <1>8, <4>1
        <4>3. applies => states'[a].hash = a /\ states'[a].full = StateHistory
          BY <1>10, <3>1, <4>1
        <4>4. applies => current'.height >= a[1]
          BY <1>11, <3>2
        <4> QED
          BY <1>12, <4>2, <4>3, <4>4 DEF Applied
      <3>3. CASE ~(a[1] = At /\ a[2] = i)
        <4>1. a \notin mine
          BY <1>4, <3>3
        <4>2. (run.s.from < a[1] /\ a[1] < At) \/ (a[1] = At /\ a[2] < run.s.tx)
          BY <1>2, <1>17, <2>1, <3>1, <3>3
        <4>3. Applied(a) /\ (States!SameCount(a) => states[a].full = StateHistory)
          BY <1>1, <3>1, <4>2 DEF RunKnows
        <4>4. Applied(a)'
          BY <1>14, <3>1, <4>3
        <4> QED
          BY <1>10, <1>12, <3>1, <4>1, <4>3, <4>4
      <3> QED
        BY <3>2, <3>3
    <2>2. \A k : Good(k)' <=> Good(k)
      BY <1>1 DEF Good, RunOnly
    <2> QED
      BY <1>1, <1>17, <2>1, <2>2 DEF RunKnows, RunOnly
  <1>20. CacheKnows'
    <2>1. \A k : CacheAt(k) => CacheAt(k)'
      <3>1. \A k : Good(k)' <=> Good(k)
        BY <1>1 DEF Good, RunOnly
      <3> QED
        BY <1>1, <1>17, <3>1 DEF CacheAt, RunOnly
    <2> QED
      BY <1>1, <1>17, <2>1 DEF CacheKnows, RunOnly
  <1>21. ReadKnows'
    BY <1>1, <1>10, ReadStays DEF RunOnly
  <1> QED
    BY <1>15, <1>16, <1>17, <1>18, <1>19, <1>20, <1>21 DEF DInv
-----------------------------------------------------------------------------
LEMMA DInvInit == States!StateInit => DInv
  <1> SUFFICES ASSUME States!StateInit PROVE DInv
    OBVIOUS
  <1>1. /\ chain \in StateChains /\ ixHeight = 0 /\ blocks = <<>> /\ states = [a \in {} |-> States!NoAction] /\ current = States!NoState
        /\ supplemented = 0 /\ generation = 0 /\ read = States!IdleRead /\ failures = 0
        /\ run = [s |-> States!IdleRun, lastLedgerParameters |-> 0, cachedGeneration |-> -1]
    BY DEF States!StateInit
  <1>2. chain \in Seq(ChainBlock) /\ Len(chain) \in Nat
    BY <1>1, StateAssumption DEF StateAssumption, ChainBlock
  <1>3. RowsOk
    BY <1>1, <1>2 DEF RowsOk
  <1>4. StatesOk
    <2>1. DOMAIN states = {} /\ states = [a \in DOMAIN states |-> states[a]]
      BY <1>1
    <2>2. IsRow(current)
      BY <1>1, NoStateIs
    <2> QED
      BY <1>1, <2>1, <2>2 DEF StatesOk
  <1>5. run \in RunState /\ run.s.pc = "idle" /\ run.lastLedgerParameters = 0 /\ run.cachedGeneration = -1
    <2> DEFINE r == States!IdleRun
               z == 0
               c == -1
    <2>1. r \in RunRecord /\ r.pc = "idle"
      BY IdleRunIs
    <2>2. z \in Nat /\ c \in Nat \cup {-1} /\ run = [s |-> r, lastLedgerParameters |-> z, cachedGeneration |-> c] /\ z = 0 /\ c = -1
      BY <1>1
    <2> HIDE DEF r, z, c
    <2> QED
      BY <2>1, <2>2 DEF RunState
  <1>6. RunHolds /\ RunKnows /\ CacheKnows
    BY <1>1, <1>5 DEF RunHolds, RunKnows, CacheKnows
  <1>7. read \in ReadRecord /\ read.pc = "idle" /\ IsRow(read.row) /\ read.gen = 0
    <2> DEFINE z == 0
               n == <<0, 0, 0>>
               a == [kind |-> "none", height |-> 0, state |-> n, verified |-> "null"]
               p == "idle"
               w == States!NoState
    <2>1. read = [pc |-> p, height |-> z, row |-> w, newest |-> n, stale |-> z, gen |-> z, known |-> z, fetched |-> n, answer |-> a]
      BY <1>1 DEF States!IdleRead, States!NoAction, States!NoAnswer
    <2>2. z \in Nat /\ n \in Triple /\ p \in ReadSteps /\ p = "idle" /\ z = 0 /\ w \in CurrentRow /\ IsRow(w)
      BY NoStateIs DEF Triple, ReadSteps
    <2>3. a \in AnswerRecord
      BY <2>2 DEF AnswerRecord
    <2> HIDE DEF z, n, a, p, w
    <2> QED
      BY <2>1, <2>2, <2>3 DEF ReadRecord
  <1>8. ReadKnows
    BY <1>1, <1>7 DEF ReadKnows, States!ServedStateIsNotOlder
  <1> QED
    BY <1>3, <1>4, <1>5, <1>6, <1>8 DEF DInv

LEMMA DInvNext == DInv /\ (States!StateNext \/ UNCHANGED stateVars) => DInv'
  <1> SUFFICES ASSUME DInv, States!StateNext \/ UNCHANGED stateVars PROVE DInv'
    OBVIOUS
  <1>1. ASSUME NEW from \in 1..States!Height, States!rollbackIndexedDataFromHeight(from) PROVE DInv'
    BY <1>1, RollbackKeeps DEF States!Height
  <1>2. ASSUME NEW height \in 0..Len(chain), States!contractStateAt(height) PROVE DInv'
    BY <1>2, AskKeeps
  <1> QED
    BY <1>1, <1>2, PersistKeeps, IndexerKeeps, RunOnceKeeps, FetchKeeps, FieldsKeep, ApplyKeeps, NextBlockKeeps, CompactKeeps, ReaderKeeps
       DEF States!StateNext

LEMMA DInvImplies == DInv => States!SupplementIsTrue /\ States!ServedStateIsNotOlder
  <1> SUFFICES ASSUME DInv PROVE States!SupplementIsTrue /\ States!ServedStateIsNotOlder
    OBVIOUS
  <1>1. RowsOk /\ StatesOk /\ ReadKnows /\ supplemented \in Nat /\ Len(blocks) \in Nat /\ supplemented <= Len(blocks)
    BY DEF DInv, RowsOk
  <1>2. ASSUME NEW i \in 1..supplemented PROVE States!readParametersBelow(i + 1) = chain[i].params
    <2>1. i \in 0..Len(blocks) /\ i # 0 /\ \A k \in 1..i : Good(k)
      BY <1>1 DEF StatesOk
    <2> QED
      BY <1>1, <2>1, ParametersBelow
  <1>3. \A a \in DOMAIN states : states[a].hash = States!NoAction \/ (states[a].hash = a /\ States!SameCount(a))
    BY <1>1 DEF StatesOk, StateOk
  <1>4. \A a \in States!StoredUpTo(supplemented) : States!SameCount(a) => states[a].hash = a /\ (current # States!NoState => current.height >= a[1])
    BY <1>1 DEF States!StoredUpTo, StatesOk, Applied
  <1> QED
    BY <1>1, <1>2, <1>3, <1>4 DEF States!SupplementIsTrue, ReadKnows

StatePart == part = "states" => DInv

\* A run keeps what it has stored apart from what rollbacks take away, and the reader what it asked for.
LEMMA StatePartAlways == Spec => []StatePart
  <1>1. Init => StatePart
    BY DInvInit DEF Init, StatePart
  <1>2. StatePart /\ [Next]_vars => StatePart'
    <2> SUFFICES ASSUME StatePart, [Next]_vars PROVE StatePart'
      OBVIOUS
    <2>1. CASE UNCHANGED <<part, stateVars>>
      BY <2>1, DInvNext DEF StatePart, stateVars
    <2>2. CASE Only("states") /\ States!StateNext
      BY <2>2, DInvNext DEF StatePart, Only
    <2>3. CASE part # "states" /\ part' = part
      BY <2>3 DEF StatePart
    <2>4. part = "states" /\ Next => Only("states") /\ States!StateNext
      BY DEF Next, Only
    <2>5. Next => part' = part
      BY DEF Next, Only
    <2>6. UNCHANGED vars => UNCHANGED <<part, stateVars>>
      BY DEF vars
    <2> QED
      BY <2>1, <2>2, <2>3, <2>4, <2>5, <2>6
  <1> QED
    BY <1>1, <1>2, PTL DEF Spec

\* Whatever rollbacks, failed runs and new blocks come between the steps of a run: up to its cursor the stored parameters are the
\* chain's, and a stored state is that of its own action; one whose actions the indexer counts otherwise never has one.
THEOREM SupplementIsTrueAlways == Spec => []SupplementIsTrue
  <1>1. StatePart => SupplementIsTrue
    BY DInvImplies DEF StatePart, SupplementIsTrue
  <1> QED
    BY <1>1, StatePartAlways, PTL

\* For any chain, however far the indexer is: the current state that is served is not older than the newest action stored when it
\* was asked for, and the state at a covered height is that of its newest action, unless a rollback came between.
THEOREM ServedStateIsNotOlderAlways == Spec => []ServedStateIsNotOlder
  <1>1. StatePart => ServedStateIsNotOlder
    BY DInvImplies DEF StatePart, ServedStateIsNotOlder
  <1> QED
    BY <1>1, StatePartAlways, PTL
=============================================================================
