----------------------------- MODULE InstanceLease -----------------------------
(***************************************************************************)
(* Start, lease and stop of the processes on one database (src/index.ts,    *)
(* utils/instance-lease.ts, runtime-gate.ts, runtime-topology.ts). A process *)
(* checks its configuration, takes the lease row, recovers what the last     *)
(* process left, and only then starts the job loop and the crawler. The      *)
(* statements on the lease row are separate and interleave.                  *)
(***************************************************************************)
EXTENDS Integers, FiniteSets

CONSTANTS
    Procs,      \* processes pointed at the database
    Replicas,   \* replica counts a process may be configured with
    TTL,        \* seconds after which an unrefreshed lease may be taken over
    MaxNow      \* bound: seconds that pass

VARIABLES
    row,     \* the lease row: holder and last refresh, or NoRow
    proc,    \* each process: phase, loops and what it knows of the lease
    now      \* wall clock

leaseVars == <<row, proc, now>>

NoRow == [holder |-> "none", beat |-> 0]

Down == [phase |-> "down", deadline |-> 0, raced |-> FALSE, loops |-> FALSE, crawler |-> FALSE,
         heartbeat |-> FALSE, fenced |-> FALSE, initialized |-> FALSE, mode |-> "idle", failed |-> FALSE, beat |-> 0]

Phases == {"down", "schema", "binding", "own", "stale", "look", "insert", "wait", "recover", "close", "worker", "crawler", "up", "stopping", "releasing"}

LeaseTypeOK ==
    /\ now \in 0..MaxNow
    /\ \A p \in Procs : proc[p].phase \in Phases /\ proc[p].mode \in {"idle", "active", "offline"}

LeaseInit == row = NoRow /\ proc = [p \in Procs |-> Down] /\ now = 0

Moves(p, phase) == proc' = [proc EXCEPT ![p].phase = phase] /\ UNCHANGED <<row, now>>

\* a start that fails leaves the process offline, with nothing running
startFails(p) == proc' = [proc EXCEPT ![p] = [Down EXCEPT !.mode = "offline", !.fenced = proc[p].fenced]] /\ UNCHANGED <<row, now>>

-----------------------------------------------------------------------------
(* The checks before the lease                                              *)

\* one replica, one tenant, a supported database: anything else is refused
assertSupportedRuntimeTopology(replicas, supported) == replicas = 1 /\ supported

\* the configuration and the topology
initialize(p) ==
    /\ proc[p].phase = "down" /\ ~proc[p].initialized
    /\ \E replicas \in Replicas, supported \in BOOLEAN :
         IF assertSupportedRuntimeTopology(replicas, supported) THEN Moves(p, "schema") ELSE startFails(p)

\* the tables and columns exist, the stored keys are known
ensureSchemaDeployed(p) == proc[p].phase = "schema" /\ (Moves(p, "binding") \/ startFails(p))

\* the database was filled from this network
ensureSyncStateSingleton(p) == proc[p].phase = "binding" /\ (Moves(p, "own") \/ startFails(p))

-----------------------------------------------------------------------------
(* The lease                                                                *)

\* the row now names this process
Takes(p) ==
    /\ row' = [holder |-> p, beat |-> now]
    /\ proc' = [proc EXCEPT ![p].phase = "recover", ![p].heartbeat = TRUE, ![p].fenced = FALSE, ![p].beat = now]
    /\ UNCHANGED now

\* Mutant: a lease is taken over after any missed refresh.
isOld(r) == r.beat < now

isStale(r) == r.beat < now - TTL

\* tryAcquireInstanceLease, statement by statement: refresh a row of our own
tryOwn(p) == proc[p].phase = "own" /\ IF row.holder = p THEN Takes(p) ELSE Moves(p, "stale")

\* take over a stale row
tryTakeover(p) == proc[p].phase = "stale" /\ IF row # NoRow /\ isStale(row) THEN Takes(p) ELSE Moves(p, "look")

\* no row: insert one; a held row: wait
tryLook(p) == proc[p].phase = "look" /\ Moves(p, IF row = NoRow THEN "insert" ELSE "wait")

\* another process may have inserted first: one more pass, and no third
tryInsert(p) ==
    /\ proc[p].phase = "insert"
    /\ \/ row = NoRow /\ Takes(p)
       \/ row # NoRow /\ proc[p].raced /\ startFails(p)
       \/ /\ row # NoRow /\ ~proc[p].raced
          /\ proc' = [proc EXCEPT ![p].phase = "own", ![p].raced = TRUE] /\ UNCHANGED <<row, now>>

\* acquireInstanceLease: waits one ttl for the lease of a killed process, then gives up
acquireInstanceLease(p) ==
    /\ proc[p].phase = "wait"
    /\ LET deadline == IF proc[p].deadline = 0 THEN now + TTL ELSE proc[p].deadline
       IN  \/ now >= deadline /\ startFails(p)
           \/ /\ now < deadline
              /\ proc' = [proc EXCEPT ![p].phase = "own", ![p].deadline = deadline, ![p].raced = FALSE] /\ UNCHANGED <<row, now>>

\* the timer of startInstanceLeaseHeartbeat: refreshes the row, or learns that it is lost
renewInstanceLease(p) ==
    /\ proc[p].heartbeat
    /\ IF row.holder = p
         THEN row' = [row EXCEPT !.beat = now] /\ proc' = [proc EXCEPT ![p].beat = now]
         ELSE /\ proc' = [proc EXCEPT ![p].heartbeat = FALSE, ![p].fenced = TRUE, ![p].loops = FALSE,
                                      ![p].crawler = FALSE, ![p].mode = "offline"]
              /\ UNCHANGED row
    /\ UNCHANGED now

-----------------------------------------------------------------------------
(* After the lease                                                          *)

\* recovery and session cleanup: a failure of either is only logged
recoverJobs(p) == proc[p].phase = "recover" /\ Moves(p, "close")

closeSessions(p) == proc[p].phase = "close" /\ Moves(p, "worker")

\* the wallet worker and the job loop; a failure leaves the process offline but running
startWorkers(p) ==
    /\ proc[p].phase = "worker"
    /\ \E started \in BOOLEAN : proc' = [proc EXCEPT ![p].phase = "crawler", ![p].loops = started, ![p].failed = ~started]
    /\ UNCHANGED <<row, now>>

\* the crawler, where it is enabled; the status published at the end knows nothing of a lease lost meanwhile
startCrawler(p) ==
    /\ proc[p].phase = "crawler"
    /\ \E enabled, started \in BOOLEAN :
         proc' = [proc EXCEPT ![p].phase = "up", ![p].initialized = TRUE, ![p].crawler = enabled /\ started,
                              ![p].mode = IF proc[p].failed \/ (enabled /\ ~started) THEN "offline" ELSE IF enabled THEN "active" ELSE "idle"]
    /\ UNCHANGED <<row, now>>

\* assertLeaseHeld, right before a transaction is sent
assertLeaseHeld(p) ==
    /\ proc[p].loops /\ row.holder # p
    /\ proc' = [proc EXCEPT ![p].fenced = TRUE] /\ UNCHANGED <<row, now>>

\* shutdown: the loops and the heartbeat stop, then the workers, then the row goes
shutdown(p) ==
    /\ proc[p].phase = "up"
    /\ proc' = [proc EXCEPT ![p].phase = "stopping", ![p].loops = FALSE, ![p].heartbeat = FALSE, ![p].crawler = FALSE] /\ UNCHANGED <<row, now>>

stopWorkers(p) == proc[p].phase = "stopping" /\ Moves(p, "releasing")

releaseInstanceLease(p) ==
    /\ proc[p].phase = "releasing"
    /\ \E written \in BOOLEAN : row' = IF written /\ row.holder = p THEN NoRow ELSE row
    /\ proc' = [proc EXCEPT ![p] = [Down EXCEPT !.fenced = proc[p].fenced]] /\ UNCHANGED now

\* the process is killed
kill(p) == proc[p].phase # "down" /\ proc' = [proc EXCEPT ![p] = Down] /\ UNCHANGED <<row, now>>

Tick == now < MaxNow /\ now' = now + 1 /\ UNCHANGED <<row, proc>>

LeaseNext ==
    \/ \E p \in Procs : \/ initialize(p) \/ ensureSchemaDeployed(p) \/ ensureSyncStateSingleton(p) \/ tryOwn(p) \/ tryTakeover(p)
                        \/ tryLook(p) \/ tryInsert(p) \/ acquireInstanceLease(p) \/ renewInstanceLease(p) \/ recoverJobs(p)
                        \/ closeSessions(p) \/ startWorkers(p) \/ startCrawler(p) \/ assertLeaseHeld(p) \/ shutdown(p)
                        \/ stopWorkers(p) \/ releaseInstanceLease(p) \/ kill(p)
    \/ Tick

LeaseSpec == LeaseInit /\ [][LeaseNext]_leaseVars

-----------------------------------------------------------------------------
\* runtimeUnavailableReason: when write actions are accepted
acceptsWrites(p) == ~proc[p].fenced /\ proc[p].initialized /\ proc[p].mode # "offline"

\* A process whose job loop runs unfenced, or that accepts writes outside a shutdown, either still has the row or has not
\* refreshed it for longer than the ttl: two live processes that refresh in time never work on one database.
OneWorkerUnlessStale ==
    \A p \in Procs : proc[p].phase \notin {"stopping", "releasing"} /\ ((proc[p].loops /\ ~proc[p].fenced) \/ acceptsWrites(p))
                       => row.holder = p \/ now - proc[p].beat > TTL
=============================================================================
