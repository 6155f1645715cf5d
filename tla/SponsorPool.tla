------------------------------ MODULE SponsorPool ------------------------------
(***************************************************************************)
(* The pool of sponsor wallets (submission/sponsor-pool.ts) and the two    *)
(* executors that use it (submission/executors/sponsor.ts). A finalized    *)
(* job leases the lane of one wallet for itself; an unbound job only picks *)
(* an order, because the worker reserves single dust notes for it. Both    *)
(* go on to the next wallet after a failure that another wallet may not    *)
(* have, and pause the wallet that failed.                                 *)
(*                                                                         *)
(* A job is one step between two awaits. A failure is given by what        *)
(* decideSponsorFailure makes of it.                                       *)
(***************************************************************************)
EXTENDS Integers, Sequences, FiniteSets, Functions

CONSTANTS
    Pool,          \* NIGHTGATE_FEE_SPONSOR_SESSION, a sequence of sponsor sessions
    FinalizedJobs, \* jobs of executeSponsorFinalized
    UnboundJobs,   \* jobs of executeSponsorUnbound
    DustRetries,   \* NIGHTGATE_SPONSOR_DUST_RETRIES
    Cooldown,      \* NIGHTGATE_SPONSOR_COOLDOWN_MS
    MaxTime        \* bound: the clock

VARIABLES
    lanes,   \* busy, lastUsed and cooldownUntil of each sponsor
    time,    \* the clock
    job      \* jobs: step, sponsors left to try, in their order for an unbound job, sponsor in use,
             \* attempt, failure

poolVars == <<lanes, time, job>>

Sponsors == Range(Pool)
Jobs == FinalizedJobs \cup UnboundJobs
Decisions == {"ambiguous", "landed-not-applied", "dust-race", "pool-invalid", "failover", "fail"}
Steps == {"new", "waiting", "attempt", "closing", "recording", "ended"}
Fresh == [step |-> "new", cand |-> {}, order |-> <<>>, at |-> Head(Pool), attempt |-> 0, err |-> "fail"]

PoolTypeOK ==
    /\ lanes \in [Sponsors -> [busy : BOOLEAN, lastUsed : 0..MaxTime, cooldownUntil : 0..(MaxTime + Cooldown)]]
    /\ time \in 1..MaxTime
    /\ job \in [Jobs -> [step : Steps, cand : SUBSET Sponsors, order : Seq(Sponsors), at : Sponsors, attempt : 0..DustRetries,
                          err : Decisions]]

PoolInit ==
    /\ lanes = [s \in Sponsors |-> [busy |-> FALSE, lastUsed |-> 0, cooldownUntil |-> 0]]
    /\ time = 1
    /\ job = [j \in Jobs |-> Fresh]

-----------------------------------------------------------------------------
(* The pool.                                                               *)

\* atGate: sponsors whose wallet reported itself synced, as the worker's reports stand at that moment
gateRank(s, atGate) == IF s \in atGate THEN 0 ELSE 1

Before(s, t, atGate) ==
    \/ gateRank(s, atGate) < gateRank(t, atGate)
    \/ gateRank(s, atGate) = gateRank(t, atGate) /\ lanes[s].lastUsed < lanes[t].lastUsed

Cooling(s) == lanes[s].cooldownUntil > time

Position(s) == CHOOSE i \in DOMAIN Pool : Pool[i] = s /\ \A k \in DOMAIN Pool : Pool[k] = s => i <= k

\* synced ones first, then the least recently used, then as the pool lists them
Sooner(s, t, atGate) == Before(s, t, atGate) \/ (~Before(t, s, atGate) /\ Position(s) < Position(t))

\* the first that is neither busy nor paused; {} when there is none
pickFreeSponsor(ids, atGate) ==
    LET free == {s \in ids : ~lanes[s].busy /\ ~Cooling(s)}
    IN  {s \in free : \A t \in free \ {s} : Sooner(s, t, atGate)}

acquireSponsor(s) == [lanes EXCEPT ![s].busy = TRUE, ![s].lastUsed = time]

releaseSponsor(s) == [lanes EXCEPT ![s].busy = FALSE]

benchSponsor(s) == [lanes EXCEPT ![s].busy = FALSE, ![s].cooldownUntil = time + Cooldown]

touchSponsor(ls, s) == [ls EXCEPT ![s].lastUsed = time]

\* all that are not paused, in the same order (the only member of this set); nothing is reserved
sponsorCandidatesNonExclusive(atGate) ==
    LET open == {s \in Sponsors : ~Cooling(s)}
    IN  {q \in [1..Cardinality(open) -> open] : \A i, k \in DOMAIN q : i < k => Sooner(q[i], q[k], atGate)}

\* a named sponsor is never swapped for another one
sponsorCandidates == {Sponsors} \cup {{s} : s \in Sponsors}

-----------------------------------------------------------------------------
(* The finalized job.                                                      *)

End(j) == job' = [job EXCEPT ![j] = [Fresh EXCEPT !.step = "ended"]]

Start(j) ==
    /\ j \in FinalizedJobs /\ job[j].step = "new"
    /\ \E c \in sponsorCandidates : job' = [job EXCEPT ![j].step = "waiting", ![j].cand = c]
    /\ UNCHANGED <<lanes, time>>

Lease(j) ==
    /\ j \in FinalizedJobs /\ job[j].step = "waiting"
    /\ \E atGate \in SUBSET Sponsors : \E s \in pickFreeSponsor(job[j].cand, atGate) :
          /\ lanes' = acquireSponsor(s)
          /\ job' = [job EXCEPT ![j].step = "attempt", ![j].at = s]
    /\ UNCHANGED time

\* no sponsor became free before the deadline, or none is left
GiveUp(j) ==
    /\ j \in FinalizedJobs /\ job[j].step = "waiting" /\ pickFreeSponsor(job[j].cand, {}) = {}
    /\ End(j)
    /\ UNCHANGED <<lanes, time>>

\* the transaction landed: the lane is free before the result is written to the grant
Succeed(j) ==
    /\ j \in FinalizedJobs /\ job[j].step = "attempt"
    /\ lanes' = releaseSponsor(job[j].at)
    /\ job' = [job EXCEPT ![j] = [Fresh EXCEPT !.step = "recording", !.at = job[j].at]]
    /\ UNCHANGED time

recordOnGrant(j) ==
    /\ job[j].step = "recording"
    /\ End(j)
    /\ UNCHANGED <<lanes, time>>

\* the attempt failed, or the result could not be written, which the same catch block handles
AttemptFails(j) ==
    /\ j \in FinalizedJobs
    /\ \E d \in Decisions :
          /\ \/ job[j].step = "attempt"
             \/ job[j].step = "recording" /\ d \in {"ambiguous", "fail"}
          /\ IF d \in {"ambiguous", "landed-not-applied"}
             THEN lanes' = releaseSponsor(job[j].at) /\ End(j)
             ELSE lanes' = lanes /\ job' = [job EXCEPT ![j].step = "closing", ![j].err = d]
    /\ UNCHANGED time

\* Mutant: the failing write of the attempt ends the job before its lane is released.
CloseFailsBusy(j) ==
    /\ j \in FinalizedJobs /\ job[j].step = "closing"
    /\ End(j)
    /\ UNCHANGED <<lanes, time>>

\* the attempt's row could not be closed
CloseFails(j) ==
    /\ j \in FinalizedJobs /\ job[j].step = "closing"
    /\ lanes' = releaseSponsor(job[j].at) /\ End(j)
    /\ UNCHANGED time

rebuildBudget(j) == IF job[j].err = "pool-invalid" /\ DustRetries > 1 THEN 1 ELSE DustRetries

Rebuild(j) ==
    /\ job[j].err \in {"dust-race", "pool-invalid"} /\ job[j].attempt < rebuildBudget(j)
    /\ job' = [job EXCEPT ![j].step = "attempt", ![j].attempt = @ + 1, ![j].err = Fresh.err]
    /\ UNCHANGED lanes

executeSponsorFinalized(j) ==
    /\ j \in FinalizedJobs /\ job[j].step = "closing"
    /\ \/ Rebuild(j)
       \/ /\ job[j].err \in {"dust-race", "pool-invalid"} => job[j].attempt >= rebuildBudget(j)
          /\ IF job[j].err \in {"pool-invalid", "fail"}
             THEN lanes' = releaseSponsor(job[j].at) /\ End(j)
             ELSE /\ lanes' = benchSponsor(job[j].at)
                  /\ job' = [job EXCEPT ![j] = [Fresh EXCEPT !.step = "waiting",
                                                        !.cand = job[j].cand \ {job[j].at}]]
    /\ UNCHANGED time

-----------------------------------------------------------------------------
(* The unbound job.                                                        *)

\* on to the next candidate, marked as used before the first await
NextCandidate(j, order, ls) ==
    IF order = <<>>
    THEN lanes' = ls /\ End(j)
    ELSE /\ lanes' = touchSponsor(ls, Head(order))
         /\ job' = [job EXCEPT ![j] = [Fresh EXCEPT !.step = "attempt", !.at = Head(order), !.order = Tail(order)]]

StartUnbound(j) ==
    /\ j \in UnboundJobs /\ job[j].step = "new"
    /\ \/ \E atGate \in SUBSET Sponsors : \E order \in sponsorCandidatesNonExclusive(atGate) : NextCandidate(j, order, lanes)
       \/ \E s \in Sponsors : NextCandidate(j, <<s>>, lanes)
    /\ UNCHANGED time

SucceedUnbound(j) ==
    /\ j \in UnboundJobs /\ job[j].step = "attempt"
    /\ End(j)
    /\ UNCHANGED <<lanes, time>>

AttemptUnboundFails(j) ==
    /\ j \in UnboundJobs /\ job[j].step = "attempt"
    /\ \E d \in Decisions :
          IF d \in {"ambiguous", "landed-not-applied"}
          THEN End(j) ELSE job' = [job EXCEPT ![j].step = "closing", ![j].err = d]
    /\ UNCHANGED <<lanes, time>>

executeSponsorUnbound(j) ==
    /\ j \in UnboundJobs /\ job[j].step = "closing"
    /\ \/ Rebuild(j)
       \/ /\ job[j].err \in {"dust-race", "pool-invalid"} => job[j].attempt >= rebuildBudget(j)
          /\ IF job[j].err = "failover"
             THEN NextCandidate(j, job[j].order, benchSponsor(job[j].at))
             ELSE End(j) /\ UNCHANGED lanes
    /\ UNCHANGED time

-----------------------------------------------------------------------------
Tick ==
    /\ time < MaxTime
    /\ time' = time + 1
    /\ UNCHANGED <<lanes, job>>

PoolNext ==
    \/ \E j \in Jobs :
          \/ Start(j) \/ Lease(j) \/ GiveUp(j) \/ Succeed(j) \/ recordOnGrant(j) \/ AttemptFails(j)
          \/ CloseFails(j) \/ executeSponsorFinalized(j)
          \/ StartUnbound(j) \/ SucceedUnbound(j) \/ AttemptUnboundFails(j) \/ executeSponsorUnbound(j)
    \/ Tick

PoolSpec == PoolInit /\ [][PoolNext]_poolVars

-----------------------------------------------------------------------------
(* Properties.                                                             *)

\* finalized jobs that use sponsor s
Holders(s) == {j \in FinalizedJobs : job[j].step \in {"attempt", "closing"} /\ job[j].at = s}

\* A lane that was leased is never left busy: whatever way a job ends, its wallet is free for the
\* next one (executeSponsorFinalized releases or pauses it on each path).
BusyLaneHasHolder == \A s \in Sponsors : lanes[s].busy => Holders(s) # {}

=============================================================================
