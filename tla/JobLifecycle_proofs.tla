------------------------ MODULE JobLifecycle_proofs ------------------------
(***************************************************************************)
(* Theorems about JobLifecycle, for any number of processes, transactions, *)
(* restarts and reorganisations. First type correctness and, for processes *)
(* with worker ids of their own, that only the transaction named by the    *)
(* job row can reach the chain; then what a step can do to the job row, to *)
(* an execution, to a lookup and to the chain, from which it follows at    *)
(* once that a finished job is final. From these moves the second half     *)
(* argues that what the job row says is true: of what was sent, of what    *)
(* the grant was charged, of the outcome on chain and of the recorded      *)
(* result.                                                                 *)
(***************************************************************************)
EXTENDS MC_JobReorg, TLAPS

-----------------------------------------------------------------------------
(* Type correctness.                                                       *)

\* The strengthening the type invariant needs: an execution that waits for an acknowledgement and a
\* lookup that waits for the indexer both have a transaction.
Defined ==
    \A p \in Procs :
       /\ exec[p].pc = "intent" => exec[p].cur \in Txs
       /\ conf[p].step = "lookup" => conf[p].tx \in Txs

\* The members of the finite sets of column values, so that a leaf need not expand their definitions.
LEMMA StatusMembers ==
    {"pending", "running", "external_execution", "submitted", "succeeded", "failed",
     "reconciliation_required"} \subseteq Statuses
  BY DEF Statuses, InFlight

\* The error codes a job may carry.
LEMMA CodeMembers ==
    {"none", "RESULT_PERSIST_FAILED", "CHAIN_EXECUTION_FAILED", "NOT_SENT", "LEASE_EXPIRED",
     "PROCESS_RESTART_BEFORE_BROADCAST", "PROCESS_RESTART_SESSION_CLOSED",
     "SPONSOR_ATTEMPT_REJECTED", "BROADCAST_NOT_INCLUDED", "PROCESS_RESTART_RECONCILE",
     "BROADCAST_UNCONFIRMED", "EXTERNAL_EXECUTION_FAILED",
     "REJECTED_ATTEMPT_BOOKKEEPING_PENDING", "CHAIN_EXECUTION_FAILED_UNCONFIRMED"} \subseteq Codes
  BY DEF Codes, NothingSentCodes, ParkCodes

\* The chain outcomes a job may carry.
LEMMA ChainMembers ==
    /\ {"null", "pending", "dropped", "success", "failure"} \subseteq ChainStatuses
    /\ Outcomes = {"success", "failure"}
  BY DEF ChainStatuses, Outcomes

\* The values of an attempt row.
LEMMA RowMembers ==
    /\ {"none", "pending", "included", "finalized", "failed"} \subseteq RowStatuses
    /\ {"none", "REJECTED", "REBUILT", "CHAIN_EXECUTION_FAILED", "BROADCAST_NOT_INCLUDED"} \subseteq RowCodes
  BY DEF RowStatuses, RowCodes

\* The points and errors of an execution.
LEMMA ExecMembers ==
    /\ {"none", "intent", "reject", "internal", "ambiguous", "notApplied", "bookkeeping"} \subseteq Errors
    /\ {"idle", "run", "intent", "sending", "error", "failed", "settle", "chainFailure", "landed",
        "returned", "persist"} \subseteq Pcs
  BY DEF Errors, Pcs

\* The phases of a process.
LEMMA PhaseMembers ==
    {"down", "requeueRunning", "failHashless", "parkInFlight", "closeSessions", "up",
     "offline"} \subseteq Phases
  BY DEF Phases

\* Every step keeps the types: one step of the proof per action.
LEMMA TypeNext == TypeOK /\ Defined /\ [Next]_vars => TypeOK'
<1> SUFFICES ASSUME TypeOK, Defined, [Next]_vars PROVE TypeOK'
  OBVIOUS
<1> USE DEF dbVars, procVars, execVars, netVars
<1>job. job \in JobRows
  BY DEF TypeOK
<1>row. row \in [Txs -> AttemptRows]
  BY DEF TypeOK
<1>exec. exec \in [Procs -> Execs]
  BY DEF TypeOK
<1>late. late \in SUBSET LateHooks
  BY DEF TypeOK
<1>gen. gen \in Nat
  BY DEF TypeOK
<1>conf. conf \in [Procs -> Confs]
  BY DEF TypeOK
<1>1. ASSUME NEW p \in Procs, Claim(p) PROVE TypeOK'
  <2>1. job' \in JobRows
    BY <1>1, <1>job, StatusMembers, CodeMembers, ChainMembers, ConstantsAssumption DEF Claim, JobRows
  <2>2. exec' \in [Procs -> Execs]
    BY <1>1, <1>exec, ExecMembers DEF Claim, Execs, IdleExec
  <2> QED
    BY <1>1, <2>1, <2>2 DEF TypeOK, Claim
<1>2. ASSUME NEW p \in Procs, ReportExternalExecution(p) PROVE TypeOK'
  <2>1. job' \in JobRows
    BY <1>2, <1>job, StatusMembers, CodeMembers, ChainMembers DEF ReportExternalExecution, JobRows
  <2>2. exec' \in [Procs -> Execs]
    <3>0. exec[p] \in Execs
      BY <1>exec
    <3>1. [exec[p] EXCEPT !.crossed = TRUE] \in Execs
      BY <3>0, ExecMembers DEF Execs, IdleExec
    <3>2. [exec[p] EXCEPT !.pc = "failed", !.err = "internal"] \in Execs
      BY <3>0, ExecMembers DEF Execs, IdleExec
    <3> QED
      BY <1>2, <1>exec, <3>1, <3>2 DEF ReportExternalExecution
  <2> QED
    BY <1>2, <2>1, <2>2 DEF TypeOK, ReportExternalExecution
<1>3. ASSUME NEW p \in Procs, AttemptFails(p) PROVE TypeOK'
  <2>1. exec' \in [Procs -> Execs]
    BY <1>3, <1>exec, ExecMembers DEF AttemptFails, Execs, IdleExec
  <2> QED
    BY <1>3, <2>1 DEF TypeOK, AttemptFails
<1>4. ASSUME NEW p \in Procs, AssertLeaseHeld(p) PROVE TypeOK'
  <2>1. exec' \in [Procs -> Execs]
    <3>0. exec[p] \in Execs
      BY <1>exec
    <3>1. [exec[p] EXCEPT !.chk = TRUE] \in Execs
      BY <3>0, ExecMembers DEF Execs, IdleExec
    <3>2. [exec[p] EXCEPT !.pc = "error", !.err = "intent"] \in Execs
      BY <3>0, ExecMembers DEF Execs, IdleExec
    <3> QED
      BY <1>4, <1>exec, <3>1, <3>2 DEF AssertLeaseHeld
  <2> QED
    BY <1>4, <2>1 DEF TypeOK, AssertLeaseHeld
<1>5. ASSUME NEW p \in Procs, SubmitIntentStored(p) PROVE TypeOK'
  <2>1. job' \in JobRows
    BY <1>5, <1>job, StatusMembers, CodeMembers, ChainMembers, <1>exec DEF SubmitIntentStored,
       BroadcastRecorded, Need, JobRows, Execs
  <2>2. row' \in [Txs -> AttemptRows]
    BY <1>5, <1>row, RowMembers DEF SubmitIntentStored, BroadcastRecorded, Need, AttemptRows
  <2>3. exec' \in [Procs -> Execs]
    <3>0. exec[p] \in Execs
      BY <1>exec
    <3>1. [exec[p] EXCEPT !.pc = "sending", !.led = exec[p].cur, !.crossed = TRUE,
                             !.resv = IF channel = "sponsor" THEN 1 ELSE 0] \in Execs
      BY <3>0, ExecMembers DEF Execs, IdleExec
    <3> QED
      BY <1>5, <1>exec, <3>1 DEF SubmitIntentStored
  <2> QED
    BY <1>5, <2>1, <2>2, <2>3 DEF TypeOK, SubmitIntentStored, BroadcastRecorded, Need, Execs
<1>6. ASSUME NEW p \in Procs, SubmitIntentRefused(p) PROVE TypeOK'
  <2>1. exec' \in [Procs -> Execs]
    BY <1>6, <1>exec, ExecMembers DEF SubmitIntentRefused, Execs, IdleExec
  <2> QED
    BY <1>6, <2>1 DEF TypeOK, SubmitIntentRefused
<1>7. ASSUME NEW p \in Procs, SubmitIntentAbandoned(p) PROVE TypeOK'
  <2>1. exec' \in [Procs -> Execs]
    <3>0. exec[p] \in Execs
      BY <1>exec
    <3>1. \A e \in {"intent", "internal", "ambiguous"} :
             [exec[p] EXCEPT !.pc = "error", !.err = e] \in Execs
      BY <3>0, ExecMembers DEF Execs, IdleExec
    <3> QED
      BY <1>7, <1>exec, <3>1 DEF SubmitIntentAbandoned
  <2>2. late' \in SUBSET LateHooks
    <3>1. Need(p) \in {0, 1} /\ FirstBoundary(p) \in BOOLEAN /\ exec[p].chk \in BOOLEAN
      BY <1>exec DEF Need, FirstBoundary, Execs
    <3>2. exec[p].cur \in Txs
      BY <1>7 DEF Defined, SubmitIntentAbandoned
    <3> QED
      BY <1>7, <1>late, <3>1, <3>2 DEF SubmitIntentAbandoned, LateHooks
  <2> QED
    BY <1>7, <2>1, <2>2 DEF TypeOK, SubmitIntentAbandoned, Need, FirstBoundary
<1>8. ASSUME NEW p \in Procs, WorkerRejected(p) PROVE TypeOK'
  <2>1. exec' \in [Procs -> Execs]
    BY <1>8, <1>exec, ExecMembers DEF WorkerRejected, Answered, Execs, IdleExec
  <2> QED
    BY <1>8, <2>1 DEF TypeOK, WorkerRejected, Answered, Execs
<1>9. ASSUME NEW p \in Procs, WorkerAmbiguous(p) PROVE TypeOK'
  <2>1. exec' \in [Procs -> Execs]
    BY <1>9, <1>exec, ExecMembers DEF WorkerAmbiguous, Answered, Execs, IdleExec
  <2> QED
    BY <1>9, <2>1 DEF TypeOK, WorkerAmbiguous, Answered
<1>10. ASSUME NEW p \in Procs, WorkerFailed(p) PROVE TypeOK'
  <2>1. exec' \in [Procs -> Execs]
    BY <1>10, <1>exec, ExecMembers DEF WorkerFailed, Answered, Execs, IdleExec
  <2> QED
    BY <1>10, <2>1 DEF TypeOK, WorkerFailed, Answered, Execs
<1>11. ASSUME NEW p \in Procs, WorkerLanded(p) PROVE TypeOK'
  <2>1. exec' \in [Procs -> Execs]
    <3>0. exec[p] \in Execs
      BY <1>exec
    <3>1. [exec[p] EXCEPT !.pc = "landed"] \in Execs
      BY <3>0, ExecMembers DEF Execs, IdleExec
    <3>2. [exec[p] EXCEPT !.pc = "error", !.err = "notApplied"] \in Execs
      BY <3>0, ExecMembers DEF Execs, IdleExec
    <3> QED
      BY <1>11, <1>exec, <3>1, <3>2 DEF WorkerLanded, Answered
  <2> QED
    BY <1>11, <2>1 DEF TypeOK, WorkerLanded, Answered
<1>12. ASSUME NEW p \in Procs, RejectionBooked(p) PROVE TypeOK'
  <2>1. job' \in JobRows
    BY <1>12, <1>job, StatusMembers, CodeMembers, ChainMembers DEF RejectionBooked, JobRows
  <2>2. row' \in [Txs -> AttemptRows]
    BY <1>12, <1>row, RowMembers DEF RejectionBooked, AttemptRows
  <2>3. exec' \in [Procs -> Execs]
    <3>0. exec[p] \in Execs
      BY <1>exec
    <3>1. \A next \in {"run", "failed"} :
             [exec[p] EXCEPT !.pc = next, !.led = NoTx, !.resv = 0] \in Execs
      BY <3>0, ExecMembers DEF Execs, IdleExec
    <3> QED
      BY <1>12, <1>exec, <3>1 DEF RejectionBooked
  <2> QED
    BY <1>12, <2>1, <2>2, <2>3 DEF TypeOK, RejectionBooked, Execs
<1>13. ASSUME NEW p \in Procs, RejectionNotBooked(p) PROVE TypeOK'
  <2>1. exec' \in [Procs -> Execs]
    BY <1>13, <1>exec, ExecMembers DEF RejectionNotBooked, Execs, IdleExec
  <2> QED
    BY <1>13, <2>1 DEF TypeOK, RejectionNotBooked
<1>14. ASSUME NEW p \in Procs, AttemptClosedAsRebuilt(p) PROVE TypeOK'
  <2>1. row' \in [Txs -> AttemptRows]
    BY <1>14, <1>row, RowMembers DEF AttemptClosedAsRebuilt, AttemptRows
  <2>2. exec' \in [Procs -> Execs]
    BY <1>14, <1>exec, ExecMembers DEF AttemptClosedAsRebuilt, Execs, IdleExec
  <2> QED
    BY <1>14, <2>1, <2>2 DEF TypeOK, AttemptClosedAsRebuilt
<1>15. ASSUME NEW p \in Procs, NothingToBook(p) PROVE TypeOK'
  <2>1. exec' \in [Procs -> Execs]
    BY <1>15, <1>exec, ExecMembers DEF NothingToBook, Execs, IdleExec
  <2> QED
    BY <1>15, <2>1 DEF TypeOK, NothingToBook
<1>16. ASSUME NEW p \in Procs, ReadFailedJob(p) PROVE TypeOK'
  <2>1. exec' \in [Procs -> Execs]
    BY <1>16, <1>exec, ExecMembers, <1>job DEF ReadFailedJob, Execs, IdleExec, JobRows
  <2> QED
    BY <1>16, <2>1 DEF TypeOK, ReadFailedJob
<1>17. ASSUME NEW p \in Procs, SettleWithoutHash(p) PROVE TypeOK'
  <2>1. job' \in JobRows
    BY <1>17, <1>job, StatusMembers, CodeMembers, ChainMembers DEF SettleWithoutHash, MarkUnlessLost,
       Released, Idle, JobRows
  <2>2. exec' \in [Procs -> Execs]
    BY <1>17, <1>exec, ExecMembers DEF SettleWithoutHash, MarkUnlessLost, Released, Idle, Execs,
       IdleExec
  <2> QED
    BY <1>17, <2>1, <2>2 DEF TypeOK, SettleWithoutHash, MarkUnlessLost, Released, Idle
<1>18. ASSUME NEW p \in Procs, SettleWithHash(p) PROVE TypeOK'
  <2>1. job' \in JobRows
    BY <1>18, <1>job, StatusMembers, CodeMembers, ChainMembers, <1>exec DEF SettleWithHash,
       MarkUnlessLost, Released, Idle, ParkCode, JobRows, Execs
  <2>2. exec' \in [Procs -> Execs]
    BY <1>18, <1>exec, ExecMembers DEF SettleWithHash, MarkUnlessLost, Released, Idle, ParkCode, Execs,
       IdleExec
  <2> QED
    BY <1>18, <2>1, <2>2 DEF TypeOK, SettleWithHash, MarkUnlessLost, Released, Idle, ParkCode
<1>19. ASSUME NEW p \in Procs, SettleNotApplied(p) PROVE TypeOK'
  <2>1. exec' \in [Procs -> Execs]
    BY <1>19, <1>exec, ExecMembers DEF SettleNotApplied, Execs, IdleExec
  <2>2. conf' \in [Procs -> Confs]
    BY <1>19, <1>conf, ChainMembers, CodeMembers, <1>exec, <1>gen DEF SettleNotApplied, Confs,
       IdleConf, Execs
  <2> QED
    BY <1>19, <2>1, <2>2 DEF TypeOK, SettleNotApplied
<1>20. ASSUME NEW p \in Procs, RecordLanded(p) PROVE TypeOK'
  <2>1. job' \in JobRows
    BY <1>20, <1>job, StatusMembers, CodeMembers, ChainMembers, <1>exec DEF RecordLanded, JobRows, Execs
  <2>2. row' \in [Txs -> AttemptRows]
    BY <1>20, <1>row, RowMembers DEF RecordLanded, AttemptRows
  <2>3. exec' \in [Procs -> Execs]
    <3>0. exec[p] \in Execs
      BY <1>exec
    <3>1. [exec[p] EXCEPT !.pc = "returned"] \in Execs
      BY <3>0, ExecMembers DEF Execs, IdleExec
    <3>2. [exec[p] EXCEPT !.pc = "failed", !.err = "internal"] \in Execs
      BY <3>0, ExecMembers DEF Execs, IdleExec
    <3>3. [exec[p] EXCEPT !.pc = "error", !.err = "internal"] \in Execs
      BY <3>0, ExecMembers DEF Execs, IdleExec
    <3> QED
      BY <1>20, <1>exec, <3>1, <3>2, <3>3 DEF RecordLanded, Answered
  <2> QED
    BY <1>20, <2>1, <2>2, <2>3 DEF TypeOK, RecordLanded
<1>21. ASSUME NEW p \in Procs, MarkSucceeded(p) PROVE TypeOK'
  <2>1. job' \in JobRows
    BY <1>21, <1>job, StatusMembers, CodeMembers, ChainMembers DEF MarkSucceeded, Released, Idle,
       JobRows
  <2>2. exec' \in [Procs -> Execs]
    <3>0. exec[p] \in Execs
      BY <1>exec
    <3>1. IdleExec \in Execs
      BY <3>0, ExecMembers DEF Execs, IdleExec
    <3>2. [exec[p] EXCEPT !.pc = "persist"] \in Execs
      BY <3>0, ExecMembers DEF Execs, IdleExec
    <3> QED
      BY <1>21, <1>exec, <3>1, <3>2 DEF MarkSucceeded, Idle
  <2> QED
    BY <1>21, <2>1, <2>2 DEF TypeOK, MarkSucceeded, Released, Idle
<1>22. ASSUME NEW p \in Procs, ResultNotPersisted(p) PROVE TypeOK'
  <2>1. job' \in JobRows
    BY <1>22, <1>job, StatusMembers, CodeMembers, ChainMembers DEF ResultNotPersisted, MarkUnlessLost,
       Released, Idle, JobRows
  <2>2. exec' \in [Procs -> Execs]
    BY <1>22, <1>exec, ExecMembers DEF ResultNotPersisted, MarkUnlessLost, Released, Idle, Execs,
       IdleExec
  <2> QED
    BY <1>22, <2>1, <2>2 DEF TypeOK, ResultNotPersisted, MarkUnlessLost, Released, Idle
<1>23. ASSUME NEW p \in Procs, ReclaimExpiredLease(p) PROVE TypeOK'
  <2>1. job' \in JobRows
    <3>1. job.attempt + 1 \in Nat
      BY <1>job DEF JobRows
    <3>2. [Released(job) EXCEPT !.status = "failed", !.code = "LEASE_EXPIRED"] \in JobRows
      BY <1>job, StatusMembers, CodeMembers DEF Released, JobRows
    <3>3. [Released(job) EXCEPT !.status = "pending", !.attempt = job.attempt + 1] \in JobRows
      BY <1>job, <3>1, StatusMembers, CodeMembers DEF Released, JobRows
    <3> QED
      BY <1>23, <3>2, <3>3 DEF ReclaimExpiredLease, Released
  <2> QED
    BY <1>23, <2>1 DEF TypeOK, ReclaimExpiredLease, Released
<1>24. ASSUME NEW p \in Procs, SettleRejectedAttempt(p) PROVE TypeOK'
  <2>1. job' \in JobRows
    BY <1>24, <1>job, StatusMembers, CodeMembers, ChainMembers DEF SettleRejectedAttempt, JobRows
  <2>2. row' \in [Txs -> AttemptRows]
    BY <1>24, <1>row, RowMembers DEF SettleRejectedAttempt, AttemptRows
  <2> QED
    BY <1>24, <2>1, <2>2 DEF TypeOK, SettleRejectedAttempt
<1>25. ASSUME NEW p \in Procs, ConfirmRead(p) PROVE TypeOK'
  <2>1. conf' \in [Procs -> Confs]
    BY <1>25, <1>conf, ChainMembers, CodeMembers, <1>job, <1>gen DEF ConfirmRead, Confs, IdleConf,
       JobRows
  <2> QED
    BY <1>25, <2>1 DEF TypeOK, ConfirmRead
<1>26. ASSUME NEW p \in Procs, Lookup(p) PROVE TypeOK'
  <2>1. conf' \in [Procs -> Confs]
    <3>1. \A r \in {"unknown", "lost"} \cup Outcomes :
             [conf[p] EXCEPT !.step = "write", !.res = r] \in Confs
      BY <1>conf DEF Confs
    <3>2. PICK r : r = IF chain[conf[p].tx] # "none" THEN chain[conf[p].tx]
                       ELSE IF ttl[conf[p].tx] = "buried" THEN "lost" ELSE "unknown"
      OBVIOUS
    <3>3. r \in {"unknown", "lost"} \cup Outcomes
      BY <3>2, <1>26 DEF TypeOK, Defined, Lookup
    <3>4. conf' = [conf EXCEPT ![p] = [conf[p] EXCEPT !.step = "write", !.res = r]]
      BY <1>26, <3>2 DEF Lookup
    <3> QED
      BY <1>conf, <3>1, <3>3, <3>4
  <2> QED
    BY <1>26, <2>1 DEF TypeOK, Lookup
<1>27. ASSUME NEW p \in Procs, LookupFails(p) PROVE TypeOK'
  <2>1. conf' \in [Procs -> Confs]
    <3>1. [conf[p] EXCEPT !.step = "write", !.res = "unknown"] \in Confs
      BY <1>conf DEF Confs
    <3> QED
      BY <1>27, <1>conf, <3>1 DEF LookupFails
  <2> QED
    BY <1>27, <2>1 DEF TypeOK, LookupFails
<1>28. ASSUME NEW p \in Procs, RecordOutcome(p) PROVE TypeOK'
  <2>1. job' \in JobRows
    BY <1>28, <1>job, StatusMembers, CodeMembers, ChainMembers, <1>conf DEF RecordOutcome, ConfDone,
       Released, JobRows, Confs
  <2>2. row' \in [Txs -> AttemptRows]
    BY <1>28, <1>row, RowMembers DEF RecordOutcome, ConfDone, Released, AttemptRows
  <2>3. exec' \in [Procs -> Execs]
    BY <1>28, <1>exec, ExecMembers DEF RecordOutcome, ConfDone, Released, Execs, IdleExec
  <2>4. conf' \in [Procs -> Confs]
    BY <1>28, <1>conf, ChainMembers, CodeMembers, <1>gen DEF RecordOutcome, ConfDone, Released, Confs,
       IdleConf
  <2> QED
    BY <1>28, <2>1, <2>2, <2>3, <2>4 DEF TypeOK, RecordOutcome, ConfDone, Released
<1>29. ASSUME NEW p \in Procs, FinalizeLostBroadcast(p) PROVE TypeOK'
  <2>1. job' \in JobRows
    BY <1>29, <1>job, StatusMembers, CodeMembers, ChainMembers DEF FinalizeLostBroadcast, ConfDone,
       JobRows
  <2>2. row' \in [Txs -> AttemptRows]
    BY <1>29, <1>row, RowMembers DEF FinalizeLostBroadcast, ConfDone, AttemptRows
  <2>3. exec' \in [Procs -> Execs]
    BY <1>29, <1>exec, ExecMembers DEF FinalizeLostBroadcast, ConfDone, Execs, IdleExec
  <2>4. conf' \in [Procs -> Confs]
    BY <1>29, <1>conf, ChainMembers, CodeMembers, <1>gen DEF FinalizeLostBroadcast, ConfDone, Confs,
       IdleConf
  <2> QED
    BY <1>29, <2>1, <2>2, <2>3, <2>4 DEF TypeOK, FinalizeLostBroadcast, ConfDone
<1>30. ASSUME NEW p \in Procs, NoVerdict(p) PROVE TypeOK'
  <2>1. job' \in JobRows
    BY <1>30, <1>job, StatusMembers, CodeMembers, ChainMembers DEF NoVerdict, ConfDone, MarkUnlessLost,
       Released, JobRows
  <2>2. exec' \in [Procs -> Execs]
    BY <1>30, <1>exec, ExecMembers DEF NoVerdict, ConfDone, MarkUnlessLost, Released, Execs, IdleExec
  <2>3. conf' \in [Procs -> Confs]
    BY <1>30, <1>conf, ChainMembers, CodeMembers, <1>gen DEF NoVerdict, ConfDone, MarkUnlessLost,
       Released, Confs, IdleConf
  <2> QED
    BY <1>30, <2>1, <2>2, <2>3 DEF TypeOK, NoVerdict, ConfDone, MarkUnlessLost, Released
<1>31. ASSUME NEW p \in Procs, Crash(p) PROVE TypeOK'
  <2>1. exec' \in [Procs -> Execs]
    BY <1>31, <1>exec, ExecMembers DEF Crash, Execs, IdleExec
  <2>2. conf' \in [Procs -> Confs]
    BY <1>31, <1>conf, ChainMembers, CodeMembers, <1>gen DEF Crash, Confs, IdleConf
  <2> QED
    BY <1>31, PhaseMembers, <2>1, <2>2 DEF TypeOK, Crash
<1>32. ASSUME NEW p \in Procs, Takeover(p) PROVE TypeOK'
  BY <1>32, PhaseMembers, ChainMembers DEF TypeOK, Takeover
<1>33. ASSUME NEW p \in Procs, LeaseLostNoticed(p) PROVE TypeOK'
  BY <1>33, PhaseMembers, ChainMembers DEF TypeOK, LeaseLostNoticed
<1>34. ASSUME NEW p \in Procs, RequeueRunning(p) PROVE TypeOK'
  <2>1. job' \in JobRows
    BY <1>34, <1>job, StatusMembers, CodeMembers, ChainMembers DEF RequeueRunning, Recover, Released,
       JobRows
  <2> QED
    BY <1>34, PhaseMembers, <2>1 DEF TypeOK, RequeueRunning, Recover, Released
<1>35. ASSUME NEW p \in Procs, FailHashless(p) PROVE TypeOK'
  <2>1. job' \in JobRows
    BY <1>35, <1>job, StatusMembers, CodeMembers, ChainMembers DEF FailHashless, Recover, Released,
       JobRows
  <2> QED
    BY <1>35, PhaseMembers, <2>1 DEF TypeOK, FailHashless, Recover, Released
<1>36. ASSUME NEW p \in Procs, ParkInFlight(p) PROVE TypeOK'
  <2>1. job' \in JobRows
    BY <1>36, <1>job, StatusMembers, CodeMembers, ChainMembers DEF ParkInFlight, Recover, Released,
       JobRows
  <2> QED
    BY <1>36, PhaseMembers, <2>1 DEF TypeOK, ParkInFlight, Recover, Released
<1>37. ASSUME NEW p \in Procs, CloseSessions(p) PROVE TypeOK'
  <2>1. job' \in JobRows
    BY <1>37, <1>job, StatusMembers, CodeMembers, ChainMembers DEF CloseSessions, Recover, Released,
       JobRows
  <2> QED
    BY <1>37, PhaseMembers, <2>1 DEF TypeOK, CloseSessions, Recover, Released
<1>38. ASSUME NEW p \in Procs, RecoverySkipped(p) PROVE TypeOK'
  BY <1>38, PhaseMembers, ChainMembers DEF TypeOK, RecoverySkipped
<1>39. ASSUME NEW p \in Procs, NEW t \in Txs, AnnounceSubmitIntent(p, t) PROVE TypeOK'
  <2>1. exec' \in [Procs -> Execs]
    BY <1>39, <1>exec, ExecMembers DEF AnnounceSubmitIntent, Execs, IdleExec
  <2> QED
    BY <1>39, <2>1 DEF TypeOK, AnnounceSubmitIntent
<1>40. ASSUME NEW p \in Procs, NEW t \in Txs, WorkerSends(p, t) PROVE TypeOK'
  BY <1>40, PhaseMembers, ChainMembers DEF TypeOK, WorkerSends
<1>41. ASSUME NEW h \in late, LateHookStored(h) PROVE TypeOK'
  <2>1. job' \in JobRows
    BY <1>41, <1>job, StatusMembers, CodeMembers, ChainMembers, <1>late DEF LateHookStored,
       BroadcastRecorded, JobRows, LateHooks
  <2>2. row' \in [Txs -> AttemptRows]
    BY <1>41, <1>row, RowMembers, <1>late DEF LateHookStored, BroadcastRecorded, AttemptRows, LateHooks
  <2>3. exec' \in [Procs -> Execs]
    <3>1. exec[h.proc] \in Execs /\ h.proc \in Procs /\ h.tx \in Txs
      BY <1>exec, <1>late DEF LateHooks
    <3>2. [exec[h.proc] EXCEPT !.led = h.tx, !.crossed = TRUE,
                               !.resv = IF channel = "sponsor" THEN 1 ELSE 0] \in Execs
      BY <3>1 DEF Execs
    <3> QED
      BY <1>41, <1>exec, <3>1, <3>2 DEF LateHookStored
  <2> QED
    BY <1>41, <2>1, <2>2, <2>3 DEF TypeOK, LateHookStored, BroadcastRecorded, LateHooks
<1>42. ASSUME NEW h \in late, LateHookFails(h) PROVE TypeOK'
  BY <1>42, PhaseMembers, ChainMembers DEF TypeOK, LateHookFails
<1>43. ASSUME NEW t \in Txs, NEW r \in Outcomes \cup {"none"}, Include(t, r) PROVE TypeOK'
  BY <1>43, PhaseMembers, ChainMembers DEF TypeOK, Include
<1>44. ASSUME NEW t \in Txs, NEW r \in Outcomes \cup {"none"}, Reorg(t, r) PROVE TypeOK'
  BY <1>44, PhaseMembers, ChainMembers DEF TypeOK, Reorg
<1>45. ASSUME NEW t \in Txs, Expire(t) PROVE TypeOK'
  BY <1>45, PhaseMembers, ChainMembers DEF TypeOK, Expire
<1>46. ASSUME NEW t \in Txs, Bury(t) PROVE TypeOK'
  BY <1>46, PhaseMembers, ChainMembers DEF TypeOK, Bury
<1>47. CASE Rollback
  <2>1. job' \in JobRows
    BY <1>47, <1>job, StatusMembers, CodeMembers, ChainMembers DEF Rollback, RowReverted, JobReverted,
       JobRows
  <2>2. row' \in [Txs -> AttemptRows]
    BY <1>47, <1>row, RowMembers DEF Rollback, RowReverted, JobReverted, AttemptRows
  <2>3. gen' \in Nat
    BY <1>47, <1>gen DEF Rollback
  <2>5. rollbackDue' = FALSE
    BY <1>47 DEF Rollback
  <2>4. UNCHANGED <<channel, charged, recorded, holder, phase, fenced, restarts, exec, late, cleared,
                    pool, chain, ttl, reorgs, conf>>
    BY <1>47 DEF Rollback
  <2> QED
    BY <2>1, <2>2, <2>3, <2>4, <2>5 DEF TypeOK
<1>48. CASE UNCHANGED vars
  BY <1>48 DEF TypeOK, vars
<1> QED
  BY <1>1, <1>2, <1>3, <1>4, <1>5, <1>6, <1>7, <1>8, <1>9, <1>10, <1>11, <1>12, <1>13, <1>14, <1>15,
     <1>16, <1>17, <1>18, <1>19, <1>20, <1>21, <1>22, <1>23, <1>24, <1>25, <1>26, <1>27, <1>28, <1>29,
     <1>30, <1>31, <1>32, <1>33, <1>34, <1>35, <1>36, <1>37, <1>38, <1>39, <1>40, <1>41, <1>42, <1>43,
     <1>44, <1>45, <1>46, <1>47, <1>48 DEF Next, Execution, Passes, Lifecycle, LateHook, Chain

\* The initial states have them.
LEMMA TypeInit == Init => TypeOK /\ Defined
<1> SUFFICES ASSUME Init PROVE TypeOK /\ Defined
  OBVIOUS
<1>1. IdleExec \in Execs
  BY ExecMembers DEF IdleExec, Execs
<1>2. IdleConf \in Confs
  BY ChainMembers, CodeMembers DEF IdleConf, Confs
<1>3. job \in JobRows
  BY StatusMembers, CodeMembers, ChainMembers DEF Init, JobRows
<1>4. row \in [Txs -> AttemptRows]
  BY RowMembers DEF Init, AttemptRows
<1>5. TypeOK
  <2>1. holder \in Procs /\ phase \in [Procs -> Phases]
    BY PhaseMembers DEF Init
  <2>2. exec \in [Procs -> Execs] /\ conf \in [Procs -> Confs]
    BY <1>1, <1>2 DEF Init
  <2>3. /\ channel \in {"bound", "sponsor"} /\ charged \in Int /\ gen \in Nat /\ restarts \in Nat
        /\ reorgs \in Nat /\ late \in SUBSET LateHooks /\ pool \in SUBSET Txs
    BY DEF Init
  <2>4. /\ cleared \in [Procs -> SUBSET Txs] /\ chain \in [Txs -> {"none"} \cup Outcomes]
        /\ ttl \in [Txs -> {"unbuilt", "valid", "expired", "buried"}] /\ fenced \in [Procs -> BOOLEAN]
    BY DEF Init
  <2>5. recorded = FALSE /\ rollbackDue = FALSE
    BY DEF Init
  <2> QED
    BY <1>3, <1>4, <2>1, <2>2, <2>3, <2>4, <2>5 DEF TypeOK
<1>6. Defined
  BY DEF Init, Defined, IdleExec, IdleConf
<1> QED
  BY <1>5, <1>6

\* An execution that waits for an acknowledgement has a transaction, and so has a lookup.
LEMMA DefinedNext == TypeOK /\ Defined /\ [Next]_vars => Defined'
<1> SUFFICES ASSUME TypeOK, Defined, [Next]_vars PROVE Defined'
  OBVIOUS
<1> USE DEF dbVars, procVars, execVars, netVars
<1>t. exec \in [Procs -> Execs] /\ conf \in [Procs -> Confs] /\ job \in JobRows /\ late \in SUBSET LateHooks
  BY DEF TypeOK
<1>same. UNCHANGED <<exec, conf>> => Defined'
  BY DEF Defined
<1>1. ASSUME NEW p \in Procs, Claim(p) PROVE Defined'
  BY <1>1, <1>t DEF Defined, Claim, Execs, IdleExec
<1>2. ASSUME NEW p \in Procs, ReportExternalExecution(p) PROVE Defined'
  <2>1. /\ conf' = conf
        /\ \E e \in {[exec[p] EXCEPT !.crossed = TRUE], [exec[p] EXCEPT !.pc = "failed", !.err = "internal"]} :
              exec' = [exec EXCEPT ![p] = e]
    BY <1>2 DEF ReportExternalExecution
  <2>2. PICK e \in {[exec[p] EXCEPT !.crossed = TRUE], [exec[p] EXCEPT !.pc = "failed", !.err = "internal"]} :
              exec' = [exec EXCEPT ![p] = e]
    BY <2>1
  <2>3. e.pc = "intent" => e.cur \in Txs
    BY <1>t DEF Defined, Execs
  <2> QED
    BY <1>t, <2>1, <2>2, <2>3 DEF Defined
<1>3. ASSUME NEW p \in Procs, AttemptFails(p) PROVE Defined'
  BY <1>3, <1>t DEF Defined, AttemptFails, Execs, IdleExec
<1>4. ASSUME NEW p \in Procs, AssertLeaseHeld(p) PROVE Defined'
  BY <1>4, <1>t DEF Defined, AssertLeaseHeld, Execs, IdleExec
<1>5. ASSUME NEW p \in Procs, SubmitIntentStored(p) PROVE Defined'
  BY <1>5, <1>t DEF Defined, SubmitIntentStored, Execs, IdleExec
<1>6. ASSUME NEW p \in Procs, SubmitIntentRefused(p) PROVE Defined'
  BY <1>6, <1>t DEF Defined, SubmitIntentRefused, Execs, IdleExec
<1>7. ASSUME NEW p \in Procs, SubmitIntentAbandoned(p) PROVE Defined'
  BY <1>7, <1>t DEF Defined, SubmitIntentAbandoned, Execs, IdleExec
<1>8. ASSUME NEW p \in Procs, WorkerRejected(p) PROVE Defined'
  BY <1>8, <1>t DEF Defined, WorkerRejected, Answered, Execs, IdleExec
<1>9. ASSUME NEW p \in Procs, WorkerAmbiguous(p) PROVE Defined'
  BY <1>9, <1>t DEF Defined, WorkerAmbiguous, Answered, Execs, IdleExec
<1>10. ASSUME NEW p \in Procs, WorkerFailed(p) PROVE Defined'
  BY <1>10, <1>t DEF Defined, WorkerFailed, Answered, Execs, IdleExec
<1>11. ASSUME NEW p \in Procs, WorkerLanded(p) PROVE Defined'
  BY <1>11, <1>t DEF Defined, WorkerLanded, Answered, Execs, IdleExec
<1>12. ASSUME NEW p \in Procs, RejectionBooked(p) PROVE Defined'
  BY <1>12, <1>t DEF Defined, RejectionBooked, Execs, IdleExec
<1>13. ASSUME NEW p \in Procs, RejectionNotBooked(p) PROVE Defined'
  BY <1>13, <1>t DEF Defined, RejectionNotBooked, Execs, IdleExec
<1>14. ASSUME NEW p \in Procs, AttemptClosedAsRebuilt(p) PROVE Defined'
  BY <1>14, <1>t DEF Defined, AttemptClosedAsRebuilt, Execs, IdleExec
<1>15. ASSUME NEW p \in Procs, NothingToBook(p) PROVE Defined'
  BY <1>15, <1>t DEF Defined, NothingToBook, Execs, IdleExec
<1>16. ASSUME NEW p \in Procs, ReadFailedJob(p) PROVE Defined'
  BY <1>16, <1>t DEF Defined, ReadFailedJob, Execs, IdleExec
<1>17. ASSUME NEW p \in Procs, SettleWithoutHash(p) PROVE Defined'
  BY <1>17, <1>t DEF Defined, SettleWithoutHash, Idle, Execs, IdleExec
<1>18. ASSUME NEW p \in Procs, SettleWithHash(p) PROVE Defined'
  BY <1>18, <1>t DEF Defined, SettleWithHash, Idle, Execs, IdleExec
<1>19. ASSUME NEW p \in Procs, SettleNotApplied(p) PROVE Defined'
  BY <1>19, <1>t DEF Defined, SettleNotApplied, Execs, IdleExec, Confs, IdleConf
<1>20. ASSUME NEW p \in Procs, RecordLanded(p) PROVE Defined'
  BY <1>20, <1>t DEF Defined, RecordLanded, Answered, Execs, IdleExec
<1>21. ASSUME NEW p \in Procs, MarkSucceeded(p) PROVE Defined'
  BY <1>21, <1>t DEF Defined, MarkSucceeded, Idle, Execs, IdleExec
<1>22. ASSUME NEW p \in Procs, ResultNotPersisted(p) PROVE Defined'
  BY <1>22, <1>t DEF Defined, ResultNotPersisted, Idle, Execs, IdleExec
<1>23. ASSUME NEW p \in Procs, ReclaimExpiredLease(p) PROVE Defined'
  BY <1>23, <1>same DEF ReclaimExpiredLease
<1>24. ASSUME NEW p \in Procs, SettleRejectedAttempt(p) PROVE Defined'
  BY <1>24, <1>same DEF SettleRejectedAttempt
<1>25. ASSUME NEW p \in Procs, ConfirmRead(p) PROVE Defined'
  BY <1>25, <1>t DEF Defined, ConfirmRead, Confs, IdleConf, JobRows
<1>26. ASSUME NEW p \in Procs, Lookup(p) PROVE Defined'
  BY <1>26, <1>t DEF Defined, Lookup, Confs, IdleConf
<1>27. ASSUME NEW p \in Procs, LookupFails(p) PROVE Defined'
  BY <1>27, <1>t DEF Defined, LookupFails, Confs, IdleConf
<1>28. ASSUME NEW p \in Procs, RecordOutcome(p) PROVE Defined'
  BY <1>28, <1>t DEF Defined, RecordOutcome, ConfDone, Execs, IdleExec, Confs, IdleConf
<1>29. ASSUME NEW p \in Procs, FinalizeLostBroadcast(p) PROVE Defined'
  BY <1>29, <1>t DEF Defined, FinalizeLostBroadcast, ConfDone, Execs, IdleExec, Confs, IdleConf
<1>30. ASSUME NEW p \in Procs, NoVerdict(p) PROVE Defined'
  BY <1>30, <1>t DEF Defined, NoVerdict, ConfDone, Execs, IdleExec, Confs, IdleConf
<1>31. ASSUME NEW p \in Procs, Crash(p) PROVE Defined'
  BY <1>31, <1>t DEF Defined, Crash, Execs, IdleExec, Confs, IdleConf
<1>32. ASSUME NEW p \in Procs, Takeover(p) PROVE Defined'
  BY <1>32, <1>same DEF Takeover
<1>33. ASSUME NEW p \in Procs, LeaseLostNoticed(p) PROVE Defined'
  BY <1>33, <1>same DEF LeaseLostNoticed
<1>34. ASSUME NEW p \in Procs, RequeueRunning(p) PROVE Defined'
  BY <1>34, <1>same DEF RequeueRunning, Recover
<1>35. ASSUME NEW p \in Procs, FailHashless(p) PROVE Defined'
  BY <1>35, <1>same DEF FailHashless, Recover
<1>36. ASSUME NEW p \in Procs, ParkInFlight(p) PROVE Defined'
  BY <1>36, <1>same DEF ParkInFlight, Recover
<1>37. ASSUME NEW p \in Procs, CloseSessions(p) PROVE Defined'
  BY <1>37, <1>same DEF CloseSessions, Recover
<1>38. ASSUME NEW p \in Procs, RecoverySkipped(p) PROVE Defined'
  BY <1>38, <1>same DEF RecoverySkipped
<1>39. ASSUME NEW p \in Procs, NEW t \in Txs, AnnounceSubmitIntent(p, t) PROVE Defined'
  BY <1>39, <1>t DEF Defined, AnnounceSubmitIntent, Execs, IdleExec
<1>40. ASSUME NEW p \in Procs, NEW t \in Txs, WorkerSends(p, t) PROVE Defined'
  BY <1>40, <1>same DEF WorkerSends
<1>41. ASSUME NEW h \in late, LateHookStored(h) PROVE Defined'
  BY <1>41, <1>t DEF Defined, LateHookStored, Execs, IdleExec, LateHooks
<1>42. ASSUME NEW h \in late, LateHookFails(h) PROVE Defined'
  BY <1>42, <1>same DEF LateHookFails
<1>43. ASSUME NEW t \in Txs, NEW r \in Outcomes \cup {"none"}, Include(t, r) PROVE Defined'
  BY <1>43, <1>same DEF Include
<1>44. ASSUME NEW t \in Txs, NEW r \in Outcomes \cup {"none"}, Reorg(t, r) PROVE Defined'
  BY <1>44, <1>same DEF Reorg
<1>45. ASSUME NEW t \in Txs, Expire(t) PROVE Defined'
  BY <1>45, <1>same DEF Expire
<1>46. ASSUME NEW t \in Txs, Bury(t) PROVE Defined'
  BY <1>46, <1>same DEF Bury
<1>47. CASE Rollback
  BY <1>47, <1>same DEF Rollback
<1>48. CASE UNCHANGED vars
  BY <1>48, <1>same DEF vars
<1> QED
  BY <1>1, <1>2, <1>3, <1>4, <1>5, <1>6, <1>7, <1>8, <1>9, <1>10, <1>11, <1>12, <1>13, <1>14, <1>15,
     <1>16, <1>17, <1>18, <1>19, <1>20, <1>21, <1>22, <1>23, <1>24, <1>25, <1>26, <1>27, <1>28, <1>29,
     <1>30, <1>31, <1>32, <1>33, <1>34, <1>35, <1>36, <1>37, <1>38, <1>39, <1>40, <1>41, <1>42, <1>43,
     <1>44, <1>45, <1>46, <1>47, <1>48 DEF Next, Execution, Passes, Lifecycle, LateHook, Chain

\* Rows, executions and lookups keep their types.
THEOREM TypeCorrect == Spec => []TypeOK
<1>1. Init => TypeOK /\ Defined
  BY TypeInit
<1>2. TypeOK /\ Defined /\ [Next]_vars => (TypeOK /\ Defined)'
  BY TypeNext, DefinedNext
<1> QED
  BY <1>1, <1>2, PTL DEF Spec


-----------------------------------------------------------------------------
\* Each process has a worker id of its own (NIGHTGATE_INSTANCE_ID is not shared).
DistinctWorkerIds == \A p, q \in Procs : WorkerId[p] = WorkerId[q] => p = q

(* The inductive invariant behind OnlyJobHashCanLand and NoReplayAfterSend. *)

\* No transaction of the job can reach the chain any more.
NothingLandable == \A t \in Txs : ~Landable(t)

\* Process p built t and its execution, its worker or one of its hooks still refers to it.
Uses(p, t) ==
    \/ exec[p].cur = t
    \/ t \in cleared[p]
    \/ \E h \in late : h.proc = p /\ h.tx = t

\* A transaction is built once, by one process.
BuiltOnce ==
    /\ \A t \in Txs : ttl[t] = "unbuilt" => t \notin pool /\ \A p \in Procs : ~Uses(p, t)
    /\ \A p, q \in Procs : \A t \in Txs : Uses(p, t) /\ Uses(q, t) => p = q

\* An execution whose current transaction was refused, or not acknowledged, or not built yet.
NotSent(p) ==
    \/ exec[p].pc \in {"run", "intent"}
    \/ exec[p].pc \in {"error", "failed", "settle"} /\ exec[p].err \in {"reject", "intent", "bookkeeping"}

\* What an execution knows of its current transaction.
ExecKnows ==
    \A p \in Procs :
       /\ exec[p].pc = "idle" => exec[p].cur = NoTx
       /\ exec[p].led \in {NoTx, exec[p].cur}
       /\ exec[p].pc \in {"run", "intent"} => exec[p].led = NoTx
       /\ NotSent(p) => \A t \in Txs : exec[p].cur = t => ~Landable(t)

\* An execution that reported the boundary moved the job past it for good; a bound submission reports
\* it before it announces.
CrossedIsPast ==
    \A p \in Procs :
       /\ exec[p].crossed => job.status \notin {"pending", "running"}
       /\ exec[p].pc = "intent" /\ channel = "bound" => exec[p].crossed

\* A process that runs the job under its lease accounts for everything that can land.
OwnerKnows ==
    \A p \in Procs : exec[p].pc # "idle" /\ Mine(p, InFlight) =>
       \A t \in Txs : Landable(t) => exec[p].cur = t

\* An execution that ends without another attempt.
Ending(p) == exec[p].pc \in {"error", "failed", "settle"} /\ exec[p].err \notin {"reject", "notApplied"}

\* A hook that outlives its call: its transaction is not sent, its execution is past the send, and
\* if it may still move the job there is nothing to land.
HooksHarmless ==
    \A h \in late :
       /\ ~Landable(h.tx)
       /\ exec[h.proc].cur = h.tx => Ending(h.proc)
       /\ ~h.first => /\ job.status \notin {"pending", "running"}
                      /\ exec[h.proc].pc = "idle" \/ exec[h.proc].cur = h.tx
                      /\ Mine(h.proc, PastBoundary) => NothingLandable

\* A job that can be claimed or runs without a boundary has no hash.
NoHashBeforeBoundary == job.status \in {"pending", "running"} => job.tx = NoTx

\* A parked rejection has nothing to land.
ParkedRejection ==
    job.status = "reconciliation_required" /\ job.code = "REJECTED_ATTEMPT_BOOKKEEPING_PENDING" => NothingLandable

IInv ==
    /\ TypeOK /\ Defined
    /\ OnlyJobHashCanLand /\ NoHashBeforeBoundary
    /\ BuiltOnce /\ CrossedIsPast /\ ExecKnows /\ OwnerKnows /\ HooksHarmless /\ ParkedRejection

-----------------------------------------------------------------------------
(* Most steps preserve the invariant for the same reason: nothing new can be sent, executions keep *)
(* their current transaction, and the job row moves in one of a few ways.                           *)

JobStep ==
    /\ job'.tx = job.tx \/ \A t \in Txs : Landable(t) => job'.tx = t
    /\ job'.status \in {"pending", "running"} => job.status \in {"pending", "running"} /\ job'.tx = job.tx
    /\ \A p \in Procs : /\ Mine(p, InFlight)' => Mine(p, InFlight)
                        /\ Mine(p, PastBoundary)' => Mine(p, PastBoundary) \/ job.status = "running"
    /\ job'.status = "reconciliation_required" /\ job'.code = "REJECTED_ATTEMPT_BOOKKEEPING_PENDING" =>
          \/ job.status = "reconciliation_required" /\ job.code = "REJECTED_ATTEMPT_BOOKKEEPING_PENDING"
          \/ NothingLandable

Keeps(p) ==
    /\ exec[p].pc # "idle" /\ exec'[p].pc # "idle"
    /\ exec'[p].cur = exec[p].cur
    /\ exec'[p].led \in {NoTx, exec[p].led, exec[p].cur}
    /\ exec'[p].pc \in {"run", "intent"} => exec'[p].led = NoTx
    /\ NotSent(p)' => NotSent(p) \/ \A t \in Txs : exec[p].cur = t => ~Landable(t)'
    /\ Ending(p) => Ending(p)'
    /\ exec'[p].crossed => exec[p].crossed \/ job'.status \notin {"pending", "running"}
    /\ exec'[p].pc = "intent" => exec[p].pc = "intent" /\ exec'[p].crossed = exec[p].crossed

ExecStep == \A p \in Procs : exec'[p] = exec[p] \/ exec'[p] = IdleExec \/ Keeps(p)

SendStep ==
    /\ \A p \in Procs : cleared'[p] \subseteq cleared[p]
    /\ \A t \in pool' : Landable(t)
    /\ late' \subseteq late /\ channel' = channel
    /\ \A t \in Txs : ttl'[t] = "unbuilt" => ttl[t] = "unbuilt"

\* Nothing becomes able to land in such a step.
LEMMA SendStepShrinks ==
    ASSUME SendStep, NEW t \in Txs, Landable(t)' PROVE Landable(t)
  BY DEF SendStep, Landable

\* Such a step preserves the invariant.
LEMMA FrameStep ==
    ASSUME IInv, TypeOK', Defined', JobStep, ExecStep, SendStep PROVE IInv'
<1>0. NoTx \notin Txs
  BY ConstantsAssumption
<1>a. /\ exec \in [Procs -> Execs] /\ exec' \in [Procs -> Execs] /\ late \in SUBSET LateHooks
      /\ IdleExec.pc = "idle" /\ IdleExec.cur = NoTx /\ IdleExec.led = NoTx /\ IdleExec.crossed = FALSE
  BY DEF IInv, TypeOK, IdleExec
<1>s. \A t \in Txs : Landable(t)' => Landable(t)
  BY SendStepShrinks
<1>1. OnlyJobHashCanLand'
  BY <1>s DEF IInv, OnlyJobHashCanLand, JobStep
<1>2. NoHashBeforeBoundary'
  BY DEF IInv, NoHashBeforeBoundary, JobStep
<1>3. BuiltOnce'
  <2>1. ASSUME NEW p \in Procs, NEW t \in Txs, Uses(p, t)' PROVE Uses(p, t)
    <3>1. exec'[p].cur \in {NoTx, exec[p].cur}
      BY <1>a DEF ExecStep, Keeps
    <3> QED
      BY <1>0, <2>1, <3>1 DEF Uses, SendStep
  <2>2. ASSUME NEW t \in Txs, ttl'[t] = "unbuilt" PROVE t \notin pool'
    <3>1. ttl[t] = "unbuilt"
      BY <2>2 DEF SendStep
    <3>2. ~Landable(t)
      BY <3>1 DEF IInv, BuiltOnce, Uses, Landable
    <3> QED
      BY <3>2 DEF SendStep
  <2> QED
    BY <2>1, <2>2 DEF IInv, BuiltOnce, SendStep
<1>4. ExecKnows'
  <2> SUFFICES ASSUME NEW p \in Procs
               PROVE  /\ exec'[p].pc = "idle" => exec'[p].cur = NoTx
                      /\ exec'[p].led \in {NoTx, exec'[p].cur}
                      /\ exec'[p].pc \in {"run", "intent"} => exec'[p].led = NoTx
                      /\ NotSent(p)' => \A t \in Txs : exec'[p].cur = t => ~Landable(t)'
    BY DEF ExecKnows
  <2>1. /\ exec[p].pc = "idle" => exec[p].cur = NoTx
        /\ exec[p].led \in {NoTx, exec[p].cur}
        /\ exec[p].pc \in {"run", "intent"} => exec[p].led = NoTx
        /\ NotSent(p) => \A t \in Txs : exec[p].cur = t => ~Landable(t)
    BY DEF IInv, ExecKnows
  <2>2. CASE exec'[p] = exec[p]
    BY <2>1, <2>2, <1>s DEF NotSent
  <2>3. CASE exec'[p] = IdleExec
    BY <2>3, <1>a, <1>0
  <2>4. CASE Keeps(p)
    BY <2>1, <2>4, <1>s DEF Keeps
  <2> QED
    BY <2>2, <2>3, <2>4 DEF ExecStep
<1>5. OwnerKnows'
  <2> SUFFICES ASSUME NEW p \in Procs, exec'[p].pc # "idle", Mine(p, InFlight)', NEW t \in Txs, Landable(t)'
               PROVE  exec'[p].cur = t
    BY DEF OwnerKnows
  <2>1. Mine(p, InFlight) /\ Landable(t)
    BY <1>s DEF JobStep
  <2>2. exec[p].pc # "idle" /\ exec'[p].cur = exec[p].cur
    BY <1>a DEF ExecStep, Keeps
  <2> QED
    BY <2>1, <2>2 DEF IInv, OwnerKnows
<1>6. HooksHarmless'
  <2> SUFFICES ASSUME NEW h \in late'
               PROVE  /\ ~Landable(h.tx)'
                      /\ exec'[h.proc].cur = h.tx => Ending(h.proc)'
                      /\ ~h.first => /\ job'.status \notin {"pending", "running"}
                                     /\ exec'[h.proc].pc = "idle" \/ exec'[h.proc].cur = h.tx
                                     /\ Mine(h.proc, PastBoundary)' => NothingLandable'
    BY DEF HooksHarmless
  <2>1. h \in late /\ h.proc \in Procs /\ h.tx \in Txs
    BY <1>a DEF SendStep, LateHooks
  <2>2. /\ ~Landable(h.tx)
        /\ exec[h.proc].cur = h.tx => Ending(h.proc)
        /\ ~h.first => /\ job.status \notin {"pending", "running"}
                       /\ exec[h.proc].pc = "idle" \/ exec[h.proc].cur = h.tx
                       /\ Mine(h.proc, PastBoundary) => NothingLandable
    BY <2>1 DEF IInv, HooksHarmless
  <2>3. ~Landable(h.tx)'
    BY <1>s, <2>1, <2>2
  <2>4. exec'[h.proc].cur = h.tx => Ending(h.proc)'
    BY <1>0, <1>a, <2>1, <2>2 DEF ExecStep, Keeps, Ending
  <2>5. ~h.first => exec'[h.proc].pc = "idle" \/ exec'[h.proc].cur = h.tx
    BY <1>a, <2>1, <2>2 DEF ExecStep, Keeps
  <2>6. ~h.first => job'.status \notin {"pending", "running"}
    BY <2>2 DEF JobStep
  <2>7. ~h.first /\ Mine(h.proc, PastBoundary)' => NothingLandable'
    BY <1>s, <2>1, <2>2 DEF JobStep, NothingLandable
  <2> QED
    BY <2>3, <2>4, <2>5, <2>6, <2>7
<1>7. ParkedRejection'
  BY <1>s DEF IInv, ParkedRejection, JobStep, NothingLandable
<1>8. CrossedIsPast'
  BY <1>a DEF IInv, CrossedIsPast, ExecStep, Keeps, JobStep, SendStep
<1> QED
  BY <1>1, <1>2, <1>3, <1>4, <1>5, <1>6, <1>7, <1>8 DEF IInv

\* The three parts of a frame step, for a step that leaves the job row alone,
LEMMA JobUnchanged == job' = job => JobStep
  BY DEF JobStep, Mine

\* for one that leaves the sending state alone,
LEMMA SendUnchanged == TypeOK /\ UNCHANGED <<channel, cleared, pool, late, ttl>> => SendStep
  BY DEF SendStep, Landable, TypeOK

\* and for one that leaves the executions alone.
LEMMA ExecUnchanged == exec' = exec => ExecStep
  BY DEF ExecStep

\* A step that changes the execution of one process only.
LEMMA ExecOfOne ==
    ASSUME TypeOK, NEW p \in Procs, NEW e, exec' = [exec EXCEPT ![p] = e], e = IdleExec \/ Keeps(p)
    PROVE  ExecStep
  BY DEF ExecStep, TypeOK

\* Every step but the claim and the three of an announcement is a frame step.
LEMMA FrameNext ==
    ASSUME IInv, Next,
           \A p \in Procs : /\ ~Claim(p) /\ ~SubmitIntentStored(p) /\ ~SubmitIntentAbandoned(p)
                            /\ \A t \in Txs : ~AnnounceSubmitIntent(p, t)
    PROVE  JobStep /\ ExecStep /\ SendStep
<1> USE DEF dbVars, procVars, execVars, netVars
<1>0. NoTx \notin Txs /\ \A p \in Procs : WorkerId[p] # NoOwner
  BY ConstantsAssumption
<1>t. TypeOK /\ exec \in [Procs -> Execs] /\ job \in JobRows
  BY DEF IInv, TypeOK
<1>1. ASSUME NEW p \in Procs, ReportExternalExecution(p) PROVE JobStep /\ ExecStep /\ SendStep
  <2>1. JobStep
    BY <1>1, <1>0, <1>t DEF ReportExternalExecution, JobStep, Mine, InFlight, PastBoundary, JobRows
  <2>2. ExecStep
    <3>k. exec[p].pc = "run" /\ exec[p].led = NoTx
      BY <1>1 DEF ReportExternalExecution, IInv, ExecKnows
    <3>1. CASE /\ Mine(p, {"running"}) /\ job' = [job EXCEPT !.status = "external_execution"]
               /\ exec' = [exec EXCEPT ![p] = [exec[p] EXCEPT !.crossed = TRUE]]
      <4>s. job'.status = "external_execution"
        BY <3>1, <1>t DEF JobRows
      <4>1. Keeps(p)
        BY <1>t, <3>k, <3>1, <4>s DEF Keeps, NotSent, Ending, Execs
      <4> QED
        BY <1>t, <3>1, <4>1, ExecOfOne
    <3>2. CASE exec' = [exec EXCEPT ![p] = [exec[p] EXCEPT !.pc = "failed", !.err = "internal"]]
      <4>1. Keeps(p)
        BY <1>t, <3>k, <3>2 DEF Keeps, NotSent, Ending, Execs
      <4> QED
        BY <1>t, <3>2, <4>1, ExecOfOne
    <3> QED
      BY <1>1, <3>1, <3>2 DEF ReportExternalExecution
  <2>3. SendStep
    BY <1>1, <1>t, SendUnchanged DEF ReportExternalExecution
  <2> QED
    BY <2>1, <2>2, <2>3
<1>2. ASSUME NEW p \in Procs, AttemptFails(p) PROVE JobStep /\ ExecStep /\ SendStep
  <2>1. JobStep
    BY <1>2, JobUnchanged DEF AttemptFails
  <2>2. ExecStep
    <3>1. exec' = [exec EXCEPT ![p] = [exec[p] EXCEPT !.pc = "failed", !.err = "internal"]]
      BY <1>2 DEF AttemptFails
    <3>2. Keeps(p)
      BY <1>2, <1>t, <3>1 DEF AttemptFails, Keeps, NotSent, Ending, Execs
    <3> QED
      BY <1>t, <3>1, <3>2, ExecOfOne
  <2>3. SendStep
    BY <1>2, <1>t, SendUnchanged DEF AttemptFails
  <2> QED
    BY <2>1, <2>2, <2>3
<1>3. ASSUME NEW p \in Procs, AssertLeaseHeld(p) PROVE JobStep /\ ExecStep /\ SendStep
  <2>1. JobStep
    BY <1>3, JobUnchanged DEF AssertLeaseHeld
  <2>2. ExecStep
    <3>k. exec[p].pc = "intent" => exec[p].led = NoTx
      BY DEF IInv, ExecKnows
    <3>1. CASE exec' = [exec EXCEPT ![p] = [exec[p] EXCEPT !.chk = TRUE]]
      <4>1. Keeps(p)
        BY <1>3, <1>t, <3>1, <3>k DEF AssertLeaseHeld, Keeps, NotSent, Ending, Execs
      <4> QED
        BY <1>t, <3>1, <4>1, ExecOfOne
    <3>2. CASE exec' = [exec EXCEPT ![p] = [exec[p] EXCEPT !.pc = "error", !.err = "intent"]]
      <4>1. Keeps(p)
        BY <1>3, <1>t, <3>2, <3>k DEF AssertLeaseHeld, Keeps, NotSent, Ending, Execs
      <4> QED
        BY <1>t, <3>2, <4>1, ExecOfOne
    <3> QED
      BY <1>3, <3>1, <3>2 DEF AssertLeaseHeld
  <2>3. SendStep
    BY <1>3, <1>t, SendUnchanged DEF AssertLeaseHeld
  <2> QED
    BY <2>1, <2>2, <2>3
<1>4. ASSUME NEW p \in Procs, SubmitIntentRefused(p) PROVE JobStep /\ ExecStep /\ SendStep
  <2>1. JobStep
    BY <1>4, JobUnchanged DEF SubmitIntentRefused
  <2>2. ExecStep
    <3>1. exec' = [exec EXCEPT ![p] = [exec[p] EXCEPT !.pc = "error", !.err = "intent"]]
      BY <1>4 DEF SubmitIntentRefused
    <3>2. Keeps(p)
      BY <1>4, <1>t, <3>1 DEF SubmitIntentRefused, Keeps, NotSent, Ending, Execs
    <3> QED
      BY <1>t, <3>1, <3>2, ExecOfOne
  <2>3. SendStep
    BY <1>4, <1>t, SendUnchanged DEF SubmitIntentRefused
  <2> QED
    BY <2>1, <2>2, <2>3
<1>5. ASSUME NEW p \in Procs, WorkerRejected(p) PROVE JobStep /\ ExecStep /\ SendStep
  <2>1. JobStep
    BY <1>5, JobUnchanged DEF WorkerRejected, Answered
  <2>2. ExecStep
    <3>1. exec' = [exec EXCEPT ![p] = [exec[p] EXCEPT !.pc = "error", !.err = "reject"]]
      BY <1>5 DEF WorkerRejected, Answered
    <3>2. \A t \in Txs : exec[p].cur = t => ~Landable(t)'
      <4>1. ASSUME NEW t \in Txs, exec[p].cur = t, NEW q \in Procs, t \in cleared[q] PROVE q = p
        BY <4>1 DEF IInv, BuiltOnce, Uses
      <4> QED
        BY <1>5, <1>t, <4>1 DEF WorkerRejected, Landable, TypeOK
    <3>3. Keeps(p)
      BY <1>5, <1>t, <3>1, <3>2 DEF WorkerRejected, Keeps, NotSent, Ending, Execs
    <3> QED
      BY <1>t, <3>1, <3>3, ExecOfOne
  <2>3. SendStep
    BY <1>5, <1>t DEF WorkerRejected, Answered, SendStep, Landable, TypeOK
  <2> QED
    BY <2>1, <2>2, <2>3
<1>6. ASSUME NEW p \in Procs, WorkerAmbiguous(p) PROVE JobStep /\ ExecStep /\ SendStep
  <2>1. JobStep
    BY <1>6, JobUnchanged DEF WorkerAmbiguous, Answered
  <2>2. ExecStep
    <3>1. exec' = [exec EXCEPT ![p] = [exec[p] EXCEPT !.pc = "error", !.err = "ambiguous"]]
      BY <1>6 DEF WorkerAmbiguous, Answered
    <3>2. Keeps(p)
      BY <1>6, <1>t, <3>1 DEF WorkerAmbiguous, Keeps, NotSent, Ending, Execs
    <3> QED
      BY <1>t, <3>1, <3>2, ExecOfOne
  <2>3. SendStep
    BY <1>6, <1>t, SendUnchanged DEF WorkerAmbiguous, Answered
  <2> QED
    BY <2>1, <2>2, <2>3
<1>7. ASSUME NEW p \in Procs, WorkerFailed(p) PROVE JobStep /\ ExecStep /\ SendStep
  <2>1. JobStep
    BY <1>7, JobUnchanged DEF WorkerFailed, Answered
  <2>2. ExecStep
    <3>1. exec' = [exec EXCEPT ![p] = [exec[p] EXCEPT !.pc = "error", !.err = "internal"]]
      BY <1>7 DEF WorkerFailed, Answered
    <3>2. Keeps(p)
      BY <1>7, <1>t, <3>1 DEF WorkerFailed, Keeps, NotSent, Ending, Execs
    <3> QED
      BY <1>t, <3>1, <3>2, ExecOfOne
  <2>3. SendStep
    BY <1>7, <1>t DEF WorkerFailed, Answered, SendStep, Landable, TypeOK
  <2> QED
    BY <2>1, <2>2, <2>3
<1>8. ASSUME NEW p \in Procs, WorkerLanded(p) PROVE JobStep /\ ExecStep /\ SendStep
  <2>1. JobStep
    BY <1>8, JobUnchanged DEF WorkerLanded, Answered
  <2>2. ExecStep
    <3>1. CASE exec' = [exec EXCEPT ![p] = [exec[p] EXCEPT !.pc = "landed"]]
      <4>1. Keeps(p)
        BY <1>8, <1>t, <3>1 DEF WorkerLanded, Keeps, NotSent, Ending, Execs
      <4> QED
        BY <1>t, <3>1, <4>1, ExecOfOne
    <3>2. CASE exec' = [exec EXCEPT ![p] = [exec[p] EXCEPT !.pc = "error", !.err = "notApplied"]]
      <4>1. Keeps(p)
        BY <1>8, <1>t, <3>2 DEF WorkerLanded, Keeps, NotSent, Ending, Execs
      <4> QED
        BY <1>t, <3>2, <4>1, ExecOfOne
    <3> QED
      BY <1>8, <3>1, <3>2 DEF WorkerLanded, Answered
  <2>3. SendStep
    BY <1>8, <1>t, SendUnchanged DEF WorkerLanded, Answered
  <2> QED
    BY <2>1, <2>2, <2>3
<1>9. ASSUME NEW p \in Procs, RejectionBooked(p) PROVE JobStep /\ ExecStep /\ SendStep
  <2>1. JobStep
    <3>1. exec[p].led = exec[p].cur /\ job.tx = exec[p].cur /\ NotSent(p)
      BY <1>9 DEF RejectionBooked, IInv, ExecKnows, NotSent, PreInclusion
    <3>2. NothingLandable
      BY <3>1 DEF IInv, ExecKnows, OnlyJobHashCanLand, NothingLandable
    <3> QED
      BY <1>9, <1>0, <1>t, <3>2 DEF RejectionBooked, JobStep, Mine, InFlight, PastBoundary, JobRows,
         NothingLandable
  <2>2. ExecStep
    BY <1>9, <1>t DEF RejectionBooked, ExecStep, Keeps, NotSent, Ending, Execs
  <2>3. SendStep
    BY <1>9, <1>t, SendUnchanged DEF RejectionBooked
  <2> QED
    BY <2>1, <2>2, <2>3
<1>10. ASSUME NEW p \in Procs, RejectionNotBooked(p) PROVE JobStep /\ ExecStep /\ SendStep
  <2>1. JobStep
    BY <1>10, JobUnchanged DEF RejectionNotBooked, PreInclusion
  <2>2. ExecStep
    <3>1. exec' = [exec EXCEPT ![p] = [exec[p] EXCEPT !.pc = "failed", !.err = "bookkeeping"]]
      BY <1>10 DEF RejectionNotBooked
    <3>2. Keeps(p)
      BY <1>10, <1>t, <3>1 DEF RejectionNotBooked, Keeps, NotSent, Ending, Execs, PreInclusion
    <3> QED
      BY <1>t, <3>1, <3>2, ExecOfOne
  <2>3. SendStep
    BY <1>10, <1>t, SendUnchanged DEF RejectionNotBooked, PreInclusion
  <2> QED
    BY <2>1, <2>2, <2>3
<1>11. ASSUME NEW p \in Procs, AttemptClosedAsRebuilt(p) PROVE JobStep /\ ExecStep /\ SendStep
  <2>1. JobStep
    BY <1>11, JobUnchanged DEF AttemptClosedAsRebuilt
  <2>2. ExecStep
    <3>1. exec' = [exec EXCEPT ![p] = [exec[p] EXCEPT !.pc = "failed", !.led = NoTx]]
      BY <1>11 DEF AttemptClosedAsRebuilt
    <3>2. Keeps(p)
      BY <1>11, <1>t, <3>1 DEF AttemptClosedAsRebuilt, Keeps, NotSent, Ending, Execs
    <3> QED
      BY <1>t, <3>1, <3>2, ExecOfOne
  <2>3. SendStep
    BY <1>11, <1>t, SendUnchanged DEF AttemptClosedAsRebuilt
  <2> QED
    BY <2>1, <2>2, <2>3
<1>12. ASSUME NEW p \in Procs, NothingToBook(p) PROVE JobStep /\ ExecStep /\ SendStep
  <2>1. JobStep
    BY <1>12, JobUnchanged DEF NothingToBook
  <2>2. ExecStep
    <3>1. exec' = [exec EXCEPT ![p] = [exec[p] EXCEPT !.pc = "failed"]]
      BY <1>12 DEF NothingToBook
    <3>2. Keeps(p)
      BY <1>12, <1>t, <3>1 DEF NothingToBook, Keeps, NotSent, Ending, Execs
    <3> QED
      BY <1>t, <3>1, <3>2, ExecOfOne
  <2>3. SendStep
    BY <1>12, <1>t, SendUnchanged DEF NothingToBook
  <2> QED
    BY <2>1, <2>2, <2>3
<1>13. ASSUME NEW p \in Procs, ReadFailedJob(p) PROVE JobStep /\ ExecStep /\ SendStep
  <2>1. JobStep
    BY <1>13, JobUnchanged DEF ReadFailedJob
  <2>2. ExecStep
    <3>1. exec' = [exec EXCEPT ![p] = [exec[p] EXCEPT !.pc = "settle", !.snap = job.tx]]
      BY <1>13 DEF ReadFailedJob
    <3>2. Keeps(p)
      BY <1>13, <1>t, <3>1 DEF ReadFailedJob, Keeps, NotSent, Ending, Execs
    <3> QED
      BY <1>t, <3>1, <3>2, ExecOfOne
  <2>3. SendStep
    BY <1>13, <1>t, SendUnchanged DEF ReadFailedJob
  <2> QED
    BY <2>1, <2>2, <2>3
<1>14. ASSUME NEW p \in Procs, SettleWithoutHash(p) PROVE JobStep /\ ExecStep /\ SendStep
  <2>1. JobStep
    BY <1>14, <1>0, <1>t DEF SettleWithoutHash, MarkUnlessLost, Released, Idle, JobStep, Mine,
       InFlight, PastBoundary, JobRows
  <2>2. ExecStep
    BY <1>14, <1>t, ExecOfOne DEF SettleWithoutHash, Idle
  <2>3. SendStep
    BY <1>14, <1>t, SendUnchanged DEF SettleWithoutHash, MarkUnlessLost, Released, Idle
  <2> QED
    BY <2>1, <2>2, <2>3
<1>15. ASSUME NEW p \in Procs, SettleWithHash(p) PROVE JobStep /\ ExecStep /\ SendStep
  <2>1. JobStep
    <3>1. CASE job' = job
      BY <3>1, JobUnchanged
    <3>2. CASE /\ Mine(p, InFlight)
               /\ job' = [Released(job) EXCEPT !.status = "reconciliation_required",
                                               !.code = ParkCode(exec[p].err)]
      <4>1. job'.code = "REJECTED_ATTEMPT_BOOKKEEPING_PENDING" => NothingLandable
        <5>1. job'.code = ParkCode(exec[p].err)
          BY <3>2, <1>t DEF JobRows, Released
        <5>2. job'.code = "REJECTED_ATTEMPT_BOOKKEEPING_PENDING" => exec[p].err = "bookkeeping"
          BY <5>1 DEF ParkCode
        <5> QED
          BY <1>15, <3>2, <5>2 DEF SettleWithHash, IInv, ExecKnows, OwnerKnows, NotSent, NothingLandable
      <4>2. job'.tx = job.tx /\ job'.status = "reconciliation_required" /\ job'.owner = NoOwner
        BY <3>2, <1>t DEF JobRows, Released
      <4> QED
        BY <1>0, <4>1, <4>2 DEF JobStep, Mine
    <3> QED
      BY <1>15, <3>1, <3>2 DEF SettleWithHash, MarkUnlessLost
  <2>2. ExecStep
    BY <1>15, <1>t, ExecOfOne DEF SettleWithHash, Idle
  <2>3. SendStep
    BY <1>15, <1>t, SendUnchanged DEF SettleWithHash, MarkUnlessLost, Released, Idle, ParkCode
  <2> QED
    BY <2>1, <2>2, <2>3
<1>16. ASSUME NEW p \in Procs, SettleNotApplied(p) PROVE JobStep /\ ExecStep /\ SendStep
  <2>1. JobStep
    BY <1>16, JobUnchanged DEF SettleNotApplied
  <2>2. ExecStep
    <3>1. exec' = [exec EXCEPT ![p] = [exec[p] EXCEPT !.pc = "chainFailure"]]
      BY <1>16 DEF SettleNotApplied
    <3>2. Keeps(p)
      BY <1>16, <1>t, <3>1 DEF SettleNotApplied, Keeps, NotSent, Ending, Execs
    <3> QED
      BY <1>t, <3>1, <3>2, ExecOfOne
  <2>3. SendStep
    BY <1>16, <1>t, SendUnchanged DEF SettleNotApplied
  <2> QED
    BY <2>1, <2>2, <2>3
<1>17. ASSUME NEW p \in Procs, RecordLanded(p) PROVE JobStep /\ ExecStep /\ SendStep
  <2>1. JobStep
    <3>1. CASE job' = job
      BY <3>1, JobUnchanged
    <3>2. CASE /\ Mine(p, PastBoundary)
               /\ job' = [job EXCEPT !.status = "submitted", !.tx = exec[p].cur, !.chain = "pending"]
      <4>1. \A t \in Txs : Landable(t) => exec[p].cur = t
        BY <1>17, <3>2 DEF RecordLanded, IInv, OwnerKnows, Mine, InFlight, PastBoundary
      <4> QED
        BY <3>2, <4>1, <1>t DEF JobStep, Mine, InFlight, PastBoundary, JobRows
    <3> QED
      BY <1>17, <3>1, <3>2 DEF RecordLanded
  <2>2. ExecStep
    <3>1. CASE exec' = [exec EXCEPT ![p] = [exec[p] EXCEPT !.pc = "returned"]]
      <4>1. Keeps(p)
        BY <1>17, <1>t, <3>1 DEF RecordLanded, Keeps, NotSent, Ending, Execs
      <4> QED
        BY <1>t, <3>1, <4>1, ExecOfOne
    <3>2. CASE exec' = [exec EXCEPT ![p] = [exec[p] EXCEPT !.pc = "failed", !.err = "internal"]]
      <4>1. Keeps(p)
        BY <1>17, <1>t, <3>2 DEF RecordLanded, Keeps, NotSent, Ending, Execs
      <4> QED
        BY <1>t, <3>2, <4>1, ExecOfOne
    <3>3. CASE exec' = [exec EXCEPT ![p] = [exec[p] EXCEPT !.pc = "error", !.err = "internal"]]
      <4>1. Keeps(p)
        BY <1>17, <1>t, <3>3 DEF RecordLanded, Keeps, NotSent, Ending, Execs
      <4> QED
        BY <1>t, <3>3, <4>1, ExecOfOne
    <3> QED
      BY <1>17, <3>1, <3>2, <3>3 DEF RecordLanded, Answered
  <2>3. SendStep
    BY <1>17, <1>t, SendUnchanged DEF RecordLanded
  <2> QED
    BY <2>1, <2>2, <2>3
<1>18. ASSUME NEW p \in Procs, MarkSucceeded(p) PROVE JobStep /\ ExecStep /\ SendStep
  <2>1. JobStep
    BY <1>18, <1>0, <1>t DEF MarkSucceeded, Released, Idle, JobStep, Mine, InFlight, PastBoundary,
       JobRows
  <2>2. ExecStep
    BY <1>18, <1>t DEF MarkSucceeded, Released, Idle, ExecStep, Keeps, NotSent, Ending, Execs
  <2>3. SendStep
    BY <1>18, <1>t, SendUnchanged DEF MarkSucceeded, Released, Idle
  <2> QED
    BY <2>1, <2>2, <2>3
<1>19. ASSUME NEW p \in Procs, ResultNotPersisted(p) PROVE JobStep /\ ExecStep /\ SendStep
  <2>1. JobStep
    BY <1>19, <1>0, <1>t DEF ResultNotPersisted, MarkUnlessLost, Released, Idle, JobStep, Mine,
       InFlight, PastBoundary, JobRows
  <2>2. ExecStep
    BY <1>19, <1>t, ExecOfOne DEF ResultNotPersisted, Idle
  <2>3. SendStep
    BY <1>19, <1>t, SendUnchanged DEF ResultNotPersisted, MarkUnlessLost, Released, Idle
  <2> QED
    BY <2>1, <2>2, <2>3
<1>20. ASSUME NEW p \in Procs, ReclaimExpiredLease(p) PROVE JobStep /\ ExecStep /\ SendStep
  <2>1. JobStep
    BY <1>20, <1>0, <1>t DEF ReclaimExpiredLease, Released, JobStep, Mine, InFlight, PastBoundary,
       JobRows
  <2>2. ExecStep
    BY <1>20, ExecUnchanged DEF ReclaimExpiredLease, Released
  <2>3. SendStep
    BY <1>20, <1>t, SendUnchanged DEF ReclaimExpiredLease, Released
  <2> QED
    BY <2>1, <2>2, <2>3
<1>21. ASSUME NEW p \in Procs, SettleRejectedAttempt(p) PROVE JobStep /\ ExecStep /\ SendStep
  <2>1. JobStep
    <3>1. NothingLandable
      BY <1>21 DEF SettleRejectedAttempt, IInv, ParkedRejection
    <3> QED
      BY <1>21, <1>t, <3>1 DEF SettleRejectedAttempt, JobStep, Mine, InFlight, PastBoundary, JobRows,
         NothingLandable
  <2>2. ExecStep
    BY <1>21, ExecUnchanged DEF SettleRejectedAttempt
  <2>3. SendStep
    BY <1>21, <1>t, SendUnchanged DEF SettleRejectedAttempt
  <2> QED
    BY <2>1, <2>2, <2>3
<1>22. ASSUME NEW p \in Procs, ConfirmRead(p) PROVE JobStep /\ ExecStep /\ SendStep
  BY <1>22, <1>t, JobUnchanged, ExecUnchanged, SendUnchanged DEF ConfirmRead
<1>23. ASSUME NEW p \in Procs, Lookup(p) PROVE JobStep /\ ExecStep /\ SendStep
  BY <1>23, <1>t, JobUnchanged, ExecUnchanged, SendUnchanged DEF Lookup
<1>24. ASSUME NEW p \in Procs, LookupFails(p) PROVE JobStep /\ ExecStep /\ SendStep
  BY <1>24, <1>t, JobUnchanged, ExecUnchanged, SendUnchanged DEF LookupFails
<1>25. ASSUME NEW p \in Procs, RecordOutcome(p) PROVE JobStep /\ ExecStep /\ SendStep
  <2>1. JobStep
    BY <1>25, <1>0, <1>t DEF RecordOutcome, ConfDone, Released, StillOpen, JobStep, Mine, InFlight,
       PastBoundary, JobRows
  <2>2. ExecStep
    BY <1>25, <1>t, ExecOfOne, ExecUnchanged DEF RecordOutcome, ConfDone
  <2>3. SendStep
    BY <1>25, <1>t, SendUnchanged DEF RecordOutcome, ConfDone, Released, StillOpen
  <2> QED
    BY <2>1, <2>2, <2>3
<1>26. ASSUME NEW p \in Procs, FinalizeLostBroadcast(p) PROVE JobStep /\ ExecStep /\ SendStep
  <2>1. JobStep
    BY <1>26, <1>0, <1>t DEF FinalizeLostBroadcast, ConfDone, JobStep, Mine, InFlight, PastBoundary,
       JobRows
  <2>2. ExecStep
    BY <1>26, <1>t, ExecOfOne, ExecUnchanged DEF FinalizeLostBroadcast, ConfDone
  <2>3. SendStep
    BY <1>26, <1>t, SendUnchanged DEF FinalizeLostBroadcast, ConfDone
  <2> QED
    BY <2>1, <2>2, <2>3
<1>27. ASSUME NEW p \in Procs, NoVerdict(p) PROVE JobStep /\ ExecStep /\ SendStep
  <2>1. JobStep
    BY <1>27, <1>0, <1>t DEF NoVerdict, ConfDone, MarkUnlessLost, Released, JobStep, Mine, InFlight,
       PastBoundary, JobRows
  <2>2. ExecStep
    BY <1>27, <1>t, ExecOfOne, ExecUnchanged DEF NoVerdict, ConfDone
  <2>3. SendStep
    BY <1>27, <1>t, SendUnchanged DEF NoVerdict, ConfDone, MarkUnlessLost, Released
  <2> QED
    BY <2>1, <2>2, <2>3
<1>28. ASSUME NEW p \in Procs, Crash(p) PROVE JobStep /\ ExecStep /\ SendStep
  <2>1. JobStep
    BY <1>28, JobUnchanged DEF Crash
  <2>2. ExecStep
    BY <1>28, <1>t, ExecOfOne DEF Crash
  <2>3. SendStep
    BY <1>28, <1>t DEF Crash, SendStep, Landable, TypeOK
  <2> QED
    BY <2>1, <2>2, <2>3
<1>29. ASSUME NEW p \in Procs, Takeover(p) PROVE JobStep /\ ExecStep /\ SendStep
  BY <1>29, <1>t, JobUnchanged, ExecUnchanged, SendUnchanged DEF Takeover
<1>30. ASSUME NEW p \in Procs, LeaseLostNoticed(p) PROVE JobStep /\ ExecStep /\ SendStep
  BY <1>30, <1>t, JobUnchanged, ExecUnchanged, SendUnchanged DEF LeaseLostNoticed
<1>31. ASSUME NEW p \in Procs, RequeueRunning(p) PROVE JobStep /\ ExecStep /\ SendStep
  <2>1. JobStep
    BY <1>31, <1>0, <1>t DEF RequeueRunning, Recover, Released, JobStep, Mine, InFlight, PastBoundary,
       JobRows
  <2>2. ExecStep
    BY <1>31, ExecUnchanged DEF RequeueRunning, Recover, Released
  <2>3. SendStep
    BY <1>31, <1>t, SendUnchanged DEF RequeueRunning, Recover, Released
  <2> QED
    BY <2>1, <2>2, <2>3
<1>32. ASSUME NEW p \in Procs, FailHashless(p) PROVE JobStep /\ ExecStep /\ SendStep
  <2>1. JobStep
    BY <1>32, <1>0, <1>t DEF FailHashless, Recover, Released, JobStep, Mine, InFlight, PastBoundary,
       JobRows
  <2>2. ExecStep
    BY <1>32, ExecUnchanged DEF FailHashless, Recover, Released
  <2>3. SendStep
    BY <1>32, <1>t, SendUnchanged DEF FailHashless, Recover, Released
  <2> QED
    BY <2>1, <2>2, <2>3
<1>33. ASSUME NEW p \in Procs, ParkInFlight(p) PROVE JobStep /\ ExecStep /\ SendStep
  <2>1. JobStep
    BY <1>33, <1>0, <1>t DEF ParkInFlight, Recover, Released, JobStep, Mine, InFlight, PastBoundary,
       JobRows
  <2>2. ExecStep
    BY <1>33, ExecUnchanged DEF ParkInFlight, Recover, Released
  <2>3. SendStep
    BY <1>33, <1>t, SendUnchanged DEF ParkInFlight, Recover, Released
  <2> QED
    BY <2>1, <2>2, <2>3
<1>34. ASSUME NEW p \in Procs, CloseSessions(p) PROVE JobStep /\ ExecStep /\ SendStep
  <2>1. JobStep
    BY <1>34, <1>0, <1>t DEF CloseSessions, Recover, Released, JobStep, Mine, InFlight, PastBoundary,
       JobRows
  <2>2. ExecStep
    BY <1>34, ExecUnchanged DEF CloseSessions, Recover, Released
  <2>3. SendStep
    BY <1>34, <1>t, SendUnchanged DEF CloseSessions, Recover, Released
  <2> QED
    BY <2>1, <2>2, <2>3
<1>35. ASSUME NEW p \in Procs, RecoverySkipped(p) PROVE JobStep /\ ExecStep /\ SendStep
  BY <1>35, <1>t, JobUnchanged, ExecUnchanged, SendUnchanged DEF RecoverySkipped
<1>36. ASSUME NEW p \in Procs, NEW t \in Txs, WorkerSends(p, t) PROVE JobStep /\ ExecStep /\ SendStep
  <2>1. SendStep
    BY <1>36, <1>t DEF WorkerSends, SendStep, Landable, TypeOK
  <2> QED
    BY <1>36, <2>1, JobUnchanged, ExecUnchanged DEF WorkerSends
<1>37. ASSUME NEW h \in late, LateHookStored(h) PROVE JobStep /\ ExecStep /\ SendStep
  <2>0. h.proc \in Procs /\ h.tx \in Txs /\ NoTx # h.tx
    BY <1>0, <1>t DEF TypeOK, LateHooks
  <2>a. NothingLandable
    <3>1. CASE h.first
      BY <1>37, <3>1, <1>0, <1>t DEF LateHookStored, Announceable, Mine, IInv, NoHashBeforeBoundary,
            OnlyJobHashCanLand, NothingLandable
    <3>2. CASE ~h.first
      BY <1>37, <3>2 DEF LateHookStored, Announceable, IInv, HooksHarmless
    <3> QED
      BY <3>1, <3>2
  <2>1. JobStep
    BY <1>37, <2>0, <2>a, <1>0, <1>t DEF LateHookStored, BroadcastRecorded, Announceable, JobStep,
       Mine, InFlight,
          PastBoundary, JobRows, NothingLandable
  <2>2. ExecStep
    <3>1. CASE exec[h.proc].cur = h.tx
      <4>1. PICK r : exec' = [exec EXCEPT ![h.proc] = [exec[h.proc] EXCEPT !.led = h.tx, !.crossed = TRUE,
                                                                         !.resv = r]]
        BY <1>37, <3>1 DEF LateHookStored
      <4>2. Ending(h.proc)
        BY <3>1 DEF IInv, HooksHarmless
      <4>s. job'.status = "submitted"
        BY <1>37, <1>t DEF LateHookStored, BroadcastRecorded, JobRows
      <4>3. Keeps(h.proc)
        BY <2>0, <1>t, <3>1, <4>1, <4>2, <4>s DEF Keeps, NotSent, Ending, Execs
      <4> QED
        BY <1>t, <2>0, <4>1, <4>3, ExecOfOne
    <3>2. CASE exec[h.proc].cur # h.tx
      BY <1>37, <3>2, ExecUnchanged DEF LateHookStored
    <3> QED
      BY <3>1, <3>2
  <2>3. SendStep
    BY <1>37, <1>t DEF LateHookStored, SendStep, Landable, TypeOK
  <2> QED
    BY <2>1, <2>2, <2>3
<1>38. ASSUME NEW h \in late, LateHookFails(h) PROVE JobStep /\ ExecStep /\ SendStep
  <2>1. SendStep
    BY <1>38, <1>t DEF LateHookFails, SendStep, Landable, TypeOK
  <2> QED
    BY <1>38, <2>1, JobUnchanged, ExecUnchanged DEF LateHookFails
<1>39. ASSUME Chain PROVE JobStep /\ ExecStep /\ SendStep
  <2>1. UNCHANGED <<channel, job, exec, cleared, pool, late>>
    BY <1>39 DEF Chain, Include, Reorg, Expire, Bury
  <2>2. \A t \in Txs : ttl'[t] = "unbuilt" => ttl[t] = "unbuilt"
    BY <1>39, <1>t DEF Chain, Include, Reorg, Expire, Bury, TypeOK
  <2>3. SendStep
    BY <2>1, <2>2, <1>t DEF SendStep, Landable, TypeOK
  <2> QED
    BY <2>1, <2>3, JobUnchanged, ExecUnchanged
<1>40. ASSUME Rollback PROVE JobStep /\ ExecStep /\ SendStep
  <2>1. JobStep
    BY <1>40, <1>0, <1>t DEF Rollback, JobReverted, JobStep, Mine, InFlight, PastBoundary, JobRows
  <2> QED
    BY <1>40, <1>t, <2>1, ExecUnchanged, SendUnchanged DEF Rollback
<1> QED
  BY <1>1, <1>2, <1>3, <1>4, <1>5, <1>6, <1>7, <1>8, <1>9, <1>10, <1>11, <1>12, <1>13, <1>14, <1>15,
     <1>16, <1>17, <1>18, <1>19, <1>20, <1>21, <1>22, <1>23, <1>24, <1>25, <1>26, <1>27, <1>28, <1>29,
     <1>30, <1>31, <1>32, <1>33, <1>34, <1>35, <1>36, <1>37, <1>38, <1>39, <1>40
  DEF Next, Execution, Passes, Lifecycle, LateHook

-----------------------------------------------------------------------------
(* The four other steps. *)

\* A claim starts an execution of a job that has nothing to land.
LEMMA ClaimPreserves ==
    ASSUME IInv, TypeOK', Defined', NEW p \in Procs, Claim(p) PROVE IInv'
<1> USE DEF execVars, netVars
<1>0. NoTx \notin Txs
  BY ConstantsAssumption
<1>1. /\ UNCHANGED <<cleared, pool, late, ttl>>
      /\ job.status = "pending" /\ job'.status = "running" /\ job'.tx = job.tx
      /\ exec[p].pc = "idle" /\ \A q \in Procs : q # p => exec'[q] = exec[q]
  BY DEF Claim, IInv, TypeOK, JobRows
<1>2. exec'[p].pc = "run" /\ exec'[p].cur = NoTx /\ exec'[p].led = NoTx
  BY DEF Claim, IInv, TypeOK, IdleExec
<1>3. job'.tx = NoTx
  BY <1>1 DEF IInv, NoHashBeforeBoundary
<1>4. \A t \in Txs : ~Landable(t) /\ ~Landable(t)'
  BY <1>0, <1>1, <1>3 DEF IInv, OnlyJobHashCanLand, Landable
<1>5. OnlyJobHashCanLand' /\ NoHashBeforeBoundary' /\ ParkedRejection'
  BY <1>1, <1>3, <1>4 DEF OnlyJobHashCanLand, NoHashBeforeBoundary, ParkedRejection
<1>6. BuiltOnce'
  <2>1. \A q \in Procs, t \in Txs : Uses(q, t)' => Uses(q, t)
    BY <1>0, <1>1, <1>2 DEF Uses
  <2> QED
    BY <1>1, <2>1 DEF IInv, BuiltOnce
<1>7. ExecKnows'
  BY <1>1, <1>2, <1>4 DEF IInv, ExecKnows
<1>8. OwnerKnows'
  BY <1>4 DEF OwnerKnows
<1>9. HooksHarmless'
  <2>1. late' = late /\ \A h \in late : h.proc \in Procs /\ h.tx \in Txs /\ h.first = TRUE
    BY <1>1 DEF IInv, HooksHarmless, TypeOK, LateHooks
  <2>2. ASSUME NEW h \in late, exec'[h.proc].cur = h.tx PROVE Ending(h.proc)'
    <3>1. h.proc # p
      BY <1>0, <1>2, <2>1, <2>2
    <3>2. exec'[h.proc] = exec[h.proc]
      BY <1>1, <2>1, <3>1
    <3> QED
      BY <2>2, <3>2 DEF IInv, HooksHarmless, Ending
  <2> QED
    BY <1>4, <2>1, <2>2 DEF HooksHarmless
<1>10. CrossedIsPast'
  <2>1. exec'[p].crossed = FALSE /\ channel' = channel
    BY DEF Claim, IInv, TypeOK, IdleExec
  <2>2. \A q \in Procs : exec[q].crossed = FALSE
    BY <1>1 DEF IInv, CrossedIsPast, TypeOK, Execs
  <2> QED
    BY <1>1, <1>2, <2>1, <2>2 DEF IInv, CrossedIsPast
<1> QED
  BY <1>10, <1>5, <1>6, <1>7, <1>8, <1>9 DEF IInv

\* An announcement makes a transaction current that nobody built before.
LEMMA AnnouncePreserves ==
    ASSUME IInv, TypeOK', Defined', NEW p \in Procs, NEW t \in Txs, AnnounceSubmitIntent(p, t)
    PROVE  IInv'
<1> USE DEF dbVars
<1>0. NoTx \notin Txs
  BY ConstantsAssumption
<1>1. /\ UNCHANGED <<cleared, pool, late, job>>
      /\ exec[p].pc = "run" /\ \A q \in Procs : q # p => exec'[q] = exec[q]
      /\ ttl[t] = "unbuilt" /\ ttl'[t] # "unbuilt" /\ \A u \in Txs : u # t => ttl'[u] = ttl[u]
  BY DEF AnnounceSubmitIntent, IInv, TypeOK
<1>2. exec'[p].pc = "intent" /\ exec'[p].cur = t /\ exec'[p].led = exec[p].led
  BY DEF AnnounceSubmitIntent, IInv, TypeOK, Execs
<1>3. \A u \in Txs : Landable(u)' <=> Landable(u)
  BY <1>1 DEF Landable
<1>4. ~Landable(t) /\ \A q \in Procs : ~Uses(q, t)
  BY <1>1 DEF IInv, BuiltOnce, Uses, Landable
<1>5. OnlyJobHashCanLand' /\ NoHashBeforeBoundary' /\ ParkedRejection'
  BY <1>1, <1>3 DEF IInv, OnlyJobHashCanLand, NoHashBeforeBoundary, ParkedRejection, NothingLandable
<1>6. BuiltOnce'
  <2>1. \A q \in Procs, u \in Txs : Uses(q, u)' => Uses(q, u) \/ (q = p /\ u = t)
    BY <1>1, <1>2 DEF Uses
  <2> QED
    BY <1>1, <1>4, <2>1 DEF IInv, BuiltOnce
<1>7. ExecKnows'
  BY <1>1, <1>2, <1>3, <1>4 DEF IInv, ExecKnows, NotSent
<1>8. OwnerKnows'
  <2>1. Mine(p, InFlight) => \A u \in Txs : ~Landable(u)
    BY <1>1 DEF IInv, OwnerKnows, ExecKnows, NotSent
  <2>2. \A q \in Procs : Mine(q, InFlight)' <=> Mine(q, InFlight)
    BY <1>1 DEF Mine
  <2> QED
    BY <1>1, <1>3, <2>1, <2>2 DEF IInv, OwnerKnows
<1>9. HooksHarmless'
  <2> SUFFICES ASSUME NEW h \in late
               PROVE  /\ ~Landable(h.tx)'
                      /\ exec'[h.proc].cur = h.tx => Ending(h.proc)'
                      /\ ~h.first => /\ job'.status \notin {"pending", "running"}
                                     /\ exec'[h.proc].pc = "idle" \/ exec'[h.proc].cur = h.tx
                                     /\ Mine(h.proc, PastBoundary)' => NothingLandable'
    BY <1>1 DEF HooksHarmless
  <2>1. h.proc \in Procs /\ h.tx \in Txs /\ h.tx # t
    BY <1>4 DEF IInv, TypeOK, LateHooks, Uses
  <2>2. /\ ~Landable(h.tx)
        /\ exec[h.proc].cur = h.tx => Ending(h.proc)
        /\ ~h.first => /\ job.status \notin {"pending", "running"}
                       /\ exec[h.proc].pc = "idle" \/ exec[h.proc].cur = h.tx
                       /\ Mine(h.proc, PastBoundary) => NothingLandable
    BY DEF IInv, HooksHarmless
  <2>3. CASE h.proc = p
    <3>1. h.first = TRUE
      BY <1>1, <2>2, <2>3 DEF Ending, IInv, TypeOK, LateHooks
    <3> QED
      BY <1>2, <1>3, <2>1, <2>2, <2>3, <3>1
  <2>4. CASE h.proc # p
    <3>1. exec'[h.proc] = exec[h.proc]
      BY <1>1, <2>1, <2>4
    <3> QED
      BY <1>1, <1>3, <2>1, <2>2, <3>1 DEF Ending, Mine, NothingLandable
  <2> QED
    BY <2>3, <2>4
<1>10. CrossedIsPast'
  <2>1. exec'[p].crossed = exec[p].crossed /\ channel' = channel /\ (channel = "bound" => exec[p].crossed)
    BY DEF AnnounceSubmitIntent, IInv, TypeOK, Execs
  <2> QED
    BY <1>1, <2>1 DEF IInv, CrossedIsPast
<1> QED
  BY <1>10, <1>5, <1>6, <1>7, <1>8, <1>9 DEF IInv

\* A stored announcement clears the worker to send; before it nothing could land.
LEMMA StoredPreserves ==
    ASSUME DistinctWorkerIds, IInv, TypeOK', Defined', NEW p \in Procs, SubmitIntentStored(p) PROVE IInv'
<1>0. NoTx \notin Txs
  BY ConstantsAssumption
<1> DEFINE t == exec[p].cur
<1>t. t \in Txs
  BY DEF SubmitIntentStored, IInv, Defined
<1>1. /\ UNCHANGED <<pool, late, ttl>>
      /\ exec[p].pc = "intent" /\ \A q \in Procs : q # p => exec'[q] = exec[q]
      /\ cleared'[p] = cleared[p] \cup {t} /\ \A q \in Procs : q # p => cleared'[q] = cleared[q]
  BY DEF SubmitIntentStored, IInv, TypeOK, netVars
<1>2. exec'[p].pc = "sending" /\ exec'[p].cur = t /\ exec'[p].led = t
  BY DEF SubmitIntentStored, IInv, TypeOK, Execs
<1>3. job'.status = "submitted" /\ job'.tx = t /\ job'.owner = job.owner /\ Mine(p, InFlight)
  BY DEF SubmitIntentStored, BroadcastRecorded, Announceable, Mine, InFlight, PastBoundary, IInv,
     TypeOK, JobRows
<1>4. \A u \in Txs : ~Landable(u)
  BY <1>1, <1>3 DEF IInv, OwnerKnows, ExecKnows, NotSent
<1>5. \A u \in Txs : Landable(u)' <=> u = t
  BY <1>1, <1>4 DEF Landable
<1>6. OnlyJobHashCanLand' /\ NoHashBeforeBoundary' /\ ParkedRejection'
  BY <1>3, <1>5 DEF OnlyJobHashCanLand, NoHashBeforeBoundary, ParkedRejection
<1>7. BuiltOnce'
  <2>1. \A q \in Procs, u \in Txs : Uses(q, u)' => Uses(q, u)
    BY <1>1, <1>2 DEF Uses
  <2> QED
    BY <1>1, <2>1 DEF IInv, BuiltOnce
<1>8. ExecKnows'
  <2> SUFFICES ASSUME NEW q \in Procs
               PROVE  /\ exec'[q].pc = "idle" => exec'[q].cur = NoTx
                      /\ exec'[q].led \in {NoTx, exec'[q].cur}
                      /\ exec'[q].pc \in {"run", "intent"} => exec'[q].led = NoTx
                      /\ NotSent(q)' => \A u \in Txs : exec'[q].cur = u => ~Landable(u)'
    BY DEF ExecKnows
  <2>1. CASE q = p
    BY <1>2, <2>1 DEF NotSent
  <2>2. CASE q # p
    <3>1. exec[q].cur # t
      BY <1>t, <2>2 DEF IInv, BuiltOnce, Uses
    <3> QED
      BY <1>1, <1>5, <2>2, <3>1 DEF IInv, ExecKnows
  <2> QED
    BY <2>1, <2>2
<1>9. OwnerKnows'
  <2>1. \A q \in Procs : Mine(q, InFlight)' => q = p
    BY <1>3 DEF Mine, DistinctWorkerIds
  <2> QED
    BY <1>2, <1>5, <2>1 DEF OwnerKnows
<1>10. HooksHarmless'
  <2> SUFFICES ASSUME NEW h \in late
               PROVE  /\ ~Landable(h.tx)'
                      /\ exec'[h.proc].cur = h.tx => Ending(h.proc)'
                      /\ ~h.first => /\ job'.status \notin {"pending", "running"}
                                     /\ exec'[h.proc].pc = "idle" \/ exec'[h.proc].cur = h.tx
                                     /\ Mine(h.proc, PastBoundary)' => NothingLandable'
    BY <1>1 DEF HooksHarmless
  <2>1. h.proc \in Procs /\ h.tx \in Txs
    BY DEF IInv, TypeOK, LateHooks
  <2>2. /\ exec[h.proc].cur = h.tx => Ending(h.proc)
        /\ ~h.first => exec[h.proc].pc = "idle" \/ exec[h.proc].cur = h.tx
    BY DEF IInv, HooksHarmless
  <2>3. h.tx # t
    <3>1. h.tx = t => h.proc = p
      BY <1>t, <2>1 DEF IInv, BuiltOnce, Uses
    <3> QED
      BY <1>1, <2>2, <3>1 DEF Ending
  <2>4. CASE h.proc = p
    <3>1. h.first = TRUE
      BY <1>1, <2>2, <2>3, <2>4 DEF IInv, TypeOK, LateHooks
    <3> QED
      BY <1>2, <1>5, <2>1, <2>3, <2>4, <3>1
  <2>5. CASE h.proc # p
    <3>1. exec'[h.proc] = exec[h.proc]
      BY <1>1, <2>1, <2>5
    <3>2. ~Mine(h.proc, PastBoundary)'
      BY <1>3, <2>1, <2>5 DEF Mine, DistinctWorkerIds
    <3> QED
      BY <1>3, <1>5, <2>1, <2>2, <2>3, <3>1, <3>2 DEF Ending
  <2> QED
    BY <2>4, <2>5
<1>11. CrossedIsPast'
  <2>1. channel' = channel
    BY DEF SubmitIntentStored
  <2> QED
    BY <1>1, <1>2, <1>3, <2>1 DEF IInv, CrossedIsPast
<1> QED
  BY <1>11, <1>6, <1>7, <1>8, <1>9, <1>10 DEF IInv

\* A hook that outlives its call belongs to a transaction the worker will not send.
LEMMA AbandonedPreserves ==
    ASSUME IInv, TypeOK', Defined', NEW p \in Procs, SubmitIntentAbandoned(p) PROVE IInv'
<1>0. NoTx \notin Txs
  BY ConstantsAssumption
<1> DEFINE new == [proc |-> p, tx |-> exec[p].cur, first |-> FirstBoundary(p), need |-> Need(p), chk |-> exec[p].chk]
<1>t. exec[p].cur \in Txs
  BY DEF SubmitIntentAbandoned, IInv, Defined
<1>1. /\ UNCHANGED <<cleared, pool, ttl, job>> /\ late' = late \cup {new}
      /\ exec[p].pc = "intent" /\ \A q \in Procs : q # p => exec'[q] = exec[q]
  BY DEF SubmitIntentAbandoned, IInv, TypeOK, netVars, dbVars
<1>2. /\ exec'[p].pc = "error" /\ exec'[p].err \in {"intent", "internal", "ambiguous"}
      /\ exec'[p].cur = exec[p].cur /\ exec'[p].led = exec[p].led
  BY DEF SubmitIntentAbandoned, IInv, TypeOK, Execs
<1>3. \A u \in Txs : Landable(u)' <=> Landable(u)
  BY <1>1 DEF Landable
<1>4. ~Landable(exec[p].cur) /\ exec[p].led = NoTx
  BY <1>1, <1>t DEF IInv, ExecKnows, NotSent
<1>5. OnlyJobHashCanLand' /\ NoHashBeforeBoundary' /\ ParkedRejection'
  BY <1>1, <1>3 DEF IInv, OnlyJobHashCanLand, NoHashBeforeBoundary, ParkedRejection, NothingLandable
<1>6. BuiltOnce'
  <2>1. \A q \in Procs, u \in Txs : Uses(q, u)' => Uses(q, u)
    BY <1>1, <1>2 DEF Uses
  <2> QED
    BY <1>1, <2>1 DEF IInv, BuiltOnce
<1>7. ExecKnows'
  BY <1>1, <1>2, <1>3, <1>4, <1>t DEF IInv, ExecKnows, NotSent
<1>8. OwnerKnows'
  <2>1. \A q \in Procs : Mine(q, InFlight)' <=> Mine(q, InFlight)
    BY <1>1 DEF Mine
  <2>2. \A q \in Procs : exec'[q].cur = exec[q].cur /\ (exec'[q].pc # "idle" => exec[q].pc # "idle")
    BY <1>1, <1>2
  <2> QED
    BY <1>3, <2>1, <2>2 DEF IInv, OwnerKnows
<1>9. HooksHarmless'
  <2> SUFFICES ASSUME NEW h \in late'
               PROVE  /\ ~Landable(h.tx)'
                      /\ exec'[h.proc].cur = h.tx => Ending(h.proc)'
                      /\ ~h.first => /\ job'.status \notin {"pending", "running"}
                                     /\ exec'[h.proc].pc = "idle" \/ exec'[h.proc].cur = h.tx
                                     /\ Mine(h.proc, PastBoundary)' => NothingLandable'
    BY DEF HooksHarmless
  <2>1. CASE h \in late
    <3>1. h.proc \in Procs /\ h.tx \in Txs
      BY <2>1 DEF IInv, TypeOK, LateHooks
    <3>2. /\ ~Landable(h.tx)
          /\ exec[h.proc].cur = h.tx => Ending(h.proc)
          /\ ~h.first => /\ job.status \notin {"pending", "running"}
                         /\ exec[h.proc].pc = "idle" \/ exec[h.proc].cur = h.tx
                         /\ Mine(h.proc, PastBoundary) => NothingLandable
      BY <2>1 DEF IInv, HooksHarmless
    <3>3. h.proc = p => exec[p].cur # h.tx /\ h.first = TRUE
      BY <1>1, <2>1, <3>2 DEF Ending, IInv, TypeOK, LateHooks
    <3> QED
      BY <1>1, <1>2, <1>3, <3>1, <3>2, <3>3 DEF Ending, Mine, NothingLandable
  <2>2. CASE h = new
    <3>1. h.proc = p /\ h.tx = exec[p].cur /\ h.first = FirstBoundary(p)
      BY <2>2
    <3>2. Ending(p)'
      BY <1>2 DEF Ending
    <3>3. Mine(p, InFlight) => NothingLandable
      BY <1>1 DEF IInv, OwnerKnows, ExecKnows, NotSent, NothingLandable
    <3>4. ~FirstBoundary(p) => job.status \notin {"pending", "running"}
      BY <1>1 DEF FirstBoundary, IInv, TypeOK, CrossedIsPast
    <3> QED
      BY <1>1, <1>2, <1>3, <1>4, <1>t, <3>1, <3>2, <3>3, <3>4
         DEF Mine, InFlight, PastBoundary, NothingLandable
  <2> QED
    BY <1>1, <2>1, <2>2
<1>10. CrossedIsPast'
  <2>1. exec'[p].crossed = exec[p].crossed /\ channel' = channel
    BY DEF SubmitIntentAbandoned, IInv, TypeOK, Execs
  <2> QED
    BY <1>1, <1>2, <2>1 DEF IInv, CrossedIsPast
<1> QED
  BY <1>10, <1>5, <1>6, <1>7, <1>8, <1>9 DEF IInv

-----------------------------------------------------------------------------
(* The theorems. *)

\* The invariant holds initially.
LEMMA IInvInit == Init => IInv
<1> SUFFICES ASSUME Init PROVE IInv
  OBVIOUS
<1>0. NoTx \notin Txs
  BY ConstantsAssumption
<1>1. TypeOK /\ Defined
  BY TypeInit
<1>2. job.tx = NoTx /\ job.status = "pending" /\ late = {} /\ pool = {} /\ \A t \in Txs : ttl[t] = "unbuilt"
  BY DEF Init
<1>3. \A p \in Procs : /\ cleared[p] = {} /\ exec[p].pc = "idle" /\ exec[p].cur = NoTx
                       /\ exec[p].led = NoTx /\ exec[p].crossed = FALSE
  BY DEF Init, IdleExec
<1>4. \A t \in Txs : ~Landable(t) /\ \A p \in Procs : ~Uses(p, t)
  BY <1>0, <1>2, <1>3 DEF Landable, Uses
<1> QED
  BY <1>1, <1>2, <1>3, <1>4
     DEF IInv, OnlyJobHashCanLand, NoHashBeforeBoundary, BuiltOnce, CrossedIsPast, ExecKnows, OwnerKnows, NotSent,
         HooksHarmless, ParkedRejection, NothingLandable

\* Every step preserves it: the four that need an argument of their own, and the frame steps.
LEMMA IInvNext == ASSUME DistinctWorkerIds PROVE IInv /\ [Next]_vars => IInv'
<1> SUFFICES ASSUME IInv, [Next]_vars PROVE IInv'
  OBVIOUS
<1>1. TypeOK' /\ Defined'
  BY TypeNext, DefinedNext DEF IInv
<1>2. ASSUME NEW p \in Procs, Claim(p) PROVE IInv'
  BY <1>1, <1>2, ClaimPreserves
<1>3. ASSUME NEW p \in Procs, NEW t \in Txs, AnnounceSubmitIntent(p, t) PROVE IInv'
  BY <1>1, <1>3, AnnouncePreserves
<1>4. ASSUME NEW p \in Procs, SubmitIntentStored(p) PROVE IInv'
  BY <1>1, <1>4, StoredPreserves
<1>5. ASSUME NEW p \in Procs, SubmitIntentAbandoned(p) PROVE IInv'
  BY <1>1, <1>5, AbandonedPreserves
<1>6. CASE UNCHANGED vars
  <2>1. JobStep /\ ExecStep /\ SendStep
    BY <1>6, JobUnchanged, ExecUnchanged, SendUnchanged DEF vars, execVars, netVars, dbVars, IInv
  <2> QED
    BY <1>1, <2>1, FrameStep
<1>7. CASE /\ Next
           /\ \A p \in Procs : /\ ~Claim(p) /\ ~SubmitIntentStored(p) /\ ~SubmitIntentAbandoned(p)
                               /\ \A t \in Txs : ~AnnounceSubmitIntent(p, t)
  <2>1. JobStep /\ ExecStep /\ SendStep
    BY <1>7, FrameNext
  <2> QED
    BY <1>1, <2>1, FrameStep
<1> QED
  BY <1>2, <1>3, <1>4, <1>5, <1>6, <1>7

\* Over all attempts, processes, restarts and reorgs, only the transaction that the job row names can
\* reach the chain, provided that no two processes share a worker id.
THEOREM OnlyJobHashCanLandAlways == ASSUME DistinctWorkerIds PROVE Spec => []OnlyJobHashCanLand
<1>1. IInv => OnlyJobHashCanLand
  BY DEF IInv
<1> QED
  BY <1>1, IInvInit, IInvNext, PTL DEF Spec

\* A job that a restart, an expired lease or a takeover made claimable again has sent nothing that
\* can still land, so running it again cannot send a second transaction.
THEOREM NoReplayAfterSendAlways == ASSUME DistinctWorkerIds PROVE Spec => []NoReplayAfterSend
<1>1. IInv => NoReplayAfterSend
  BY ConstantsAssumption DEF IInv, NoReplayAfterSend, NoHashBeforeBoundary, OnlyJobHashCanLand
<1> QED
  BY <1>1, IInvInit, IInvNext, PTL DEF Spec

-----------------------------------------------------------------------------
(* Who writes what.                                                         *)

\* Steps that write the job row or the charge.
JobWriters ==
    \/ \E p \in Procs :
          \/ Claim(p) \/ ReportExternalExecution(p) \/ SubmitIntentStored(p)
          \/ RejectionBooked(p) \/ SettleWithoutHash(p) \/ SettleWithHash(p)
          \/ RecordLanded(p) \/ MarkSucceeded(p) \/ ResultNotPersisted(p)
          \/ ReclaimExpiredLease(p) \/ SettleRejectedAttempt(p) \/ RecordOutcome(p)
          \/ FinalizeLostBroadcast(p) \/ NoVerdict(p) \/ RequeueRunning(p)
          \/ FailHashless(p) \/ ParkInFlight(p) \/ CloseSessions(p)
    \/ \E h \in late : LateHookStored(h)
    \/ Rollback

\* Steps that write an execution.
ExecWriters ==
    \/ \E p \in Procs :
          \/ Claim(p) \/ ReportExternalExecution(p) \/ AttemptFails(p)
          \/ AssertLeaseHeld(p) \/ SubmitIntentStored(p) \/ SubmitIntentRefused(p)
          \/ SubmitIntentAbandoned(p) \/ WorkerRejected(p) \/ WorkerAmbiguous(p)
          \/ WorkerFailed(p) \/ WorkerLanded(p) \/ RejectionBooked(p)
          \/ RejectionNotBooked(p) \/ AttemptClosedAsRebuilt(p) \/ NothingToBook(p)
          \/ ReadFailedJob(p) \/ SettleWithoutHash(p) \/ SettleWithHash(p)
          \/ SettleNotApplied(p) \/ RecordLanded(p) \/ MarkSucceeded(p)
          \/ ResultNotPersisted(p) \/ RecordOutcome(p) \/ FinalizeLostBroadcast(p)
          \/ NoVerdict(p) \/ Crash(p) \/ (\E t \in Txs : AnnounceSubmitIntent(p, t))
    \/ \E h \in late : LateHookStored(h)

\* Steps that write a lookup.
ConfWriters ==
    \E p \in Procs :
       \/ SettleNotApplied(p) \/ ConfirmRead(p) \/ Lookup(p) \/ LookupFails(p)
       \/ RecordOutcome(p) \/ FinalizeLostBroadcast(p) \/ NoVerdict(p) \/ Crash(p)

\* Steps that write the set of late hooks.
HookWriters ==
    \/ \E p \in Procs : SubmitIntentAbandoned(p) \/ Crash(p)
    \/ \E h \in late : LateHookStored(h) \/ LateHookFails(h)

\* Steps that write what the node has, or what a worker may send.
PoolWriters ==
    \E p \in Procs :
       \/ SubmitIntentStored(p) \/ WorkerRejected(p) \/ WorkerFailed(p) \/ Crash(p)
       \/ (\E t \in Txs : WorkerSends(p, t))

\* Steps that write the chain.
ChainWriters ==
    \/ \E t \in Txs, r \in Outcomes : Include(t, r)
    \/ \E t \in Txs, r \in Outcomes \cup {"none"} : Reorg(t, r)
    \/ Rollback

\* Steps that write a validity window.
TtlWriters ==
    \/ \E p \in Procs, t \in Txs : AnnounceSubmitIntent(p, t)
    \/ \E t \in Txs : Expire(t) \/ Bury(t)

\* Steps that write the recorded result.
ResultWriters ==
    \E p \in Procs : RecordLanded(p) \/ RecordOutcome(p) \/ NoVerdict(p)

\* What each step leaves alone.
Footprint ==
    /\ channel' = channel /\ (gen' = gen \/ Rollback)
    /\ UNCHANGED <<job, charged>> \/ JobWriters
    /\ exec' = exec \/ ExecWriters
    /\ conf' = conf \/ ConfWriters
    /\ late' = late \/ HookWriters
    /\ UNCHANGED <<pool, cleared>> \/ PoolWriters
    /\ UNCHANGED <<chain, rollbackDue, reorgs>> \/ ChainWriters
    /\ ttl' = ttl \/ TtlWriters
    /\ recorded' = recorded \/ ResultWriters

\* Every step writes only what its action names.
LEMMA NextFootprint == Next => Footprint
<1> SUFFICES ASSUME Next PROVE Footprint
  OBVIOUS
<1> USE DEF dbVars, procVars, execVars, netVars
<1>1. ASSUME NEW p \in Procs, Claim(p) PROVE Footprint
  <2>1. UNCHANGED <<channel, gen, conf, late, pool, cleared, chain, rollbackDue, reorgs, ttl, recorded>>
    BY <1>1 DEF Claim
  <2> QED
    BY <1>1, <2>1 DEF Footprint, JobWriters, ExecWriters
<1>2. ASSUME NEW p \in Procs, ReportExternalExecution(p) PROVE Footprint
  <2>1. UNCHANGED <<channel, gen, conf, late, pool, cleared, chain, rollbackDue, reorgs, ttl, recorded>>
    BY <1>2 DEF ReportExternalExecution
  <2> QED
    BY <1>2, <2>1 DEF Footprint, JobWriters, ExecWriters
<1>3. ASSUME NEW p \in Procs, AttemptFails(p) PROVE Footprint
  <2>1. UNCHANGED <<channel, gen, job, charged, conf, late, pool, cleared, chain, rollbackDue, reorgs,
                    ttl, recorded>>
    BY <1>3 DEF AttemptFails
  <2> QED
    BY <1>3, <2>1 DEF Footprint, ExecWriters
<1>4. ASSUME NEW p \in Procs, NEW t \in Txs, AnnounceSubmitIntent(p, t) PROVE Footprint
  <2>1. UNCHANGED <<channel, gen, job, charged, conf, late, pool, cleared, chain, rollbackDue, reorgs,
                    recorded>>
    BY <1>4 DEF AnnounceSubmitIntent
  <2> QED
    BY <1>4, <2>1 DEF Footprint, ExecWriters, TtlWriters
<1>5. ASSUME NEW p \in Procs, AssertLeaseHeld(p) PROVE Footprint
  <2>1. UNCHANGED <<channel, gen, job, charged, conf, late, pool, cleared, chain, rollbackDue, reorgs,
                    ttl, recorded>>
    BY <1>5 DEF AssertLeaseHeld
  <2> QED
    BY <1>5, <2>1 DEF Footprint, ExecWriters
<1>6. ASSUME NEW p \in Procs, SubmitIntentStored(p) PROVE Footprint
  <2>1. UNCHANGED <<channel, gen, conf, late, chain, rollbackDue, reorgs, ttl, recorded>>
    BY <1>6 DEF SubmitIntentStored
  <2> QED
    BY <1>6, <2>1 DEF Footprint, JobWriters, ExecWriters, PoolWriters
<1>7. ASSUME NEW p \in Procs, SubmitIntentRefused(p) PROVE Footprint
  <2>1. UNCHANGED <<channel, gen, job, charged, conf, late, pool, cleared, chain, rollbackDue, reorgs,
                    ttl, recorded>>
    BY <1>7 DEF SubmitIntentRefused
  <2> QED
    BY <1>7, <2>1 DEF Footprint, ExecWriters
<1>8. ASSUME NEW p \in Procs, SubmitIntentAbandoned(p) PROVE Footprint
  <2>1. UNCHANGED <<channel, gen, job, charged, conf, pool, cleared, chain, rollbackDue, reorgs, ttl, recorded>>
    BY <1>8 DEF SubmitIntentAbandoned
  <2> QED
    BY <1>8, <2>1 DEF Footprint, ExecWriters, HookWriters
<1>9. ASSUME NEW p \in Procs, NEW t \in Txs, WorkerSends(p, t) PROVE Footprint
  <2>1. UNCHANGED <<channel, gen, job, charged, exec, conf, late, chain, rollbackDue, reorgs, ttl, recorded>>
    BY <1>9 DEF WorkerSends
  <2> QED
    BY <1>9, <2>1 DEF Footprint, PoolWriters
<1>10. ASSUME NEW p \in Procs, WorkerRejected(p) PROVE Footprint
  <2>1. UNCHANGED <<channel, gen, job, charged, conf, late, chain, rollbackDue, reorgs, ttl, recorded>>
    BY <1>10 DEF WorkerRejected
  <2> QED
    BY <1>10, <2>1 DEF Footprint, ExecWriters, PoolWriters
<1>11. ASSUME NEW p \in Procs, WorkerAmbiguous(p) PROVE Footprint
  <2>1. UNCHANGED <<channel, gen, job, charged, conf, late, pool, cleared, chain, rollbackDue, reorgs,
                    ttl, recorded>>
    BY <1>11 DEF WorkerAmbiguous
  <2> QED
    BY <1>11, <2>1 DEF Footprint, ExecWriters
<1>12. ASSUME NEW p \in Procs, WorkerFailed(p) PROVE Footprint
  <2>1. UNCHANGED <<channel, gen, job, charged, conf, late, chain, rollbackDue, reorgs, ttl, recorded>>
    BY <1>12 DEF WorkerFailed
  <2> QED
    BY <1>12, <2>1 DEF Footprint, ExecWriters, PoolWriters
<1>13. ASSUME NEW p \in Procs, WorkerLanded(p) PROVE Footprint
  <2>1. UNCHANGED <<channel, gen, job, charged, conf, late, pool, cleared, chain, rollbackDue, reorgs,
                    ttl, recorded>>
    BY <1>13 DEF WorkerLanded
  <2> QED
    BY <1>13, <2>1 DEF Footprint, ExecWriters
<1>14. ASSUME NEW p \in Procs, RejectionBooked(p) PROVE Footprint
  <2>1. UNCHANGED <<channel, gen, conf, late, pool, cleared, chain, rollbackDue, reorgs, ttl, recorded>>
    BY <1>14 DEF RejectionBooked
  <2> QED
    BY <1>14, <2>1 DEF Footprint, JobWriters, ExecWriters
<1>15. ASSUME NEW p \in Procs, RejectionNotBooked(p) PROVE Footprint
  <2>1. UNCHANGED <<channel, gen, job, charged, conf, late, pool, cleared, chain, rollbackDue, reorgs,
                    ttl, recorded>>
    BY <1>15 DEF RejectionNotBooked
  <2> QED
    BY <1>15, <2>1 DEF Footprint, ExecWriters
<1>16. ASSUME NEW p \in Procs, AttemptClosedAsRebuilt(p) PROVE Footprint
  <2>1. UNCHANGED <<channel, gen, job, charged, conf, late, pool, cleared, chain, rollbackDue, reorgs,
                    ttl, recorded>>
    BY <1>16 DEF AttemptClosedAsRebuilt
  <2> QED
    BY <1>16, <2>1 DEF Footprint, ExecWriters
<1>17. ASSUME NEW p \in Procs, NothingToBook(p) PROVE Footprint
  <2>1. UNCHANGED <<channel, gen, job, charged, conf, late, pool, cleared, chain, rollbackDue, reorgs,
                    ttl, recorded>>
    BY <1>17 DEF NothingToBook
  <2> QED
    BY <1>17, <2>1 DEF Footprint, ExecWriters
<1>18. ASSUME NEW p \in Procs, ReadFailedJob(p) PROVE Footprint
  <2>1. UNCHANGED <<channel, gen, job, charged, conf, late, pool, cleared, chain, rollbackDue, reorgs,
                    ttl, recorded>>
    BY <1>18 DEF ReadFailedJob
  <2> QED
    BY <1>18, <2>1 DEF Footprint, ExecWriters
<1>19. ASSUME NEW p \in Procs, SettleWithoutHash(p) PROVE Footprint
  <2>1. UNCHANGED <<channel, gen, conf, late, pool, cleared, chain, rollbackDue, reorgs, ttl, recorded>>
    BY <1>19 DEF SettleWithoutHash
  <2> QED
    BY <1>19, <2>1 DEF Footprint, JobWriters, ExecWriters
<1>20. ASSUME NEW p \in Procs, SettleWithHash(p) PROVE Footprint
  <2>1. UNCHANGED <<channel, gen, conf, late, pool, cleared, chain, rollbackDue, reorgs, ttl, recorded>>
    BY <1>20 DEF SettleWithHash
  <2> QED
    BY <1>20, <2>1 DEF Footprint, JobWriters, ExecWriters
<1>21. ASSUME NEW p \in Procs, SettleNotApplied(p) PROVE Footprint
  <2>1. UNCHANGED <<channel, gen, job, charged, late, pool, cleared, chain, rollbackDue, reorgs, ttl, recorded>>
    BY <1>21 DEF SettleNotApplied
  <2> QED
    BY <1>21, <2>1 DEF Footprint, ExecWriters, ConfWriters
<1>22. ASSUME NEW p \in Procs, RecordLanded(p) PROVE Footprint
  <2>1. UNCHANGED <<channel, gen, conf, late, pool, cleared, chain, rollbackDue, reorgs, ttl>>
    BY <1>22 DEF RecordLanded
  <2> QED
    BY <1>22, <2>1 DEF Footprint, JobWriters, ExecWriters, ResultWriters
<1>23. ASSUME NEW p \in Procs, MarkSucceeded(p) PROVE Footprint
  <2>1. UNCHANGED <<channel, gen, conf, late, pool, cleared, chain, rollbackDue, reorgs, ttl, recorded>>
    BY <1>23 DEF MarkSucceeded
  <2> QED
    BY <1>23, <2>1 DEF Footprint, JobWriters, ExecWriters
<1>24. ASSUME NEW p \in Procs, ResultNotPersisted(p) PROVE Footprint
  <2>1. UNCHANGED <<channel, gen, conf, late, pool, cleared, chain, rollbackDue, reorgs, ttl, recorded>>
    BY <1>24 DEF ResultNotPersisted
  <2> QED
    BY <1>24, <2>1 DEF Footprint, JobWriters, ExecWriters
<1>25. ASSUME NEW p \in Procs, ReclaimExpiredLease(p) PROVE Footprint
  <2>1. UNCHANGED <<channel, gen, exec, conf, late, pool, cleared, chain, rollbackDue, reorgs, ttl, recorded>>
    BY <1>25 DEF ReclaimExpiredLease
  <2> QED
    BY <1>25, <2>1 DEF Footprint, JobWriters
<1>26. ASSUME NEW p \in Procs, SettleRejectedAttempt(p) PROVE Footprint
  <2>1. UNCHANGED <<channel, gen, exec, conf, late, pool, cleared, chain, rollbackDue, reorgs, ttl, recorded>>
    BY <1>26 DEF SettleRejectedAttempt
  <2> QED
    BY <1>26, <2>1 DEF Footprint, JobWriters
<1>27. ASSUME NEW p \in Procs, ConfirmRead(p) PROVE Footprint
  <2>1. UNCHANGED <<channel, gen, job, charged, exec, late, pool, cleared, chain, rollbackDue, reorgs,
                    ttl, recorded>>
    BY <1>27 DEF ConfirmRead
  <2> QED
    BY <1>27, <2>1 DEF Footprint, ConfWriters
<1>28. ASSUME NEW p \in Procs, Lookup(p) PROVE Footprint
  <2>1. UNCHANGED <<channel, gen, job, charged, exec, late, pool, cleared, chain, rollbackDue, reorgs,
                    ttl, recorded>>
    BY <1>28 DEF Lookup
  <2> QED
    BY <1>28, <2>1 DEF Footprint, ConfWriters
<1>29. ASSUME NEW p \in Procs, LookupFails(p) PROVE Footprint
  <2>1. UNCHANGED <<channel, gen, job, charged, exec, late, pool, cleared, chain, rollbackDue, reorgs,
                    ttl, recorded>>
    BY <1>29 DEF LookupFails
  <2> QED
    BY <1>29, <2>1 DEF Footprint, ConfWriters
<1>30. ASSUME NEW p \in Procs, RecordOutcome(p) PROVE Footprint
  <2>1. UNCHANGED <<channel, gen, late, pool, cleared, chain, rollbackDue, reorgs, ttl>>
    BY <1>30 DEF RecordOutcome
  <2> QED
    BY <1>30, <2>1 DEF Footprint, JobWriters, ExecWriters, ConfWriters, ResultWriters
<1>31. ASSUME NEW p \in Procs, FinalizeLostBroadcast(p) PROVE Footprint
  <2>1. UNCHANGED <<channel, gen, late, pool, cleared, chain, rollbackDue, reorgs, ttl, recorded>>
    BY <1>31 DEF FinalizeLostBroadcast
  <2> QED
    BY <1>31, <2>1 DEF Footprint, JobWriters, ExecWriters, ConfWriters
<1>32. ASSUME NEW p \in Procs, NoVerdict(p) PROVE Footprint
  <2>1. UNCHANGED <<channel, gen, late, pool, cleared, chain, rollbackDue, reorgs, ttl>>
    BY <1>32 DEF NoVerdict
  <2> QED
    BY <1>32, <2>1 DEF Footprint, JobWriters, ExecWriters, ConfWriters, ResultWriters
<1>33. ASSUME NEW p \in Procs, Crash(p) PROVE Footprint
  <2>1. UNCHANGED <<channel, gen, job, charged, chain, rollbackDue, reorgs, ttl, recorded>>
    BY <1>33 DEF Crash
  <2> QED
    BY <1>33, <2>1 DEF Footprint, ExecWriters, ConfWriters, HookWriters, PoolWriters
<1>34. ASSUME NEW p \in Procs, Takeover(p) PROVE Footprint
  <2>1. UNCHANGED <<channel, gen, job, charged, exec, conf, late, pool, cleared, chain, rollbackDue,
                    reorgs, ttl, recorded>>
    BY <1>34 DEF Takeover
  <2> QED
    BY <1>34, <2>1 DEF Footprint
<1>35. ASSUME NEW p \in Procs, LeaseLostNoticed(p) PROVE Footprint
  <2>1. UNCHANGED <<channel, gen, job, charged, exec, conf, late, pool, cleared, chain, rollbackDue,
                    reorgs, ttl, recorded>>
    BY <1>35 DEF LeaseLostNoticed
  <2> QED
    BY <1>35, <2>1 DEF Footprint
<1>36. ASSUME NEW p \in Procs, RequeueRunning(p) PROVE Footprint
  <2>1. UNCHANGED <<channel, gen, exec, conf, late, pool, cleared, chain, rollbackDue, reorgs, ttl, recorded>>
    BY <1>36 DEF RequeueRunning, Recover
  <2> QED
    BY <1>36, <2>1 DEF Footprint, JobWriters
<1>37. ASSUME NEW p \in Procs, FailHashless(p) PROVE Footprint
  <2>1. UNCHANGED <<channel, gen, exec, conf, late, pool, cleared, chain, rollbackDue, reorgs, ttl, recorded>>
    BY <1>37 DEF FailHashless, Recover
  <2> QED
    BY <1>37, <2>1 DEF Footprint, JobWriters
<1>38. ASSUME NEW p \in Procs, ParkInFlight(p) PROVE Footprint
  <2>1. UNCHANGED <<channel, gen, exec, conf, late, pool, cleared, chain, rollbackDue, reorgs, ttl, recorded>>
    BY <1>38 DEF ParkInFlight, Recover
  <2> QED
    BY <1>38, <2>1 DEF Footprint, JobWriters
<1>39. ASSUME NEW p \in Procs, CloseSessions(p) PROVE Footprint
  <2>1. UNCHANGED <<channel, gen, exec, conf, late, pool, cleared, chain, rollbackDue, reorgs, ttl, recorded>>
    BY <1>39 DEF CloseSessions, Recover
  <2> QED
    BY <1>39, <2>1 DEF Footprint, JobWriters
<1>40. ASSUME NEW p \in Procs, RecoverySkipped(p) PROVE Footprint
  <2>1. UNCHANGED <<channel, gen, job, charged, exec, conf, late, pool, cleared, chain, rollbackDue,
                    reorgs, ttl, recorded>>
    BY <1>40 DEF RecoverySkipped
  <2> QED
    BY <1>40, <2>1 DEF Footprint
<1>41. ASSUME NEW h \in late, LateHookStored(h) PROVE Footprint
  <2>1. UNCHANGED <<channel, gen, conf, pool, cleared, chain, rollbackDue, reorgs, ttl, recorded>>
    BY <1>41 DEF LateHookStored
  <2> QED
    BY <1>41, <2>1 DEF Footprint, JobWriters, ExecWriters, HookWriters
<1>42. ASSUME NEW h \in late, LateHookFails(h) PROVE Footprint
  <2>1. UNCHANGED <<channel, gen, job, charged, exec, conf, pool, cleared, chain, rollbackDue, reorgs,
                    ttl, recorded>>
    BY <1>42 DEF LateHookFails
  <2> QED
    BY <1>42, <2>1 DEF Footprint, HookWriters
<1>43. ASSUME NEW t \in Txs, NEW r \in Outcomes, Include(t, r) PROVE Footprint
  <2>1. UNCHANGED <<channel, gen, job, charged, exec, conf, late, pool, cleared, ttl, recorded>>
    BY <1>43 DEF Include
  <2> QED
    BY <1>43, <2>1 DEF Footprint, ChainWriters
<1>44. ASSUME NEW t \in Txs, NEW r \in Outcomes \cup {"none"}, Reorg(t, r) PROVE Footprint
  <2>1. UNCHANGED <<channel, gen, job, charged, exec, conf, late, pool, cleared, ttl, recorded>>
    BY <1>44 DEF Reorg
  <2> QED
    BY <1>44, <2>1 DEF Footprint, ChainWriters
<1>45. ASSUME NEW t \in Txs, Expire(t) PROVE Footprint
  <2>1. UNCHANGED <<channel, gen, job, charged, exec, conf, late, pool, cleared, chain, rollbackDue,
                    reorgs, recorded>>
    BY <1>45 DEF Expire
  <2> QED
    BY <1>45, <2>1 DEF Footprint, TtlWriters
<1>46. ASSUME NEW t \in Txs, Bury(t) PROVE Footprint
  <2>1. UNCHANGED <<channel, gen, job, charged, exec, conf, late, pool, cleared, chain, rollbackDue,
                    reorgs, recorded>>
    BY <1>46 DEF Bury
  <2> QED
    BY <1>46, <2>1 DEF Footprint, TtlWriters
<1>47. CASE Rollback
  <2>1. UNCHANGED <<channel, exec, conf, late, pool, cleared, ttl, recorded>>
    BY <1>47 DEF Rollback
  <2> QED
    BY <1>47, <2>1 DEF Footprint, JobWriters, ChainWriters
<1> QED
  BY <1>1, <1>2, <1>3, <1>4, <1>5, <1>6, <1>7, <1>8, <1>9, <1>10, <1>11, <1>12, <1>13,
     <1>14, <1>15, <1>16, <1>17, <1>18, <1>19, <1>20, <1>21, <1>22, <1>23, <1>24, <1>25,
     <1>26, <1>27, <1>28, <1>29, <1>30, <1>31, <1>32, <1>33, <1>34, <1>35, <1>36, <1>37,
     <1>38, <1>39, <1>40, <1>41, <1>42, <1>43, <1>44, <1>45, <1>46, <1>47
     DEF Next, Execution, Passes, Lifecycle, LateHook, Chain

-----------------------------------------------------------------------------
(* How the job row moves.                                                    *)

\* A finished job keeps its status and its hash; only a rollback reopens one that failed on chain.
FinishedMoves ==
    /\ job.status = "succeeded" => job'.status = "succeeded" /\ job'.tx = job.tx
    /\ job.status = "failed" =>
          \/ job'.status = "failed" /\ job'.tx = job.tx /\ job'.code = job.code
          \/ /\ Rollback /\ rollbackDue /\ job.code = "CHAIN_EXECUTION_FAILED"
             /\ job'.status = "reconciliation_required" /\ job'.tx = job.tx

\* A parked job keeps its hash until it is finished.
ParkedMoves ==
    job.status = "reconciliation_required" =>
       /\ job'.status \in {"reconciliation_required", "succeeded", "failed"}
       /\ job'.status = "reconciliation_required" => job'.tx = job.tx

\* A process owns a job in flight because it did before, or because the job was claimable.
OwnerMoves == \A p \in Procs : Mine(p, InFlight)' => Mine(p, InFlight) \/ job.status = "pending"

\* The steps that change the hash on the job or the charge on the grant.
HashMoves ==
    \/ job'.tx = job.tx /\ charged' = charged
    \/ \E p \in Procs : \/ SubmitIntentStored(p) \/ RejectionBooked(p) \/ RecordLanded(p)
                        \/ SettleRejectedAttempt(p) \/ FinalizeLostBroadcast(p)
    \/ \E h \in late : LateHookStored(h)

\* The steps that fail a job with a code that says nothing was sent.
NothingSentMoves ==
    job'.status = "failed" /\ job'.code \in NothingSentCodes =>
       \/ job.status = "failed" /\ job.code \in NothingSentCodes
       \/ \E p \in Procs : \/ SettleWithoutHash(p) \/ ReclaimExpiredLease(p) \/ SettleRejectedAttempt(p)
                           \/ FailHashless(p) \/ CloseSessions(p) \/ FinalizeLostBroadcast(p)

\* The steps that let a job succeed.
SuccessMoves ==
    job'.status = "succeeded" =>
       \/ job.status = "succeeded"
       \/ \E p \in Procs : MarkSucceeded(p) \/ RecordOutcome(p)

\* The step that records an outcome.
OutcomeMoves ==
    job'.chain \in Outcomes =>
       \/ job'.chain = job.chain /\ job'.evid = job.evid
       \/ \E p \in Procs : RecordOutcome(p)

JobMoves ==
    /\ FinishedMoves /\ ParkedMoves /\ OwnerMoves /\ HashMoves
    /\ NothingSentMoves /\ SuccessMoves /\ OutcomeMoves

\* A step that leaves the job row and the charge alone moves nothing.
LEMMA JobRests == job' = job /\ charged' = charged => JobMoves
  BY DEF JobMoves, FinishedMoves, ParkedMoves, OwnerMoves, HashMoves, NothingSentMoves, SuccessMoves,
         OutcomeMoves, Mine

\* What markFailed and markReconciliationRequired do to the row.
LEMMA MarkMoves ==
    ASSUME TypeOK, NEW p \in Procs, NEW s, NEW c, MarkUnlessLost(p, s, c)
    PROVE  \/ job' = job
           \/ /\ Mine(p, InFlight) /\ job'.status = s /\ job'.code = c /\ job'.owner = NoOwner
              /\ job'.tx = job.tx /\ job'.chain = job.chain /\ job'.evid = job.evid
  BY DEF TypeOK, JobRows, MarkUnlessLost, Released

\* Every step moves the job row in these ways: one step of the proof per writer of the row.
LEMMA NextJobMoves == ASSUME TypeOK, Next PROVE JobMoves
<1> USE DEF dbVars, procVars, execVars, netVars
<1> USE DEF JobMoves, FinishedMoves, ParkedMoves, OwnerMoves, HashMoves, NothingSentMoves, SuccessMoves, OutcomeMoves
<1>0. \A p \in Procs : WorkerId[p] # NoOwner
  BY ConstantsAssumption
<1>t. job \in JobRows
  BY DEF TypeOK
<1>1. ASSUME NEW p \in Procs, Claim(p) PROVE JobMoves
  <2>1. /\ job.status = "pending" /\ job'.status = "running" /\ job'.tx = job.tx /\ charged' = charged
        /\ job'.chain = job.chain /\ job'.evid = job.evid
    BY <1>1, <1>t DEF Claim, JobRows
  <2> QED
    BY <1>1, <1>0, <2>1 DEF Mine, InFlight, NothingSentCodes, Outcomes
<1>2. ASSUME NEW p \in Procs, ReportExternalExecution(p) PROVE JobMoves
  <2>1. /\ charged' = charged
        /\ \/ job' = job
           \/ /\ Mine(p, {"running"}) /\ job'.status = "external_execution" /\ job'.tx = job.tx
              /\ job'.owner = job.owner /\ job'.chain = job.chain /\ job'.evid = job.evid
    BY <1>2, <1>t DEF ReportExternalExecution, JobRows
  <2> QED
    BY <1>2, <1>0, <2>1 DEF Mine, InFlight, NothingSentCodes, Outcomes
<1>3. ASSUME NEW p \in Procs, SubmitIntentStored(p) PROVE JobMoves
  <2>1. /\ Mine(p, InFlight) /\ job'.status = "submitted" /\ job'.owner = job.owner /\ job'.chain = "pending"
    BY <1>3, <1>t DEF SubmitIntentStored, BroadcastRecorded, Announceable, Mine, InFlight, PastBoundary, JobRows
  <2> QED
    BY <1>3, <1>0, <2>1 DEF Mine, InFlight, NothingSentCodes, Outcomes
<1>4. ASSUME NEW h \in late, LateHookStored(h) PROVE JobMoves
  <2>1. /\ Mine(h.proc, InFlight) /\ job'.status = "submitted" /\ job'.owner = job.owner /\ job'.chain = "pending"
    BY <1>4, <1>t DEF LateHookStored, BroadcastRecorded, Announceable, Mine, InFlight, PastBoundary, JobRows
  <2> QED
    BY <1>4, <1>0, <2>1 DEF Mine, InFlight, NothingSentCodes, Outcomes
<1>5. ASSUME NEW p \in Procs, RejectionBooked(p) PROVE JobMoves
  <2>1. /\ Mine(p, InFlight) /\ job'.status = "external_execution" /\ job'.owner = job.owner /\ job'.chain = "null"
    BY <1>5, <1>t DEF RejectionBooked, Mine, InFlight, PastBoundary, JobRows
  <2> QED
    BY <1>5, <1>0, <2>1 DEF Mine, InFlight, NothingSentCodes, Outcomes
<1>6. ASSUME NEW p \in Procs, SettleWithoutHash(p) PROVE JobMoves
  <2>1. /\ charged' = charged
        /\ \/ job' = job
           \/ /\ Mine(p, InFlight) /\ job'.status = "failed" /\ job'.owner = NoOwner
              /\ job'.tx = job.tx /\ job'.chain = job.chain /\ job'.evid = job.evid
    BY <1>6, <1>t, MarkMoves DEF SettleWithoutHash
  <2> QED
    BY <1>6, <1>0, <2>1 DEF Mine, InFlight, NothingSentCodes, Outcomes
<1>7. ASSUME NEW p \in Procs, SettleWithHash(p) PROVE JobMoves
  <2>1. /\ charged' = charged
        /\ \/ job' = job
           \/ /\ Mine(p, InFlight) /\ job'.status = "reconciliation_required" /\ job'.owner = NoOwner
              /\ job'.tx = job.tx /\ job'.chain = job.chain /\ job'.evid = job.evid
    BY <1>7, <1>t, MarkMoves DEF SettleWithHash
  <2> QED
    BY <1>7, <1>0, <2>1 DEF Mine, InFlight, NothingSentCodes, Outcomes
<1>8. ASSUME NEW p \in Procs, RecordLanded(p) PROVE JobMoves
  <2>1. /\ job' = job \/ (/\ Mine(p, InFlight) /\ job'.status = "submitted" /\ job'.owner = job.owner
                          /\ job'.chain = "pending")
        /\ charged' = charged
    BY <1>8, <1>t DEF RecordLanded, Mine, InFlight, PastBoundary, JobRows
  <2> QED
    BY <1>8, <1>0, <2>1 DEF Mine, InFlight, NothingSentCodes, Outcomes
<1>9. ASSUME NEW p \in Procs, MarkSucceeded(p) PROVE JobMoves
  <2>1. /\ charged' = charged
        /\ \/ job' = job
           \/ /\ Mine(p, InFlight) /\ job'.status = "succeeded" /\ job'.owner = NoOwner
              /\ job'.tx = job.tx /\ job'.chain = job.chain /\ job'.evid = job.evid
    BY <1>9, <1>t DEF MarkSucceeded, Released, JobRows
  <2> QED
    BY <1>9, <1>0, <2>1 DEF Mine, InFlight, NothingSentCodes, Outcomes
<1>10. ASSUME NEW p \in Procs, ResultNotPersisted(p) PROVE JobMoves
  <2>1. /\ charged' = charged
        /\ \/ job' = job
           \/ /\ Mine(p, InFlight) /\ job'.status = "failed" /\ job'.owner = NoOwner
              /\ job'.tx = job.tx /\ job'.chain = job.chain /\ job'.evid = job.evid
              /\ job'.code = "RESULT_PERSIST_FAILED"
    BY <1>10, <1>t, MarkMoves DEF ResultNotPersisted
  <2> QED
    BY <1>10, <1>0, <2>1 DEF Mine, InFlight, NothingSentCodes, Outcomes
<1>11. ASSUME NEW p \in Procs, ReclaimExpiredLease(p) PROVE JobMoves
  <2>1. /\ job.status = "running" /\ job'.status \in {"failed", "pending"} /\ job'.tx = job.tx /\ charged' = charged
        /\ job'.chain = job.chain /\ job'.evid = job.evid
    BY <1>11, <1>t DEF ReclaimExpiredLease, Released, JobRows
  <2> QED
    BY <1>11, <1>0, <2>1 DEF Mine, InFlight, NothingSentCodes, Outcomes
<1>12. ASSUME NEW p \in Procs, SettleRejectedAttempt(p) PROVE JobMoves
  <2>1. /\ job.status = "reconciliation_required" /\ job'.status = "failed" /\ job'.chain = "null"
    BY <1>12, <1>t DEF SettleRejectedAttempt, JobRows
  <2> QED
    BY <1>12, <1>0, <2>1 DEF Mine, InFlight, NothingSentCodes, Outcomes
<1>13. ASSUME NEW p \in Procs, FinalizeLostBroadcast(p) PROVE JobMoves
  <2>1. /\ job.status = "reconciliation_required" /\ job'.status = "failed" /\ job'.chain = "dropped"
    BY <1>13, <1>t DEF FinalizeLostBroadcast, StillOpen, JobRows
  <2> QED
    BY <1>13, <1>0, <2>1 DEF Mine, InFlight, NothingSentCodes, Outcomes
<1>14. ASSUME NEW p \in Procs, NoVerdict(p) PROVE JobMoves
  <2>1. /\ charged' = charged
        /\ \/ job' = job
           \/ /\ Mine(p, InFlight) /\ job'.status = "reconciliation_required" /\ job'.owner = NoOwner
              /\ job'.tx = job.tx /\ job'.chain = job.chain /\ job'.evid = job.evid
    BY <1>14, <1>t, MarkMoves DEF NoVerdict
  <2> QED
    BY <1>14, <1>0, <2>1 DEF Mine, InFlight, NothingSentCodes, Outcomes
<1>15. ASSUME NEW p \in Procs, RequeueRunning(p) PROVE JobMoves
  <2>1. /\ charged' = charged
        /\ \/ job' = job
           \/ /\ job.status = "running" /\ job'.status = "pending"
              /\ job'.code = "none" /\ job'.owner = NoOwner
              /\ job'.tx = job.tx /\ job'.chain = job.chain /\ job'.evid = job.evid
    BY <1>15, <1>t DEF RequeueRunning, Recover, Released, JobRows
  <2> QED
    BY <1>15, <1>0, <2>1 DEF Mine, InFlight, NothingSentCodes, Outcomes
<1>16. ASSUME NEW p \in Procs, FailHashless(p) PROVE JobMoves
  <2>1. /\ charged' = charged
        /\ \/ job' = job
           \/ /\ job.status = "external_execution" /\ job'.status = "failed"
              /\ job'.code = "PROCESS_RESTART_BEFORE_BROADCAST" /\ job'.owner = NoOwner
              /\ job'.tx = job.tx /\ job'.chain = job.chain /\ job'.evid = job.evid
    BY <1>16, <1>t DEF FailHashless, Recover, Released, JobRows
  <2> QED
    BY <1>16, <1>0, <2>1 DEF Mine, InFlight, NothingSentCodes, Outcomes
<1>17. ASSUME NEW p \in Procs, ParkInFlight(p) PROVE JobMoves
  <2>1. /\ charged' = charged
        /\ \/ job' = job
           \/ /\ job.status \in InFlight /\ job'.status = "reconciliation_required"
              /\ job'.code = "PROCESS_RESTART_RECONCILE" /\ job'.owner = NoOwner
              /\ job'.tx = job.tx /\ job'.chain = job.chain /\ job'.evid = job.evid
    BY <1>17, <1>t DEF ParkInFlight, PastBoundary, InFlight, Recover, Released, JobRows
  <2> QED
    BY <1>17, <1>0, <2>1 DEF Mine, InFlight, NothingSentCodes, Outcomes
<1>18. ASSUME NEW p \in Procs, CloseSessions(p) PROVE JobMoves
  <2>1. /\ charged' = charged
        /\ \/ job' = job
           \/ /\ job.status = "pending" /\ job'.status = "failed"
              /\ job'.code = "PROCESS_RESTART_SESSION_CLOSED" /\ job'.owner = NoOwner
              /\ job'.tx = job.tx /\ job'.chain = job.chain /\ job'.evid = job.evid
    BY <1>18, <1>t DEF CloseSessions, Recover, Released, JobRows
  <2> QED
    BY <1>18, <1>0, <2>1 DEF Mine, InFlight, NothingSentCodes, Outcomes
<1>19. ASSUME NEW p \in Procs, RecordOutcome(p) PROVE JobMoves
  <2>1. charged' = charged /\ job'.tx = job.tx
    BY <1>19, <1>t DEF RecordOutcome, Released, JobRows
  <2>2. CASE conf[p].from = "succeeded"
    <3>1. job.status = "succeeded" /\ job'.status = "succeeded"
      BY <1>19, <1>t, <2>2 DEF RecordOutcome, StillOpen, JobRows
    <3> QED
      BY <1>19, <2>1, <3>1 DEF Mine, InFlight
  <2>3. CASE conf[p].from # "succeeded"
    <3>1. /\ job.status \in InFlight \cup {"reconciliation_required"} /\ job'.owner = NoOwner
          /\ job'.status \in {"succeeded", "failed"}
          /\ job'.status = "failed" => job'.code = "CHAIN_EXECUTION_FAILED"
      <4>1. conf[p].from \in {"recon", "flight"}
        BY <2>3 DEF TypeOK, Confs
      <4> QED
        BY <1>19, <1>t, <2>3, <4>1 DEF RecordOutcome, StillOpen, Mine, Released, JobRows
    <3> QED
      BY <1>19, <1>0, <2>1, <3>1 DEF Mine, InFlight, NothingSentCodes
  <2> QED
    BY <2>2, <2>3
<1>20. CASE Rollback
  <2>1. /\ charged' = charged /\ rollbackDue
        /\ \/ job' = job
           \/ /\ job'.status = job.status /\ job'.owner = job.owner /\ job'.tx = job.tx /\ job'.code = job.code
              /\ job'.chain = "pending"
           \/ /\ job.status = "failed" /\ job.code = "CHAIN_EXECUTION_FAILED"
              /\ job'.status = "reconciliation_required" /\ job'.owner = job.owner /\ job'.tx = job.tx
              /\ job'.chain = "pending"
    BY <1>20, <1>t DEF Rollback, JobReverted, JobRows
  <2> QED
    BY <1>20, <2>1 DEF Mine, InFlight, Outcomes
<1> QED
  BY NextFootprint, <1>1, <1>2, <1>3, <1>4, <1>5, <1>6, <1>7, <1>8, <1>9, <1>10, <1>11, <1>12,
     <1>13, <1>14, <1>15, <1>16, <1>17, <1>18, <1>19, <1>20, JobRests DEF Footprint,
     JobWriters

-----------------------------------------------------------------------------
(* How an execution moves.                                                   *)

\* An execution that was told that its transaction did not apply.
ToldNotApplied(p) ==
    \/ exec[p].pc \in {"error", "failed", "settle"} /\ exec[p].err = "notApplied"
    \/ exec[p].pc = "chainFailure"

\* The execution of q goes to these points from where it was, or by the named steps.
ExecMoves(q) ==
    /\ exec'[q].pc = "settle" =>
          (exec[q].pc = "settle" /\ exec'[q].snap = exec[q].snap) \/ ReadFailedJob(q)
    /\ exec'[q].pc = "sending" =>
          \/ exec[q].pc = "sending" /\ exec'[q].cur = exec[q].cur /\ (exec[q].crossed => exec'[q].crossed)
          \/ SubmitIntentStored(q)
    /\ ToldNotApplied(q)' =>
          \/ /\ ToldNotApplied(q) /\ exec'[q].cur = exec[q].cur /\ (exec[q].crossed => exec'[q].crossed)
             /\ exec'[q].pc \in {"settle", "chainFailure"} =>
                   exec[q].pc \in {"settle", "chainFailure"} /\ exec'[q].snap = exec[q].snap
          \/ ReadFailedJob(q) \/ WorkerLanded(q)
    /\ exec'[q].pc \in {"returned", "persist"} => exec[q].pc \in {"returned", "persist"} \/ RecordLanded(q)
    /\ exec'[q].pc \in {"run", "intent"} =>
          \/ exec[q].pc \in {"run", "intent"} /\ exec'[q].resv = exec[q].resv /\ exec'[q].crossed = exec[q].crossed
          \/ Claim(q) \/ ReportExternalExecution(q) \/ RejectionBooked(q)
    /\ \/ exec'[q].led \in {NoTx, exec[q].led} /\ exec'[q].resv = exec[q].resv
       \/ exec'[q].led = NoTx /\ exec'[q].resv = 0
       \/ exec'[q].resv = IF channel = "sponsor" THEN 1 ELSE 0
    /\ exec[q].pc = "chainFailure" =>
          (exec'[q].pc = "chainFailure" /\ exec'[q].snap = exec[q].snap) \/ conf'[q] = IdleConf

\* An execution that a step leaves alone,
LEMMA ExecRests == ASSUME NEW q \in Procs, exec'[q] = exec[q] PROVE ExecMoves(q)
  BY DEF ExecMoves, ToldNotApplied

\* and one that ends.
LEMMA ExecEnds ==
    ASSUME NEW q \in Procs, exec'[q] = IdleExec, exec[q].pc # "chainFailure" \/ conf'[q] = IdleConf
    PROVE  ExecMoves(q)
  BY DEF ExecMoves, ToldNotApplied, IdleExec

\* The end of a lookup that no job runner waits for leaves the executions alone.
LEMMA ConfEnds ==
    ASSUME TypeOK, NEW p \in Procs, ConfDone(p) PROVE \A q \in Procs : ExecMoves(q)
<1>1. /\ conf'[p] = IdleConf
      /\ \A q \in Procs : exec'[q] = exec[q] \/ (q = p /\ exec'[q] = IdleExec)
  BY DEF ConfDone, TypeOK
<1> QED
  BY <1>1, ExecRests, ExecEnds

\* Every step moves the executions in these ways: one step of the proof per writer.
LEMMA NextExecMoves == ASSUME IInv, Next PROVE \A q \in Procs : ExecMoves(q)
<1> USE DEF dbVars, procVars, execVars, netVars
<1> DEFINE Moves == \A q \in Procs : ExecMoves(q)
<1>t. TypeOK /\ exec \in [Procs -> Execs]
  BY DEF IInv, TypeOK
<1>r. ASSUME NEW p \in Procs, \A q \in Procs \ {p} : exec'[q] = exec[q], ExecMoves(p) PROVE Moves
  BY <1>r, ExecRests
<1>1. ASSUME NEW p \in Procs, Claim(p) PROVE Moves
  <2>1. /\ \A q \in Procs \ {p} : exec'[q] = exec[q]
        /\ exec[p].pc = "idle"
        /\ exec'[p] = [IdleExec EXCEPT !.pc = "run"]
    BY <1>1, <1>t DEF Claim
  <2>2. ExecMoves(p)
    BY <1>1, <1>t, <2>1 DEF ExecMoves, ToldNotApplied, IdleExec, Execs
  <2> QED
    BY <1>r, <2>1, <2>2
<1>2. ASSUME NEW p \in Procs, ReportExternalExecution(p) PROVE Moves
  <2>1. /\ \A q \in Procs \ {p} : exec'[q] = exec[q]
        /\ exec[p].pc = "run"
        /\ \/ exec'[p] = [exec[p] EXCEPT !.crossed = TRUE]
           \/ exec'[p] = [exec[p] EXCEPT !.pc = "failed", !.err = "internal"]
    BY <1>2, <1>t DEF ReportExternalExecution
  <2>2. ExecMoves(p)
    BY <1>2, <1>t, <2>1 DEF ExecMoves, ToldNotApplied, IdleExec, Execs
  <2> QED
    BY <1>r, <2>1, <2>2
<1>3. ASSUME NEW p \in Procs, AttemptFails(p) PROVE Moves
  <2>1. /\ \A q \in Procs \ {p} : exec'[q] = exec[q]
        /\ exec[p].pc = "run"
        /\ exec'[p] = [exec[p] EXCEPT !.pc = "failed", !.err = "internal"]
    BY <1>3, <1>t DEF AttemptFails
  <2>2. ExecMoves(p)
    BY <1>3, <1>t, <2>1 DEF ExecMoves, ToldNotApplied, IdleExec, Execs
  <2> QED
    BY <1>r, <2>1, <2>2
<1>4. ASSUME NEW p \in Procs, AssertLeaseHeld(p) PROVE Moves
  <2>1. /\ \A q \in Procs \ {p} : exec'[q] = exec[q]
        /\ exec[p].pc = "intent"
        /\ \/ exec'[p] = [exec[p] EXCEPT !.chk = TRUE]
           \/ exec'[p] = [exec[p] EXCEPT !.pc = "error", !.err = "intent"]
    BY <1>4, <1>t DEF AssertLeaseHeld
  <2>2. ExecMoves(p)
    BY <1>4, <1>t, <2>1 DEF ExecMoves, ToldNotApplied, IdleExec, Execs
  <2> QED
    BY <1>r, <2>1, <2>2
<1>5. ASSUME NEW p \in Procs, SubmitIntentStored(p) PROVE Moves
  <2>1. /\ \A q \in Procs \ {p} : exec'[q] = exec[q]
        /\ exec[p].pc = "intent"
        /\ exec'[p] = [exec[p] EXCEPT !.pc = "sending", !.led = exec[p].cur, !.crossed = TRUE,
                                   !.resv = IF channel = "sponsor" THEN 1 ELSE 0]
    BY <1>5, <1>t DEF SubmitIntentStored
  <2>2. ExecMoves(p)
    BY <1>5, <1>t, <2>1 DEF ExecMoves, ToldNotApplied, IdleExec, Execs
  <2> QED
    BY <1>r, <2>1, <2>2
<1>6. ASSUME NEW p \in Procs, SubmitIntentRefused(p) PROVE Moves
  <2>1. /\ \A q \in Procs \ {p} : exec'[q] = exec[q]
        /\ exec[p].pc = "intent"
        /\ exec'[p] = [exec[p] EXCEPT !.pc = "error", !.err = "intent"]
    BY <1>6, <1>t DEF SubmitIntentRefused
  <2>2. ExecMoves(p)
    BY <1>6, <1>t, <2>1 DEF ExecMoves, ToldNotApplied, IdleExec, Execs
  <2> QED
    BY <1>r, <2>1, <2>2
<1>7. ASSUME NEW p \in Procs, SubmitIntentAbandoned(p) PROVE Moves
  <2>1. /\ \A q \in Procs \ {p} : exec'[q] = exec[q]
        /\ exec[p].pc = "intent"
        /\ \E e \in {"intent", "internal", "ambiguous"} : exec'[p] = [exec[p] EXCEPT !.pc = "error", !.err = e]
    BY <1>7, <1>t DEF SubmitIntentAbandoned
  <2>2. ExecMoves(p)
    BY <1>7, <1>t, <2>1 DEF ExecMoves, ToldNotApplied, IdleExec, Execs
  <2> QED
    BY <1>r, <2>1, <2>2
<1>8. ASSUME NEW p \in Procs, WorkerRejected(p) PROVE Moves
  <2>1. /\ \A q \in Procs \ {p} : exec'[q] = exec[q]
        /\ exec[p].pc = "sending"
        /\ exec'[p] = [exec[p] EXCEPT !.pc = "error", !.err = "reject"]
    BY <1>8, <1>t DEF WorkerRejected, Answered
  <2>2. ExecMoves(p)
    BY <1>8, <1>t, <2>1 DEF ExecMoves, ToldNotApplied, IdleExec, Execs
  <2> QED
    BY <1>r, <2>1, <2>2
<1>9. ASSUME NEW p \in Procs, WorkerAmbiguous(p) PROVE Moves
  <2>1. /\ \A q \in Procs \ {p} : exec'[q] = exec[q]
        /\ exec[p].pc = "sending"
        /\ exec'[p] = [exec[p] EXCEPT !.pc = "error", !.err = "ambiguous"]
    BY <1>9, <1>t DEF WorkerAmbiguous, Answered
  <2>2. ExecMoves(p)
    BY <1>9, <1>t, <2>1 DEF ExecMoves, ToldNotApplied, IdleExec, Execs
  <2> QED
    BY <1>r, <2>1, <2>2
<1>10. ASSUME NEW p \in Procs, WorkerFailed(p) PROVE Moves
  <2>1. /\ \A q \in Procs \ {p} : exec'[q] = exec[q]
        /\ exec[p].pc = "sending"
        /\ exec'[p] = [exec[p] EXCEPT !.pc = "error", !.err = "internal"]
    BY <1>10, <1>t DEF WorkerFailed, Answered
  <2>2. ExecMoves(p)
    BY <1>10, <1>t, <2>1 DEF ExecMoves, ToldNotApplied, IdleExec, Execs
  <2> QED
    BY <1>r, <2>1, <2>2
<1>11. ASSUME NEW p \in Procs, WorkerLanded(p) PROVE Moves
  <2>1. /\ \A q \in Procs \ {p} : exec'[q] = exec[q]
        /\ exec[p].pc = "sending"
        /\ \/ exec'[p] = [exec[p] EXCEPT !.pc = "landed"]
           \/ exec'[p] = [exec[p] EXCEPT !.pc = "error", !.err = "notApplied"]
    BY <1>11, <1>t DEF WorkerLanded, Answered
  <2>2. ExecMoves(p)
    BY <1>11, <1>t, <2>1 DEF ExecMoves, ToldNotApplied, IdleExec, Execs
  <2> QED
    BY <1>r, <2>1, <2>2
<1>12. ASSUME NEW p \in Procs, RejectionBooked(p) PROVE Moves
  <2>1. /\ \A q \in Procs \ {p} : exec'[q] = exec[q]
        /\ exec[p].pc = "error" /\ exec[p].err \in {"reject", "intent"}
        /\ \E next \in {"run", "failed"} : exec'[p] = [exec[p] EXCEPT !.pc = next, !.led = NoTx, !.resv = 0]
    BY <1>12, <1>t DEF RejectionBooked, PreInclusion
  <2>2. ExecMoves(p)
    BY <1>12, <1>t, <2>1 DEF ExecMoves, ToldNotApplied, IdleExec, Execs
  <2> QED
    BY <1>r, <2>1, <2>2
<1>13. ASSUME NEW p \in Procs, RejectionNotBooked(p) PROVE Moves
  <2>1. /\ \A q \in Procs \ {p} : exec'[q] = exec[q]
        /\ exec[p].pc = "error"
        /\ exec'[p] = [exec[p] EXCEPT !.pc = "failed", !.err = "bookkeeping"]
    BY <1>13, <1>t DEF RejectionNotBooked
  <2>2. ExecMoves(p)
    BY <1>13, <1>t, <2>1 DEF ExecMoves, ToldNotApplied, IdleExec, Execs
  <2> QED
    BY <1>r, <2>1, <2>2
<1>14. ASSUME NEW p \in Procs, AttemptClosedAsRebuilt(p) PROVE Moves
  <2>1. /\ \A q \in Procs \ {p} : exec'[q] = exec[q]
        /\ exec[p].pc = "error"
        /\ exec'[p] = [exec[p] EXCEPT !.pc = "failed", !.led = NoTx]
    BY <1>14, <1>t DEF AttemptClosedAsRebuilt
  <2>2. ExecMoves(p)
    BY <1>14, <1>t, <2>1 DEF ExecMoves, ToldNotApplied, IdleExec, Execs
  <2> QED
    BY <1>r, <2>1, <2>2
<1>15. ASSUME NEW p \in Procs, NothingToBook(p) PROVE Moves
  <2>1. /\ \A q \in Procs \ {p} : exec'[q] = exec[q]
        /\ exec[p].pc = "error"
        /\ exec'[p] = [exec[p] EXCEPT !.pc = "failed"]
    BY <1>15, <1>t DEF NothingToBook
  <2>2. ExecMoves(p)
    BY <1>15, <1>t, <2>1 DEF ExecMoves, ToldNotApplied, IdleExec, Execs
  <2> QED
    BY <1>r, <2>1, <2>2
<1>16. ASSUME NEW p \in Procs, ReadFailedJob(p) PROVE Moves
  <2>1. /\ \A q \in Procs \ {p} : exec'[q] = exec[q]
        /\ exec[p].pc = "failed"
        /\ exec'[p] = [exec[p] EXCEPT !.pc = "settle", !.snap = job.tx]
    BY <1>16, <1>t DEF ReadFailedJob
  <2>2. ExecMoves(p)
    BY <1>16, <1>t, <2>1 DEF ExecMoves, ToldNotApplied, IdleExec, Execs
  <2> QED
    BY <1>r, <2>1, <2>2
<1>17. ASSUME NEW p \in Procs, SettleWithoutHash(p) PROVE Moves
  <2>1. /\ \A q \in Procs \ {p} : exec'[q] = exec[q]
        /\ exec[p].pc = "settle"
        /\ exec'[p] = IdleExec
    BY <1>17, <1>t DEF SettleWithoutHash, Idle
  <2>2. ExecMoves(p)
    BY <1>17, <1>t, <2>1 DEF ExecMoves, ToldNotApplied, IdleExec, Execs
  <2> QED
    BY <1>r, <2>1, <2>2
<1>18. ASSUME NEW p \in Procs, SettleWithHash(p) PROVE Moves
  <2>1. /\ \A q \in Procs \ {p} : exec'[q] = exec[q]
        /\ exec[p].pc = "settle"
        /\ exec'[p] = IdleExec
    BY <1>18, <1>t DEF SettleWithHash, Idle
  <2>2. ExecMoves(p)
    BY <1>18, <1>t, <2>1 DEF ExecMoves, ToldNotApplied, IdleExec, Execs
  <2> QED
    BY <1>r, <2>1, <2>2
<1>19. ASSUME NEW p \in Procs, SettleNotApplied(p) PROVE Moves
  <2>1. /\ \A q \in Procs \ {p} : exec'[q] = exec[q]
        /\ exec[p].pc = "settle" /\ exec[p].err = "notApplied"
        /\ exec'[p] = [exec[p] EXCEPT !.pc = "chainFailure"]
    BY <1>19, <1>t DEF SettleNotApplied
  <2>2. ExecMoves(p)
    BY <1>19, <1>t, <2>1 DEF ExecMoves, ToldNotApplied, IdleExec, Execs
  <2> QED
    BY <1>r, <2>1, <2>2
<1>20. ASSUME NEW p \in Procs, RecordLanded(p) PROVE Moves
  <2>1. /\ \A q \in Procs \ {p} : exec'[q] = exec[q]
        /\ exec[p].pc = "landed"
        /\ \/ exec'[p] = [exec[p] EXCEPT !.pc = "returned"]
           \/ exec'[p] = [exec[p] EXCEPT !.pc = "failed", !.err = "internal"]
           \/ exec'[p] = [exec[p] EXCEPT !.pc = "error", !.err = "internal"]
    BY <1>20, <1>t DEF RecordLanded, Answered
  <2>2. ExecMoves(p)
    BY <1>20, <1>t, <2>1 DEF ExecMoves, ToldNotApplied, IdleExec, Execs
  <2> QED
    BY <1>r, <2>1, <2>2
<1>21. ASSUME NEW p \in Procs, MarkSucceeded(p) PROVE Moves
  <2>1. /\ \A q \in Procs \ {p} : exec'[q] = exec[q]
        /\ exec[p].pc = "returned"
        /\ exec'[p] = IdleExec \/ exec'[p] = [exec[p] EXCEPT !.pc = "persist"]
    BY <1>21, <1>t DEF MarkSucceeded, Idle
  <2>2. ExecMoves(p)
    BY <1>21, <1>t, <2>1 DEF ExecMoves, ToldNotApplied, IdleExec, Execs
  <2> QED
    BY <1>r, <2>1, <2>2
<1>22. ASSUME NEW p \in Procs, ResultNotPersisted(p) PROVE Moves
  <2>1. /\ \A q \in Procs \ {p} : exec'[q] = exec[q]
        /\ exec[p].pc = "persist"
        /\ exec'[p] = IdleExec
    BY <1>22, <1>t DEF ResultNotPersisted, Idle
  <2>2. ExecMoves(p)
    BY <1>22, <1>t, <2>1 DEF ExecMoves, ToldNotApplied, IdleExec, Execs
  <2> QED
    BY <1>r, <2>1, <2>2
<1>23. ASSUME NEW p \in Procs, Crash(p) PROVE Moves
  <2>1. /\ \A q \in Procs \ {p} : exec'[q] = exec[q]
        /\ exec'[p] = IdleExec /\ conf'[p] = IdleConf
    BY <1>23, <1>t DEF Crash, TypeOK
  <2>2. ExecMoves(p)
    BY <1>23, <1>t, <2>1 DEF ExecMoves, ToldNotApplied, IdleExec, Execs
  <2> QED
    BY <1>r, <2>1, <2>2
<1>24. ASSUME NEW p \in Procs, RecordOutcome(p) PROVE Moves
  <2>1. ConfDone(p)
    BY <1>24 DEF RecordOutcome
  <2> QED
    BY <1>t, <2>1, ConfEnds
<1>25. ASSUME NEW p \in Procs, FinalizeLostBroadcast(p) PROVE Moves
  <2>1. ConfDone(p)
    BY <1>25 DEF FinalizeLostBroadcast
  <2> QED
    BY <1>t, <2>1, ConfEnds
<1>26. ASSUME NEW p \in Procs, NoVerdict(p) PROVE Moves
  <2>1. ConfDone(p)
    BY <1>26 DEF NoVerdict
  <2> QED
    BY <1>t, <2>1, ConfEnds
<1>27. ASSUME NEW p \in Procs, NEW t \in Txs, AnnounceSubmitIntent(p, t) PROVE Moves
  <2>1. /\ \A q \in Procs \ {p} : exec'[q] = exec[q]
        /\ exec[p].pc = "run" /\ exec'[p] = [exec[p] EXCEPT !.pc = "intent", !.cur = t, !.chk = FALSE]
    BY <1>27, <1>t DEF AnnounceSubmitIntent
  <2>2. ExecMoves(p)
    BY <1>27, <1>t, <2>1 DEF ExecMoves, ToldNotApplied, IdleExec, Execs
  <2> QED
    BY <1>r, <2>1, <2>2
<1>28. ASSUME NEW h \in late, LateHookStored(h) PROVE Moves
  <2>0. h.proc \in Procs
    BY DEF IInv, TypeOK, LateHooks
  <2>1. CASE exec' = exec
    BY <2>1, ExecRests
  <2>2. CASE exec' # exec
    <3>1. /\ \A q \in Procs \ {h.proc} : exec'[q] = exec[q]
          /\ exec[h.proc].cur = h.tx
          /\ exec'[h.proc] = [exec[h.proc] EXCEPT !.led = h.tx, !.crossed = TRUE,
                                                 !.resv = IF channel = "sponsor" THEN 1 ELSE 0]
      BY <1>28, <1>t, <2>2 DEF LateHookStored
    <3>2. Ending(h.proc)
      BY <3>1 DEF IInv, HooksHarmless
    <3>3. /\ exec'[h.proc].pc = exec[h.proc].pc /\ exec'[h.proc].err = exec[h.proc].err
          /\ exec'[h.proc].cur = exec[h.proc].cur /\ exec'[h.proc].snap = exec[h.proc].snap
          /\ exec'[h.proc].crossed /\ exec'[h.proc].resv = IF channel = "sponsor" THEN 1 ELSE 0
      BY <1>t, <2>0, <3>1 DEF Execs
    <3>4. ExecMoves(h.proc)
      BY <3>2, <3>3 DEF ExecMoves, ToldNotApplied, Ending
    <3> QED
      BY <1>r, <2>0, <3>1, <3>4
  <2> QED
    BY <2>1, <2>2
<1> QED
  BY NextFootprint, <1>1, <1>2, <1>3, <1>4, <1>5, <1>6, <1>7, <1>8, <1>9, <1>10, <1>11, <1>12,
     <1>13, <1>14, <1>15, <1>16, <1>17, <1>18, <1>19, <1>20, <1>21, <1>22, <1>23, <1>24, <1>25,
     <1>26, <1>27, <1>28, ExecRests DEF Footprint, ExecWriters

-----------------------------------------------------------------------------
(* How a lookup, the chain and the transactions that can land move.          *)

\* A lookup stays, ends, or takes one of its steps.
ConfMoves(q) ==
    \/ conf'[q] \in {conf[q], IdleConf}
    \/ SettleNotApplied(q) \/ ConfirmRead(q) \/ Lookup(q) \/ LookupFails(q)

\* Every step moves the lookups in these ways.
LEMMA NextConfMoves == ASSUME TypeOK, Next PROVE \A q \in Procs : ConfMoves(q)
<1>t. conf \in [Procs -> Confs]
  BY DEF TypeOK
<1>1. ASSUME NEW p \in Procs, SettleNotApplied(p) \/ ConfirmRead(p) \/ Lookup(p) \/ LookupFails(p),
             NEW q \in Procs
      PROVE  ConfMoves(q)
  <2>1. q # p => conf'[q] = conf[q]
    BY <1>1, <1>t DEF SettleNotApplied, ConfirmRead, Lookup, LookupFails
  <2> QED
    BY <1>1, <2>1 DEF ConfMoves
<1>2. ASSUME NEW p \in Procs, RecordOutcome(p) \/ FinalizeLostBroadcast(p) \/ NoVerdict(p) \/ Crash(p),
             NEW q \in Procs
      PROVE  ConfMoves(q)
  <2>1. conf'[q] \in {conf[q], IdleConf}
    BY <1>2, <1>t DEF RecordOutcome, FinalizeLostBroadcast, NoVerdict, Crash, ConfDone
  <2> QED
    BY <2>1 DEF ConfMoves
<1>3. ASSUME conf' = conf, NEW q \in Procs PROVE ConfMoves(q)
  BY <1>3 DEF ConfMoves
<1> QED
  BY NextFootprint, <1>1, <1>2, <1>3 DEF Footprint, ConfWriters

\* What happens to a transaction: it is included within its validity window; a reorganisation moves one
\* that is not buried, and a rollback is then due until it advances the generation; windows only end.
NetMoves ==
    /\ \A t \in Txs : \/ chain'[t] = chain[t]
                      \/ t \in pool /\ chain[t] = "none" /\ ttl[t] = "valid"
                      \/ /\ t \in pool /\ chain[t] # "none" /\ ttl[t] # "buried"
                         /\ rollbackDue' /\ reorgs' = reorgs + 1
    /\ \A t \in Txs : ttl[t] = "buried" => ttl'[t] = "buried"
    /\ \A t \in pool \ pool' : chain'[t] = "none"
    /\ rollbackDue /\ ~rollbackDue' => Rollback
    /\ reorgs' \in {reorgs, reorgs + 1}
    /\ gen' = gen \/ (gen' = gen + 1 /\ Rollback)

\* Every step moves the chain in these ways.
LEMMA NextNetMoves == ASSUME TypeOK, Next PROVE NetMoves
<1> USE DEF dbVars, procVars, execVars, netVars
<1>t. /\ chain \in [Txs -> {"none"} \cup Outcomes] /\ pool \in SUBSET Txs
      /\ ttl \in [Txs -> {"unbuilt", "valid", "expired", "buried"}]
  BY DEF TypeOK
<1> DEFINE ChainPart == \A t \in Txs : \/ chain'[t] = chain[t]
                                       \/ t \in pool /\ chain[t] = "none" /\ ttl[t] = "valid"
                                       \/ /\ t \in pool /\ chain[t] # "none" /\ ttl[t] # "buried"
                                          /\ rollbackDue' /\ reorgs' = reorgs + 1
<1>1. ChainPart /\ (rollbackDue /\ ~rollbackDue' => Rollback) /\ reorgs' \in {reorgs, reorgs + 1}
  <2>1. CASE UNCHANGED <<chain, rollbackDue, reorgs>>
    BY <2>1
  <2>2. ASSUME NEW t \in Txs, NEW r \in Outcomes, Include(t, r)
        PROVE  ChainPart /\ rollbackDue' = rollbackDue /\ reorgs' = reorgs
    BY <1>t, <2>2 DEF Include
  <2>3. ASSUME NEW t \in Txs, NEW r \in Outcomes \cup {"none"}, Reorg(t, r)
        PROVE  ChainPart /\ rollbackDue' /\ reorgs' = reorgs + 1
    BY <1>t, <2>3 DEF Reorg
  <2>4. CASE Rollback
    <3>1. UNCHANGED <<chain, reorgs>>
      BY <2>4 DEF Rollback
    <3> QED
      BY <2>4, <3>1
  <2> QED
    BY NextFootprint, <2>1, <2>2, <2>3, <2>4 DEF Footprint, ChainWriters
<1>2. \A t \in Txs : ttl[t] = "buried" => ttl'[t] = "buried"
  BY <1>t, NextFootprint DEF Footprint, TtlWriters, AnnounceSubmitIntent, Expire, Bury
<1>3. \A t \in pool \ pool' : chain'[t] = "none"
  <2>1. ASSUME NEW p \in Procs, WorkerRejected(p), NEW t \in pool \ pool' PROVE chain'[t] = "none"
    BY <2>1 DEF WorkerRejected
  <2>2. ASSUME NEW p \in Procs,
               SubmitIntentStored(p) \/ WorkerFailed(p) \/ Crash(p) \/ \E t \in Txs : WorkerSends(p, t)
        PROVE  pool \subseteq pool'
    BY <2>2 DEF SubmitIntentStored, WorkerFailed, Crash, WorkerSends
  <2> QED
    BY NextFootprint, <2>1, <2>2 DEF Footprint, PoolWriters
<1>4. gen' = gen \/ (gen' = gen + 1 /\ Rollback)
  <2>1. Rollback => gen' = gen + 1
    BY DEF Rollback
  <2> QED
    BY NextFootprint, <2>1 DEF Footprint
<1> QED
  BY <1>1, <1>2, <1>3, <1>4 DEF NetMoves

\* Only a stored announcement adds a transaction that can land.
LEMMA LandableMoves ==
    ASSUME IInv, Next, NEW t \in Txs, Landable(t)'
    PROVE  Landable(t) \/ \E p \in Procs : SubmitIntentStored(p)
<1>1. CASE UNCHANGED <<pool, cleared>>
  BY <1>1 DEF Landable
<1>2. ASSUME NEW p \in Procs, WorkerRejected(p) \/ WorkerFailed(p) \/ Crash(p) \/ \E u \in Txs : WorkerSends(p, u)
      PROVE  Landable(t)
  <2>1. cleared \in [Procs -> SUBSET Txs]
    BY DEF IInv, TypeOK
  <2>2. CASE WorkerRejected(p)
    BY <2>1, <2>2 DEF Landable, WorkerRejected
  <2>3. CASE WorkerFailed(p)
    BY <2>1, <2>3 DEF Landable, WorkerFailed, netVars
  <2>4. CASE Crash(p)
    BY <2>1, <2>4 DEF Landable, Crash, netVars
  <2>5. ASSUME NEW u \in Txs, WorkerSends(p, u) PROVE Landable(t)
    BY <2>1, <2>5 DEF Landable, WorkerSends
  <2> QED
    BY <1>2, <2>2, <2>3, <2>4, <2>5
<1> QED
  BY NextFootprint, <1>1, <1>2 DEF Footprint, PoolWriters

\* A recorded result stays recorded.
LEMMA RecordedStays == ASSUME Next, recorded PROVE recorded'
<1>1. ASSUME NEW p \in Procs, RecordLanded(p) \/ RecordOutcome(p) \/ NoVerdict(p) PROVE recorded'
  BY <1>1 DEF RecordLanded, RecordOutcome, NoVerdict
<1> QED
  BY NextFootprint, <1>1 DEF Footprint, ResultWriters

-----------------------------------------------------------------------------
\* A finished job stays finished, over every interleaving of runners, hooks, confirmers and restarts; only
\* the rollback of a reorganisation reopens a job that failed on chain.
THEOREM FinishedIsFinalAlways == Spec => FinishedIsFinal
<1> DEFINE Final == /\ job.status = "succeeded" => job'.status = "succeeded"
                    /\ job.status = "failed" /\ job'.status # "failed" =>
                          /\ rollbackDue /\ job.code = "CHAIN_EXECUTION_FAILED"
                          /\ job'.status = "reconciliation_required"
<1>1. TypeOK /\ Defined /\ [Next]_vars => [Final]_vars
  <2>1. ASSUME TypeOK, Next PROVE Final
    BY <2>1, NextJobMoves DEF JobMoves, FinishedMoves
  <2> QED
    BY <2>1
<1>2. TypeOK /\ Defined /\ [Next]_vars => TypeOK' /\ Defined'
  BY TypeNext, DefinedNext
<1> QED
  BY <1>1, <1>2, TypeInit, PTL DEF Spec, FinishedIsFinal

-----------------------------------------------------------------------------
(* What is on chain was sent, and a lookup that found nothing stays true.  *)

\* A transaction on chain is one the node has.
ChainInPool == \A t \in Txs : chain[t] # "none" => t \in pool

\* A job runner that read no hash has nothing to land, as long as the job is still its own.
SettleKnows ==
    \A p \in Procs : exec[p].pc = "settle" /\ exec[p].snap = NoTx /\ Mine(p, InFlight) => NothingLandable

\* A transaction that the indexer reported as lost can never be included.
LostIsTrue ==
    \A p \in Procs : conf[p].step = "write" /\ conf[p].res = "lost" =>
       chain[conf[p].tx] = "none" /\ ttl[conf[p].tx] = "buried"

\* What a lookup knows of the job it was started for. A parked job keeps its hash until a rollback
\* advances the reorg generation; a succeeded job keeps it for good; a job runner waits for its own.
ConfKnows ==
    \A p \in Procs : conf[p].gen <= gen /\
       (conf[p].step # "idle" =>
          /\ conf[p].tx \in Txs
          /\ conf[p].from = "recon" =>
                /\ job.status \notin {"pending"} \cup InFlight
                /\ gen = conf[p].gen /\ job.status = "reconciliation_required" => job.tx = conf[p].tx
          /\ conf[p].from = "succeeded" => job.status = "succeeded" /\ job.tx = conf[p].tx
          /\ conf[p].from = "flight" => exec[p].pc = "chainFailure" /\ conf[p].tx = exec[p].snap)

\* The parts of the invariant that make NothingSentIsTrue inductive.
SentInv == ChainInPool /\ SettleKnows /\ LostIsTrue /\ ConfKnows /\ NothingSentIsTrue

-----------------------------------------------------------------------------
(* The deploy reservation of a sponsored job.                               *)

\* The job failed and its owner was told that nothing was sent.
ToldNothingSent == job.status = "failed" /\ job.code \in NothingSentCodes

\* The reservation follows the hash on the job row; a job told that nothing was sent may have kept its hash
\* or its reservation, never two of them.
ChargeFollowsHash ==
    IF channel = "bound" THEN charged = 0
    ELSE charged \in {0, 1} /\ (~ToldNothingSent => charged = IF job.tx = NoTx THEN 0 ELSE 1)

\* What an execution knows of the reservation: it holds one exactly while its ledger names a hash, and it
\* builds again only after the hash and the reservation are off the job.
ReservationKnows ==
    \A p \in Procs :
       /\ channel = "bound" => exec[p].resv = 0
       /\ channel = "sponsor" /\ exec[p].led # NoTx => exec[p].resv = 1
       /\ exec[p].pc \in {"run", "intent"} => exec[p].resv = 0
       /\ exec[p].pc \in {"run", "intent"} /\ exec[p].crossed /\ Mine(p, InFlight) => job.tx = NoTx

\* A late hook charges what its announcement would have charged, and no two of them can charge the job.
LateCharges ==
    /\ \A h \in late :
          /\ h.need = IF channel = "sponsor" THEN 1 ELSE 0
          /\ ~h.first /\ Mine(h.proc, PastBoundary) => job.tx = NoTx
    /\ \A g, h \in late : g.proc = h.proc /\ ~g.first /\ ~h.first => g = h

\* The parts of the invariant that make ChargedOnce inductive.
ChargeInv == ChargeFollowsHash /\ ReservationKnows /\ LateCharges

-----------------------------------------------------------------------------
(* The outcome recorded on the job.                                          *)

\* The worker answers for a transaction that it was cleared to send, after the boundary.
AnswerKnows ==
    \A p \in Procs : exec[p].pc = "sending" \/ ToldNotApplied(p) => exec[p].cur \in Txs /\ exec[p].crossed

\* A runner that looks its transaction up again holds the job's hash while it holds the job.
SnapIsHash ==
    \A p \in Procs : ToldNotApplied(p) /\ exec[p].pc \in {"settle", "chainFailure"} /\ Mine(p, InFlight) =>
       job.tx = exec[p].snap

\* Only a finished job carries an outcome, always with the evidence that a rollback looks for.
OutcomeHasEvidence ==
    job.chain \in Outcomes => job.evid /\ job.status \in {"succeeded", "failed"} /\ job.tx \in Txs

\* A lookup's outcome is the chain's, unless a reorg came after it: then the rollback is due, or it
\* advanced the generation.
LookupIsCurrent ==
    \A p \in Procs :
       conf[p].step = "write" /\ conf[p].res \in Outcomes /\ gen = conf[p].gen /\ ~rollbackDue =>
          chain[conf[p].tx] = conf[p].res

\* The parts of the invariant that make OutcomeIsCurrent inductive.
OutcomeInv == AnswerKnows /\ SnapIsHash /\ OutcomeHasEvidence /\ LookupIsCurrent /\ OutcomeIsCurrent

-----------------------------------------------------------------------------
(* The recorded result.                                                      *)

\* An executor that returned has recorded its result.
ReturnedIsRecorded == \A p \in Procs : exec[p].pc \in {"returned", "persist"} => recorded

\* Without reorganisations the second lookup finds the failure that the worker saw.
FailureStays ==
    reorgs = 0 =>
       \A p \in Procs :
          /\ ToldNotApplied(p) => chain[exec[p].cur] = "failure"
          /\ ToldNotApplied(p) /\ exec[p].pc \in {"settle", "chainFailure"} => exec[p].snap = exec[p].cur
          /\ conf[p].step = "write" /\ conf[p].res \in Outcomes => chain[conf[p].tx] = conf[p].res

\* The parts of the invariant that make SucceededIsRecorded inductive.
RecordInv == ReturnedIsRecorded /\ FailureStays /\ SucceededIsRecorded

-----------------------------------------------------------------------------
(* Nothing that a failed job's owner was told not to be sent is sent.        *)

\* The invariant holds initially.
LEMMA SentInit == Init => SentInv
<1> SUFFICES ASSUME Init PROVE SentInv
  OBVIOUS
<1>1. /\ \A t \in Txs : chain[t] = "none" /\ job.status = "pending" /\ gen = 0
      /\ \A p \in Procs : exec[p].pc = "idle" /\ conf[p].step = "idle" /\ conf[p].gen = 0
  BY DEF Init, IdleExec, IdleConf
<1> QED
  BY <1>1 DEF Init, SentInv, ChainInPool, SettleKnows, LostIsTrue, ConfKnows, NothingSentIsTrue

\* What is on chain stays in the node's hands.
LEMMA ChainInPoolNext == ASSUME IInv, SentInv, Next PROVE ChainInPool'
<1>1. ASSUME NEW t \in Txs, chain'[t] # "none" PROVE t \in pool
  BY <1>1, NextNetMoves DEF NetMoves, SentInv, ChainInPool, IInv
<1> QED
  BY <1>1, NextNetMoves DEF NetMoves, ChainInPool, IInv

\* A job runner that read no hash is right about it until it writes.
LEMMA SettleKnowsNext == ASSUME DistinctWorkerIds, IInv, SentInv, Next PROVE SettleKnows'
<1> SUFFICES ASSUME NEW p \in Procs, exec'[p].pc = "settle", exec'[p].snap = NoTx, Mine(p, InFlight)'
             PROVE  NothingLandable'
  BY DEF SettleKnows
<1>0. NoTx \notin Txs
  BY ConstantsAssumption
<1>1. Mine(p, InFlight) \/ job.status = "pending"
  BY NextJobMoves DEF JobMoves, OwnerMoves, IInv
<1>2. NothingLandable /\ exec[p].pc \in {"failed", "settle"}
  <2>1. CASE ReadFailedJob(p)
    <3>1. job.tx = NoTx /\ exec[p].pc = "failed"
      BY <2>1 DEF ReadFailedJob, IInv, TypeOK, Execs
    <3> QED
      BY <1>0, <3>1 DEF IInv, OnlyJobHashCanLand, NothingLandable
  <2>2. CASE exec[p].pc = "settle" /\ exec[p].snap = NoTx /\ Mine(p, InFlight)
    BY <2>2 DEF SentInv, SettleKnows
  <2>3. CASE exec[p].pc = "settle" /\ job.status = "pending"
    BY <1>0, <2>3 DEF IInv, NoHashBeforeBoundary, OnlyJobHashCanLand, NothingLandable
  <2>4. ExecMoves(p)
    BY NextExecMoves
  <2> QED
    BY <1>1, <2>1, <2>2, <2>3, <2>4 DEF ExecMoves
<1>3. ASSUME NEW q \in Procs, SubmitIntentStored(q) PROVE FALSE
  <2>1. Mine(q, InFlight) /\ exec[q].pc = "intent" /\ job.status # "pending"
    BY <1>3 DEF SubmitIntentStored, Announceable, Mine, InFlight, PastBoundary
  <2> QED
    BY <1>1, <1>2, <2>1 DEF Mine, DistinctWorkerIds
<1> QED
  BY <1>2, <1>3, LandableMoves DEF NothingLandable

\* A transaction that was reported as lost stays lost.
LEMMA LostIsTrueNext == ASSUME IInv, SentInv, Next PROVE LostIsTrue'
<1> SUFFICES ASSUME NEW p \in Procs, conf'[p].step = "write", conf'[p].res = "lost"
             PROVE  chain'[conf'[p].tx] = "none" /\ ttl'[conf'[p].tx] = "buried"
  BY DEF LostIsTrue
<1>t. TypeOK /\ conf \in [Procs -> Confs] /\ (conf[p].step # "idle" => conf[p].tx \in Txs)
  BY DEF IInv, TypeOK, SentInv, ConfKnows
<1>1. CASE Lookup(p)
  <2>1. /\ conf'[p].tx = conf[p].tx /\ conf[p].step = "lookup" /\ UNCHANGED <<chain, ttl>>
        /\ conf'[p].res = IF chain[conf[p].tx] # "none" THEN chain[conf[p].tx]
                          ELSE IF ttl[conf[p].tx] = "buried" THEN "lost" ELSE "unknown"
    BY <1>1, <1>t DEF Lookup, Confs, netVars
  <2> QED
    BY <1>t, <2>1 DEF TypeOK, Outcomes
<1>2. CASE conf'[p] = conf[p]
  BY <1>2, <1>t, NextNetMoves DEF NetMoves, SentInv, LostIsTrue
<1>3. conf'[p] # IdleConf /\ ~SettleNotApplied(p) /\ ~ConfirmRead(p) /\ ~LookupFails(p)
  <2>1. conf'[p] # IdleConf
    BY DEF IdleConf
  <2>2. ~LookupFails(p)
    BY <1>t DEF LookupFails, Confs
  <2>3. ~SettleNotApplied(p)
    BY <1>t DEF SettleNotApplied, IdleConf
  <2>4. ~ConfirmRead(p)
    BY <1>t DEF ConfirmRead
  <2> QED
    BY <2>1, <2>2, <2>3, <2>4
<1> QED
  BY <1>1, <1>2, <1>3, <1>t, NextConfMoves DEF ConfMoves

\* What a lookup knows of its job stays true.
LEMMA ConfKnowsNext == ASSUME IInv, SentInv, Next PROVE ConfKnows'
<1> SUFFICES ASSUME NEW p \in Procs
             PROVE  /\ conf'[p].gen <= gen'
                    /\ conf'[p].step # "idle" =>
                       /\ conf'[p].tx \in Txs
                       /\ conf'[p].from = "recon" =>
                             /\ job'.status \notin {"pending"} \cup InFlight
                             /\ gen' = conf'[p].gen /\ job'.status = "reconciliation_required" =>
                                   job'.tx = conf'[p].tx
                       /\ conf'[p].from = "succeeded" => job'.status = "succeeded" /\ job'.tx = conf'[p].tx
                       /\ conf'[p].from = "flight" => exec'[p].pc = "chainFailure" /\ conf'[p].tx = exec'[p].snap
  BY DEF ConfKnows
<1>t. /\ TypeOK /\ conf \in [Procs -> Confs] /\ gen \in Nat /\ job \in JobRows /\ exec \in [Procs -> Execs]
      /\ conf[p].gen \in Nat /\ job.status \in Statuses
  BY DEF IInv, TypeOK, Confs, JobRows
<1>g. gen' \in {gen, gen + 1} /\ (gen' = gen \/ Rollback)
  BY <1>t, NextNetMoves DEF NetMoves
<1>k. /\ conf[p].gen <= gen
      /\ conf[p].step # "idle" =>
            /\ conf[p].tx \in Txs
            /\ conf[p].from = "recon" =>
                  /\ job.status \notin {"pending"} \cup InFlight
                  /\ gen = conf[p].gen /\ job.status = "reconciliation_required" => job.tx = conf[p].tx
            /\ conf[p].from = "succeeded" => job.status = "succeeded" /\ job.tx = conf[p].tx
            /\ conf[p].from = "flight" => exec[p].pc = "chainFailure" /\ conf[p].tx = exec[p].snap
  BY DEF SentInv, ConfKnows
<1>1. CASE conf'[p] = IdleConf
  BY <1>1, <1>t, <1>g DEF IdleConf
<1>2. CASE conf'[p] = conf[p] /\ conf[p].step = "idle"
  BY <1>2, <1>t, <1>g, <1>k
<1>3. CASE conf'[p] = conf[p] /\ conf[p].step # "idle" /\ conf'[p] # IdleConf
  <2>1. FinishedMoves /\ ParkedMoves
    BY <1>t, NextJobMoves DEF JobMoves
  <2>2. Rollback => gen' = gen + 1
    BY DEF Rollback
  <2>3. conf[p].from = "recon" => job.status \in {"succeeded", "failed", "reconciliation_required"}
    BY <1>3, <1>k, <1>t DEF Statuses
  <2>4. conf[p].from = "recon" =>
           /\ job'.status \notin {"pending"} \cup InFlight
           /\ gen' = conf[p].gen /\ job'.status = "reconciliation_required" => job'.tx = conf[p].tx
    BY <1>3, <1>g, <1>k, <1>t, <2>1, <2>2, <2>3 DEF FinishedMoves, ParkedMoves, InFlight
  <2>5. conf[p].from = "succeeded" => job'.status = "succeeded" /\ job'.tx = conf[p].tx
    BY <1>3, <1>k, <2>1 DEF FinishedMoves
  <2>6. conf[p].from = "flight" => exec'[p].pc = "chainFailure" /\ conf[p].tx = exec'[p].snap
    BY <1>3, <1>k, NextExecMoves DEF ExecMoves
  <2> QED
    BY <1>3, <1>t, <1>g, <1>k, <2>4, <2>5, <2>6
<1>4. CASE SettleNotApplied(p)
  <2>1. /\ conf'[p].from = "flight" /\ conf'[p].tx = exec[p].snap /\ conf'[p].gen = gen /\ gen' = gen
        /\ exec'[p].pc = "chainFailure" /\ exec'[p].snap = exec[p].snap /\ exec[p].snap \in Txs
    BY <1>4, <1>t DEF SettleNotApplied, IdleConf, Execs, dbVars
  <2> QED
    BY <1>t, <2>1
<1>5. CASE ConfirmRead(p)
  <2>1. /\ conf'[p].tx = job.tx /\ job.tx \in Txs /\ conf'[p].gen = gen /\ gen' = gen /\ job' = job
        /\ \/ conf'[p].from = "recon" /\ job.status = "reconciliation_required"
           \/ conf'[p].from = "succeeded" /\ job.status = "succeeded"
    BY <1>5, <1>t DEF ConfirmRead, JobRows, dbVars
  <2> QED
    BY <1>t, <2>1 DEF InFlight
<1>6. CASE Lookup(p) \/ LookupFails(p)
  <2>1. /\ conf'[p].tx = conf[p].tx /\ conf'[p].gen = conf[p].gen /\ conf'[p].from = conf[p].from
        /\ conf[p].step = "lookup" /\ UNCHANGED <<gen, job, exec>>
    BY <1>6, <1>t DEF Lookup, LookupFails, Confs, dbVars, execVars
  <2> QED
    BY <1>k, <2>1
<1> QED
  BY <1>1, <1>2, <1>3, <1>4, <1>5, <1>6, <1>t, NextConfMoves DEF ConfMoves

\* A job that says nothing was sent tells the truth, and goes on doing so.
LEMMA NothingSentNext == ASSUME DistinctWorkerIds, IInv, SentInv, ChainInPool', Next PROVE NothingSentIsTrue'
<1> SUFFICES ASSUME job'.status = "failed", job'.code \in NothingSentCodes, NEW t \in Txs
             PROVE  chain'[t] = "none" /\ (Landable(t)' => ttl'[t] = "buried")
  BY DEF NothingSentIsTrue
<1>0. NoTx \notin Txs
  BY ConstantsAssumption
<1>t. TypeOK /\ job \in JobRows /\ conf \in [Procs -> Confs]
  BY DEF IInv, TypeOK
<1>n. ASSUME NothingLandable, UNCHANGED <<pool, cleared>>
      PROVE  chain'[t] = "none" /\ (Landable(t)' => ttl'[t] = "buried")
  BY <1>n DEF ChainInPool, NothingLandable, Landable
<1>1. CASE job.status = "failed" /\ job.code \in NothingSentCodes
  <2>1. chain[t] = "none" /\ (Landable(t) => ttl[t] = "buried")
    BY <1>1 DEF SentInv, NothingSentIsTrue
  <2>2. ASSUME NEW p \in Procs PROVE ~SubmitIntentStored(p)
    BY <1>1 DEF SubmitIntentStored, Announceable, Mine, PastBoundary
  <2> QED
    BY <1>t, <2>1, <2>2, LandableMoves, NextNetMoves DEF NetMoves, Landable
<1>2. ASSUME NEW p \in Procs, SettleWithoutHash(p) PROVE chain'[t] = "none" /\ (Landable(t)' => ttl'[t] = "buried")
  <2>1. UNCHANGED <<pool, cleared>> /\ exec[p].pc = "settle" /\ exec[p].snap = NoTx
    BY <1>2 DEF SettleWithoutHash, netVars
  <2>2. job' = job \/ Mine(p, InFlight)
    BY <1>2 DEF SettleWithoutHash, MarkUnlessLost
  <2>3. CASE job' = job
    BY <1>1, <2>3
  <2> QED
    BY <1>n, <2>1, <2>2, <2>3 DEF SentInv, SettleKnows
<1>3. ASSUME NEW p \in Procs, ReclaimExpiredLease(p) \/ CloseSessions(p)
      PROVE  chain'[t] = "none" /\ (Landable(t)' => ttl'[t] = "buried")
  <2>1. UNCHANGED <<pool, cleared>> /\ (job' = job \/ job.status \in {"pending", "running"})
    BY <1>3 DEF ReclaimExpiredLease, CloseSessions, Recover, netVars, execVars
  <2>2. CASE job' = job
    BY <1>1, <2>2
  <2> QED
    BY <1>0, <1>n, <2>1, <2>2 DEF IInv, NoHashBeforeBoundary, OnlyJobHashCanLand, NothingLandable
<1>4. ASSUME NEW p \in Procs, SettleRejectedAttempt(p)
      PROVE  chain'[t] = "none" /\ (Landable(t)' => ttl'[t] = "buried")
  <2>1. UNCHANGED <<pool, cleared>> /\ NothingLandable
    BY <1>4 DEF SettleRejectedAttempt, IInv, ParkedRejection, netVars, execVars
  <2> QED
    BY <1>n, <2>1
<1>5. ASSUME NEW p \in Procs, FailHashless(p) PROVE chain'[t] = "none" /\ (Landable(t)' => ttl'[t] = "buried")
  <2>1. UNCHANGED <<pool, cleared>> /\ (job' = job \/ job.tx = NoTx)
    BY <1>5 DEF FailHashless, Recover, netVars, execVars
  <2>2. CASE job' = job
    BY <1>1, <2>2
  <2> QED
    BY <1>0, <1>n, <2>1, <2>2 DEF IInv, OnlyJobHashCanLand, NothingLandable
<1>6. ASSUME NEW p \in Procs, FinalizeLostBroadcast(p)
      PROVE  chain'[t] = "none" /\ (Landable(t)' => ttl'[t] = "buried")
  <2>1. /\ UNCHANGED <<pool, cleared, chain, ttl>> /\ conf[p].step = "write" /\ conf[p].res = "lost"
        /\ conf[p].from = "recon" /\ gen = conf[p].gen /\ job.status = "reconciliation_required"
    BY <1>6 DEF FinalizeLostBroadcast, StillOpen, netVars
  <2>2. job.tx = conf[p].tx /\ chain[job.tx] = "none" /\ ttl[job.tx] = "buried"
    BY <2>1 DEF SentInv, ConfKnows, LostIsTrue
  <2>3. Landable(t)' => t = job.tx
    BY <2>1 DEF Landable, IInv, OnlyJobHashCanLand
  <2>4. t \in pool' => t = job.tx
    BY <2>3 DEF Landable
  <2> QED
    BY <2>1, <2>2, <2>3, <2>4 DEF ChainInPool
<1> QED
  BY <1>1, <1>2, <1>3, <1>4, <1>5, <1>6, <1>t, NextJobMoves DEF JobMoves, NothingSentMoves

\* Every step preserves the invariant.
LEMMA SentNext == ASSUME DistinctWorkerIds PROVE IInv /\ SentInv /\ [Next]_vars => SentInv'
<1> SUFFICES ASSUME IInv, SentInv, [Next]_vars PROVE SentInv'
  OBVIOUS
<1>1. CASE Next
  BY <1>1, ChainInPoolNext, SettleKnowsNext, LostIsTrueNext, ConfKnowsNext, NothingSentNext DEF SentInv
<1>2. CASE UNCHANGED vars
  BY <1>2 DEF vars, dbVars, execVars, netVars, SentInv, ChainInPool, SettleKnows, LostIsTrue, ConfKnows,
              NothingSentIsTrue, NothingLandable, Landable, Mine
<1> QED
  BY <1>1, <1>2

-----------------------------------------------------------------------------
(* The outcome on the job is the chain's.                                    *)

\* The invariant holds initially.
LEMMA OutcomeInit == Init => OutcomeInv
<1> SUFFICES ASSUME Init PROVE OutcomeInv
  OBVIOUS
<1>1. /\ job.chain = "null"
      /\ \A p \in Procs : exec[p].pc = "idle" /\ conf[p].step = "idle"
  BY DEF Init, IdleExec, IdleConf
<1> QED
  BY <1>1 DEF OutcomeInv, AnswerKnows, SnapIsHash, OutcomeHasEvidence, LookupIsCurrent, OutcomeIsCurrent,
              ToldNotApplied, Outcomes

\* The worker answers for a transaction it was cleared to send.
LEMMA AnswerKnowsNext == ASSUME IInv, OutcomeInv, Next PROVE AnswerKnows'
<1> SUFFICES ASSUME NEW p \in Procs, exec'[p].pc = "sending" \/ ToldNotApplied(p)'
             PROVE  exec'[p].cur \in Txs /\ exec'[p].crossed
  BY DEF AnswerKnows
<1>t. exec \in [Procs -> Execs]
  BY DEF IInv, TypeOK
<1>k. exec[p].pc = "sending" \/ ToldNotApplied(p) => exec[p].cur \in Txs /\ exec[p].crossed
  BY DEF OutcomeInv, AnswerKnows
<1>1. CASE SubmitIntentStored(p)
  <2>1. exec'[p].cur = exec[p].cur /\ exec[p].cur \in Txs /\ exec'[p].crossed
    BY <1>1, <1>t DEF SubmitIntentStored, IInv, Defined, Execs
  <2> QED
    BY <2>1
<1>2. CASE WorkerLanded(p)
  <2>1. exec'[p].cur = exec[p].cur /\ exec[p].pc = "sending" /\ exec'[p].crossed = exec[p].crossed
    BY <1>2, <1>t DEF WorkerLanded, Answered, Execs
  <2> QED
    BY <1>k, <2>1
<1>3. CASE ReadFailedJob(p)
  <2>1. /\ exec'[p].cur = exec[p].cur /\ exec'[p].crossed = exec[p].crossed /\ exec'[p].err = exec[p].err
        /\ exec[p].pc = "failed" /\ exec'[p].pc = "settle"
    BY <1>3, <1>t DEF ReadFailedJob, Execs
  <2> QED
    BY <1>k, <2>1 DEF ToldNotApplied
<1>4. ExecMoves(p)
  BY NextExecMoves
<1> QED
  BY <1>k, <1>1, <1>2, <1>3, <1>4 DEF ExecMoves

\* No late hook of p can move the hash of a job whose runner was told that its transaction did not apply.
LEMMA NoHookAfterAnswer ==
    ASSUME DistinctWorkerIds, IInv, OutcomeInv, NEW p \in Procs, ToldNotApplied(p), Mine(p, InFlight),
           NEW h \in late, LateHookStored(h)
    PROVE  FALSE
<1>1. h.proc \in Procs /\ h.first \in BOOLEAN /\ exec[p].crossed
  BY DEF IInv, TypeOK, LateHooks, OutcomeInv, AnswerKnows
<1>2. Mine(h.proc, IF h.first THEN {"running"} ELSE PastBoundary)
  BY DEF LateHookStored, Announceable
<1>3. h.proc = p
  BY <1>1, <1>2 DEF Mine, DistinctWorkerIds
<1>4. h.first = FALSE
  BY <1>1, <1>2 DEF Mine, IInv, CrossedIsPast
<1>5. exec[p].pc = "idle" \/ Ending(p)
  BY <1>3, <1>4 DEF IInv, HooksHarmless
<1> QED
  BY <1>5 DEF Ending, ToldNotApplied

\* A runner that looks its transaction up again holds the job's hash.
LEMMA SnapIsHashNext == ASSUME DistinctWorkerIds, IInv, OutcomeInv, Next PROVE SnapIsHash'
<1> SUFFICES ASSUME NEW p \in Procs, ToldNotApplied(p)', exec'[p].pc \in {"settle", "chainFailure"},
                    Mine(p, InFlight)'
             PROVE  job'.tx = exec'[p].snap
  BY DEF SnapIsHash
<1>t. TypeOK /\ exec \in [Procs -> Execs] /\ job \in JobRows
  BY DEF IInv, TypeOK
<1>1. CASE ReadFailedJob(p)
  BY <1>1, <1>t DEF ReadFailedJob, Execs, dbVars
<1>2. CASE WorkerLanded(p)
  <2>1. exec'[p].pc \in {"landed", "error"}
    BY <1>2, <1>t DEF WorkerLanded, Answered, Execs
  <2> QED
    BY <2>1
<1>3. CASE ToldNotApplied(p) /\ exec[p].pc \in {"settle", "chainFailure"} /\ exec'[p].snap = exec[p].snap
  <2>0. exec[p].crossed /\ job.status \notin {"pending", "running"}
    BY <1>3 DEF OutcomeInv, AnswerKnows, IInv, CrossedIsPast
  <2>1. Mine(p, InFlight)
    BY <1>t, <2>0, NextJobMoves DEF JobMoves, OwnerMoves
  <2>2. job.tx = exec[p].snap
    BY <1>3, <2>1 DEF OutcomeInv, SnapIsHash
  <2>3. ASSUME NEW q \in Procs, SubmitIntentStored(q) PROVE FALSE
    <3>1. Mine(q, InFlight) /\ exec[q].pc = "intent"
      BY <2>3 DEF SubmitIntentStored, Announceable, Mine, InFlight, PastBoundary
    <3> QED
      BY <1>3, <2>1, <3>1 DEF Mine, DistinctWorkerIds
  <2>4. ASSUME NEW q \in Procs, RejectionBooked(q) PROVE FALSE
    <3>1. job.owner = WorkerId[q] /\ exec[q].pc = "error"
      BY <2>4 DEF RejectionBooked, Mine
    <3> QED
      BY <1>3, <2>1, <3>1 DEF Mine, DistinctWorkerIds
  <2>5. ASSUME NEW q \in Procs, RecordLanded(q) PROVE job'.tx = job.tx
    <3>1. exec[q].pc = "landed" /\ (job' = job \/ job.owner = WorkerId[q])
      BY <2>5 DEF RecordLanded, Mine
    <3> QED
      BY <1>3, <2>1, <3>1 DEF Mine, DistinctWorkerIds
  <2>6. ASSUME NEW q \in Procs, SettleRejectedAttempt(q) \/ FinalizeLostBroadcast(q) PROVE FALSE
    <3>1. job'.status = "failed"
      BY <1>t, <2>6 DEF SettleRejectedAttempt, FinalizeLostBroadcast, JobRows
    <3> QED
      BY <3>1 DEF Mine, InFlight
  <2>7. ASSUME NEW h \in late, LateHookStored(h) PROVE FALSE
    BY <1>3, <2>1, <2>7, NoHookAfterAnswer
  <2>8. job'.tx = job.tx
    BY <1>t, <2>3, <2>4, <2>5, <2>6, <2>7, NextJobMoves DEF JobMoves, HashMoves
  <2> QED
    BY <1>3, <2>2, <2>8
<1>4. ExecMoves(p)
  BY NextExecMoves
<1> QED
  BY <1>1, <1>2, <1>3, <1>4 DEF ExecMoves

\* The transaction whose outcome a confirmer records is the job's.
LEMMA RecordedHash ==
    ASSUME IInv, SentInv, OutcomeInv, NEW p \in Procs, RecordOutcome(p)
    PROVE  /\ conf[p].tx = job.tx /\ conf[p].tx \in Txs
           /\ job'.tx = job.tx /\ job'.chain = conf[p].res /\ job'.evid
           /\ job'.status \in {"succeeded", "failed"}
<1>t. job \in JobRows /\ conf[p].from \in {"recon", "flight", "succeeded"} /\ conf[p].res \in Outcomes
  BY DEF IInv, TypeOK, Confs, RecordOutcome
<1>1. conf[p].step = "write" /\ gen = conf[p].gen /\ StillOpen(p)
  BY DEF RecordOutcome
<1>2. conf[p].tx \in Txs
  BY <1>1 DEF SentInv, ConfKnows
<1>3. CASE conf[p].from = "recon"
  <2>1. conf[p].tx = job.tx
    BY <1>1, <1>3 DEF SentInv, ConfKnows, StillOpen
  <2>2. /\ job'.tx = job.tx /\ job'.chain = conf[p].res /\ job'.evid /\ job'.status \in {"succeeded", "failed"}
    BY <1>t, <1>3 DEF RecordOutcome, Released, JobRows
  <2> QED
    BY <1>2, <2>1, <2>2
<1>4. CASE conf[p].from = "flight"
  <2>1. exec[p].pc = "chainFailure" /\ conf[p].tx = exec[p].snap /\ Mine(p, InFlight)
    BY <1>1, <1>4 DEF SentInv, ConfKnows, StillOpen
  <2>2. conf[p].tx = job.tx
    BY <2>1 DEF OutcomeInv, SnapIsHash, ToldNotApplied
  <2>3. /\ job'.tx = job.tx /\ job'.chain = conf[p].res /\ job'.evid /\ job'.status \in {"succeeded", "failed"}
    BY <1>t, <1>4 DEF RecordOutcome, Released, JobRows
  <2> QED
    BY <1>2, <2>2, <2>3
<1>5. CASE conf[p].from = "succeeded"
  <2>1. conf[p].tx = job.tx /\ job.status = "succeeded"
    BY <1>1, <1>5 DEF SentInv, ConfKnows
  <2>2. /\ job'.tx = job.tx /\ job'.chain = conf[p].res /\ job'.evid /\ job'.status = job.status
    BY <1>t, <1>5 DEF RecordOutcome, JobRows
  <2> QED
    BY <1>2, <2>1, <2>2
<1> QED
  BY <1>t, <1>3, <1>4, <1>5

\* A rollback leaves no outcome on the job.
LEMMA RollbackClears == ASSUME IInv, OutcomeInv, Rollback PROVE job'.chain \notin Outcomes
<1>1. job \in JobRows /\ (job.chain \in Outcomes => job.evid)
  BY DEF IInv, TypeOK, OutcomeInv, OutcomeHasEvidence
<1> QED
  BY <1>1 DEF Rollback, JobReverted, JobRows, Outcomes

\* An outcome that stays on the job keeps its transaction and its status.
LEMMA OutcomeStays ==
    ASSUME IInv, OutcomeInv, Next, job'.chain \in Outcomes, \A p \in Procs : ~RecordOutcome(p)
    PROVE  /\ job.chain \in Outcomes /\ job'.chain = job.chain /\ job'.tx = job.tx /\ ~Rollback
           /\ job'.evid /\ job'.status \in {"succeeded", "failed"} /\ job.tx \in Txs
<1>1. FinishedMoves /\ OutcomeMoves
  BY NextJobMoves DEF JobMoves, IInv
<1>2. job'.chain = job.chain /\ job'.evid = job.evid /\ ~Rollback
  BY <1>1, RollbackClears DEF OutcomeMoves
<1> QED
  BY <1>1, <1>2 DEF OutcomeInv, OutcomeHasEvidence, FinishedMoves

\* An outcome comes with its evidence.
LEMMA EvidenceNext == ASSUME IInv, SentInv, OutcomeInv, Next PROVE OutcomeHasEvidence'
<1> SUFFICES ASSUME job'.chain \in Outcomes
             PROVE  job'.evid /\ job'.status \in {"succeeded", "failed"} /\ job'.tx \in Txs
  BY DEF OutcomeHasEvidence
<1>1. CASE \E p \in Procs : RecordOutcome(p)
  BY <1>1, RecordedHash
<1>2. CASE \A p \in Procs : ~RecordOutcome(p)
  BY <1>2, OutcomeStays
<1> QED
  BY <1>1, <1>2

\* A lookup's outcome is current, or its generation is not.
LEMMA LookupIsCurrentNext == ASSUME IInv, SentInv, OutcomeInv, Next PROVE LookupIsCurrent'
<1> SUFFICES ASSUME NEW p \in Procs, conf'[p].step = "write", conf'[p].res \in Outcomes, gen' = conf'[p].gen,
                    ~rollbackDue'
             PROVE  chain'[conf'[p].tx] = conf'[p].res
  BY DEF LookupIsCurrent
<1>t. /\ TypeOK /\ conf \in [Procs -> Confs] /\ (conf[p].step # "idle" => conf[p].tx \in Txs)
      /\ conf[p].gen <= gen /\ gen \in Nat /\ conf[p].gen \in Nat /\ NetMoves
  BY NextNetMoves DEF IInv, TypeOK, Confs, SentInv, ConfKnows
<1>1. CASE Lookup(p)
  <2>1. /\ conf'[p].tx = conf[p].tx /\ chain' = chain
        /\ conf'[p].res = IF chain[conf[p].tx] # "none" THEN chain[conf[p].tx]
                          ELSE IF ttl[conf[p].tx] = "buried" THEN "lost" ELSE "unknown"
    BY <1>1, <1>t DEF Lookup, Confs, netVars
  <2> QED
    BY <2>1 DEF Outcomes
<1>2. CASE conf'[p] = conf[p]
  <2>1. gen' = gen /\ ~Rollback
    <3>1. Rollback => gen' = gen + 1
      BY DEF Rollback
    <3> QED
      BY <1>2, <1>t, <3>1 DEF NetMoves
  <2>2. ~rollbackDue
    BY <1>t, <2>1 DEF NetMoves
  <2>3. chain[conf[p].tx] = conf[p].res /\ conf[p].tx \in Txs
    BY <1>2, <1>t, <2>1, <2>2 DEF OutcomeInv, LookupIsCurrent
  <2> QED
    BY <1>2, <1>t, <2>3 DEF NetMoves, Outcomes
<1>3. conf'[p] # IdleConf /\ ~SettleNotApplied(p) /\ ~ConfirmRead(p) /\ ~LookupFails(p)
  <2>1. conf'[p] # IdleConf
    BY DEF IdleConf
  <2>2. ~LookupFails(p)
    BY <1>t DEF LookupFails, Confs, Outcomes
  <2>3. ~SettleNotApplied(p)
    BY <1>t DEF SettleNotApplied, IdleConf
  <2>4. ~ConfirmRead(p)
    BY <1>t DEF ConfirmRead
  <2> QED
    BY <2>1, <2>2, <2>3, <2>4
<1> QED
  BY <1>1, <1>2, <1>3, <1>t, NextConfMoves DEF ConfMoves

\* The outcome on the job is the chain's, outside the window between a reorg and its rollback.
LEMMA OutcomeIsCurrentNext == ASSUME IInv, SentInv, OutcomeInv, Next PROVE OutcomeIsCurrent'
<1> SUFFICES ASSUME ~rollbackDue', job'.chain \in Outcomes PROVE chain'[job'.tx] = job'.chain
  BY DEF OutcomeIsCurrent
<1>t. TypeOK /\ NetMoves
  BY NextNetMoves DEF IInv
<1>1. ASSUME NEW p \in Procs, RecordOutcome(p) PROVE chain'[job'.tx] = job'.chain
  <2>1. /\ conf[p].step = "write" /\ conf[p].res \in Outcomes /\ gen = conf[p].gen
        /\ UNCHANGED <<chain, rollbackDue>>
    BY <1>1 DEF RecordOutcome, netVars
  <2>2. chain[conf[p].tx] = conf[p].res
    BY <2>1 DEF OutcomeInv, LookupIsCurrent
  <2> QED
    BY <1>1, <2>1, <2>2, RecordedHash
<1>2. CASE \A p \in Procs : ~RecordOutcome(p)
  <2>1. /\ job.chain \in Outcomes /\ job'.chain = job.chain /\ job'.tx = job.tx /\ ~Rollback /\ job.tx \in Txs
    BY <1>2, OutcomeStays
  <2>2. ~rollbackDue
    BY <1>t, <2>1 DEF NetMoves
  <2>3. chain[job.tx] = job.chain
    BY <2>1, <2>2 DEF OutcomeInv, OutcomeIsCurrent
  <2> QED
    BY <1>t, <2>1, <2>3 DEF NetMoves, Outcomes
<1> QED
  BY <1>1, <1>2

\* Every step preserves the invariant.
LEMMA OutcomeNext == ASSUME DistinctWorkerIds PROVE IInv /\ SentInv /\ OutcomeInv /\ [Next]_vars => OutcomeInv'
<1> SUFFICES ASSUME IInv, SentInv, OutcomeInv, [Next]_vars PROVE OutcomeInv'
  OBVIOUS
<1>1. CASE Next
  BY <1>1, AnswerKnowsNext, SnapIsHashNext, EvidenceNext, LookupIsCurrentNext, OutcomeIsCurrentNext DEF OutcomeInv
<1>2. CASE UNCHANGED vars
  BY <1>2 DEF vars, dbVars, execVars, netVars, OutcomeInv, AnswerKnows, SnapIsHash, OutcomeHasEvidence,
              LookupIsCurrent, OutcomeIsCurrent, ToldNotApplied, Mine
<1> QED
  BY <1>1, <1>2

-----------------------------------------------------------------------------
(* A succeeded job has its result recorded.                                  *)

\* The invariant holds initially.
LEMMA RecordInit == Init => RecordInv
<1> SUFFICES ASSUME Init PROVE RecordInv
  OBVIOUS
<1>1. /\ job.status = "pending"
      /\ \A p \in Procs : exec[p].pc = "idle" /\ conf[p].step = "idle"
  BY DEF Init, IdleExec, IdleConf
<1> QED
  BY <1>1 DEF RecordInv, ReturnedIsRecorded, FailureStays, SucceededIsRecorded, ToldNotApplied

\* An executor that returns has recorded its result.
LEMMA ReturnedNext == ASSUME IInv, RecordInv, Next PROVE ReturnedIsRecorded'
<1> SUFFICES ASSUME NEW p \in Procs, exec'[p].pc \in {"returned", "persist"} PROVE recorded'
  BY DEF ReturnedIsRecorded
<1>1. CASE RecordLanded(p)
  <2>1. exec'[p].pc \in {"failed", "error"} \/ recorded'
    <3>1. exec[p] \in Execs /\ exec \in [Procs -> Execs]
      BY DEF IInv, TypeOK
    <3>2. CASE exec' = [exec EXCEPT ![p] = [@ EXCEPT !.pc = "failed", !.err = "internal"]]
      BY <3>1, <3>2 DEF Execs
    <3>3. CASE exec' = [exec EXCEPT ![p] = [@ EXCEPT !.pc = "error", !.err = "internal"]]
      BY <3>1, <3>3 DEF Execs
    <3>4. CASE recorded' = TRUE
      BY <3>4
    <3> QED
      BY <1>1, <3>2, <3>3, <3>4 DEF RecordLanded, Answered
  <2> QED
    BY <2>1
<1>2. CASE exec[p].pc \in {"returned", "persist"}
  BY <1>2, RecordedStays DEF RecordInv, ReturnedIsRecorded
<1> QED
  BY <1>1, <1>2, NextExecMoves DEF ExecMoves

\* Without reorganisations a failure that the worker or the indexer saw stays on chain.
LEMMA FailureStaysNext == ASSUME IInv, SentInv, OutcomeInv, RecordInv, Next PROVE FailureStays'
<1> SUFFICES ASSUME reorgs' = 0, NEW p \in Procs
             PROVE  /\ ToldNotApplied(p)' =>
                          /\ chain'[exec'[p].cur] = "failure"
                          /\ exec'[p].pc \in {"settle", "chainFailure"} => exec'[p].snap = exec'[p].cur
                    /\ conf'[p].step = "write" /\ conf'[p].res \in Outcomes => chain'[conf'[p].tx] = conf'[p].res
  BY DEF FailureStays
<1>t. TypeOK /\ exec \in [Procs -> Execs] /\ conf \in [Procs -> Confs] /\ NetMoves /\ reorgs \in Nat
  BY NextNetMoves DEF IInv, TypeOK
<1>0. reorgs = 0
  BY <1>t DEF NetMoves
<1>c. \A t \in Txs : chain[t] # "none" => chain'[t] = chain[t]
  BY <1>t, <1>0 DEF NetMoves
<1>k. /\ ToldNotApplied(p) => chain[exec[p].cur] = "failure"
      /\ ToldNotApplied(p) /\ exec[p].pc \in {"settle", "chainFailure"} => exec[p].snap = exec[p].cur
      /\ conf[p].step = "write" /\ conf[p].res \in Outcomes => chain[conf[p].tx] = conf[p].res
      /\ exec[p].pc = "sending" \/ ToldNotApplied(p) => exec[p].cur \in Txs
      /\ conf[p].step # "idle" => conf[p].tx \in Txs
  BY <1>0 DEF RecordInv, FailureStays, OutcomeInv, AnswerKnows, SentInv, ConfKnows
<1>1. ASSUME ToldNotApplied(p)'
      PROVE  /\ chain'[exec'[p].cur] = "failure"
             /\ exec'[p].pc \in {"settle", "chainFailure"} => exec'[p].snap = exec'[p].cur
  <2>1. CASE ReadFailedJob(p)
    <3>1. /\ exec[p].pc = "failed" /\ exec'[p].cur = exec[p].cur /\ exec'[p].snap = job.tx
          /\ exec'[p].err = exec[p].err /\ exec'[p].pc = "settle" /\ chain' = chain
      BY <1>t, <2>1 DEF ReadFailedJob, Execs, netVars
    <3>2. chain[exec[p].cur] = "failure" /\ exec[p].cur \in Txs
      BY <1>1, <1>k, <3>1 DEF ToldNotApplied
    <3>3. job.tx = exec[p].cur
      BY <3>2 DEF SentInv, ChainInPool, IInv, OnlyJobHashCanLand, Landable
    <3> QED
      BY <3>1, <3>2, <3>3
  <2>2. CASE WorkerLanded(p)
    <3>1. /\ exec'[p].cur = exec[p].cur /\ chain' = chain
          /\ \/ exec'[p].pc = "landed"
             \/ exec'[p].pc = "error" /\ chain[exec[p].cur] = "failure"
      BY <1>t, <2>2 DEF WorkerLanded, Answered, Execs, netVars
    <3> QED
      BY <1>1, <3>1 DEF ToldNotApplied
  <2>3. CASE /\ ToldNotApplied(p) /\ exec'[p].cur = exec[p].cur
             /\ exec'[p].pc \in {"settle", "chainFailure"} =>
                   exec[p].pc \in {"settle", "chainFailure"} /\ exec'[p].snap = exec[p].snap
    BY <1>c, <1>k, <2>3
  <2> QED
    BY <1>1, <2>1, <2>2, <2>3, NextExecMoves DEF ExecMoves
<1>2. ASSUME conf'[p].step = "write", conf'[p].res \in Outcomes PROVE chain'[conf'[p].tx] = conf'[p].res
  <2>1. CASE Lookup(p)
    <3>1. /\ conf'[p].tx = conf[p].tx /\ chain' = chain
          /\ conf'[p].res = IF chain[conf[p].tx] # "none" THEN chain[conf[p].tx]
                            ELSE IF ttl[conf[p].tx] = "buried" THEN "lost" ELSE "unknown"
      BY <1>t, <2>1 DEF Lookup, Confs, netVars
    <3> QED
      BY <1>2, <3>1 DEF Outcomes
  <2>2. CASE conf'[p] = conf[p]
    BY <1>2, <1>c, <1>k, <2>2 DEF Outcomes
  <2>3. conf'[p] # IdleConf
    BY <1>2 DEF IdleConf
  <2>4. ~LookupFails(p)
    BY <1>2, <1>t DEF LookupFails, Confs, Outcomes
  <2>5. ~SettleNotApplied(p)
    BY <1>2, <1>t DEF SettleNotApplied, IdleConf
  <2>6. ~ConfirmRead(p)
    BY <1>2, <1>t DEF ConfirmRead
  <2> QED
    BY <1>t, <2>1, <2>2, <2>3, <2>4, <2>5, <2>6, NextConfMoves DEF ConfMoves
<1> QED
  BY <1>1, <1>2

\* Whoever lets a job succeed has its result recorded.
LEMMA SucceededNext == ASSUME IInv, SentInv, OutcomeInv, RecordInv, Next PROVE SucceededIsRecorded'
<1> SUFFICES ASSUME job'.status = "succeeded", reorgs' = 0 PROVE recorded'
  BY DEF SucceededIsRecorded
<1>t. TypeOK /\ NetMoves /\ reorgs \in Nat /\ conf \in [Procs -> Confs] /\ job \in JobRows
  BY NextNetMoves DEF IInv, TypeOK
<1>0. reorgs = 0
  BY <1>t DEF NetMoves
<1>1. CASE job.status = "succeeded"
  BY <1>0, <1>1, RecordedStays DEF RecordInv, SucceededIsRecorded
<1>2. ASSUME NEW p \in Procs, MarkSucceeded(p) PROVE recorded'
  BY <1>2, RecordedStays DEF MarkSucceeded, RecordInv, ReturnedIsRecorded
<1>3. ASSUME NEW p \in Procs, RecordOutcome(p) PROVE recorded'
  <2>1. /\ conf[p].step = "write" /\ conf[p].res \in Outcomes /\ StillOpen(p)
        /\ conf[p].from \in {"recon", "flight", "succeeded"}
    BY <1>3, <1>t DEF RecordOutcome, Confs
  <2>2. CASE conf[p].from = "succeeded"
    <3>1. job.status = "succeeded"
      BY <2>1, <2>2 DEF StillOpen
    <3> QED
      BY <1>1, <3>1
  <2>3. CASE conf[p].from \in {"recon", "flight"}
    <3>1. conf[p].res = "success"
      BY <1>3, <1>t, <2>1, <2>3 DEF RecordOutcome, Released, JobRows, Outcomes
    <3>2. conf[p].from # "flight"
      <4> SUFFICES ASSUME conf[p].from = "flight" PROVE FALSE
        OBVIOUS
      <4>1. exec[p].pc = "chainFailure" /\ conf[p].tx = exec[p].snap
        BY <2>1 DEF SentInv, ConfKnows
      <4>2. exec[p].snap = exec[p].cur /\ chain[exec[p].cur] = "failure" /\ chain[conf[p].tx] = "success"
        BY <1>0, <2>1, <3>1, <4>1 DEF RecordInv, FailureStays, ToldNotApplied
      <4> QED
        BY <4>1, <4>2
    <3> QED
      BY <1>3, <2>3, <3>1, <3>2 DEF RecordOutcome
  <2> QED
    BY <2>1, <2>2, <2>3
<1> QED
  BY <1>1, <1>2, <1>3, <1>t, NextJobMoves DEF JobMoves, SuccessMoves

\* Every step preserves the invariant.
LEMMA RecordNext == IInv /\ SentInv /\ OutcomeInv /\ RecordInv /\ [Next]_vars => RecordInv'
<1> SUFFICES ASSUME IInv, SentInv, OutcomeInv, RecordInv, [Next]_vars PROVE RecordInv'
  OBVIOUS
<1>1. CASE Next
  BY <1>1, ReturnedNext, FailureStaysNext, SucceededNext DEF RecordInv
<1>2. CASE UNCHANGED vars
  BY <1>2 DEF vars, dbVars, execVars, netVars, RecordInv, ReturnedIsRecorded, FailureStays, SucceededIsRecorded,
              ToldNotApplied
<1> QED
  BY <1>1, <1>2

-----------------------------------------------------------------------------
(* A sponsored job is charged once.                                          *)

\* The invariant holds initially.
LEMMA ChargeInit == Init => ChargeInv
<1> SUFFICES ASSUME Init PROVE ChargeInv
  OBVIOUS
<1>1. /\ job.status = "pending" /\ job.tx = NoTx /\ charged = 0 /\ late = {}
      /\ \A p \in Procs : exec[p].pc = "idle" /\ exec[p].led = NoTx /\ exec[p].resv = 0
  BY DEF Init, IdleExec
<1> QED
  BY <1>1 DEF ChargeInv, ChargeFollowsHash, ReservationKnows, LateCharges

\* A stored announcement finds a job without a hash.
LEMMA StoredFindsNoHash ==
    ASSUME DistinctWorkerIds, IInv, ChargeInv, NEW p \in Procs, SubmitIntentStored(p)
    PROVE  /\ job.tx = NoTx /\ job.status # "failed" /\ Mine(p, InFlight)
           /\ exec[p].cur \in Txs /\ job'.tx = exec[p].cur
           /\ charged' = charged + IF channel = "sponsor" THEN 1 ELSE 0
<1>t. job \in JobRows /\ charged \in Int /\ channel \in {"bound", "sponsor"} /\ exec[p].crossed \in BOOLEAN
  BY DEF IInv, TypeOK, Execs
<1>1. exec[p].pc = "intent" /\ exec[p].resv = 0
  BY DEF SubmitIntentStored, ChargeInv, ReservationKnows
<1>2. Mine(p, IF FirstBoundary(p) THEN {"running"} ELSE PastBoundary) /\ Mine(p, InFlight) /\ job.status # "failed"
  BY DEF SubmitIntentStored, Announceable, Mine, InFlight, PastBoundary
<1>3. ASSUME FirstBoundary(p) PROVE job.tx = NoTx
  BY <1>2, <1>3 DEF Mine, IInv, NoHashBeforeBoundary
<1>4. ASSUME ~FirstBoundary(p) PROVE job.tx = NoTx
  <2>1. exec[p].crossed
    BY <1>t, <1>1, <1>4 DEF FirstBoundary, IInv, CrossedIsPast
  <2> QED
    BY <1>1, <1>2, <2>1 DEF ChargeInv, ReservationKnows
<1>5. job.tx = NoTx
  BY <1>3, <1>4
<1>6. /\ exec[p].cur \in Txs /\ job'.tx = exec[p].cur
      /\ charged' = charged + IF channel = "sponsor" THEN 1 ELSE 0
  BY <1>t, <1>1 DEF SubmitIntentStored, IInv, Defined, BroadcastRecorded, Need, JobRows
<1> QED
  BY <1>2, <1>5, <1>6

\* So does a hook that outlives its call.
LEMMA LateFindsNoHash ==
    ASSUME IInv, ChargeInv, NEW h \in late, LateHookStored(h)
    PROVE  /\ h.proc \in Procs /\ h.tx \in Txs
           /\ job.tx = NoTx /\ job.status # "failed" /\ Mine(h.proc, InFlight) /\ job'.tx = h.tx
           /\ charged' = charged + IF channel = "sponsor" THEN 1 ELSE 0
<1>t. job \in JobRows /\ h.first \in BOOLEAN /\ h.proc \in Procs /\ h.tx \in Txs
  BY DEF IInv, TypeOK, LateHooks
<1>1. Mine(h.proc, IF h.first THEN {"running"} ELSE PastBoundary) /\ Mine(h.proc, InFlight) /\ job.status # "failed"
  BY DEF LateHookStored, Announceable, Mine, InFlight, PastBoundary
<1>2. ASSUME h.first PROVE job.tx = NoTx
  BY <1>1, <1>2 DEF Mine, IInv, NoHashBeforeBoundary
<1>3. ASSUME ~h.first PROVE job.tx = NoTx
  BY <1>1, <1>3 DEF ChargeInv, LateCharges
<1>4. job'.tx = h.tx /\ charged' = charged + IF channel = "sponsor" THEN 1 ELSE 0
  BY <1>t DEF LateHookStored, BroadcastRecorded, JobRows, ChargeInv, LateCharges
<1> QED
  BY <1>t, <1>1, <1>2, <1>3, <1>4

\* A booked rejection gives back what the announcement reserved.
LEMMA BookedRefunds ==
    ASSUME IInv, ChargeInv, NEW p \in Procs, RejectionBooked(p)
    PROVE  /\ job.tx # NoTx /\ job.status # "failed" /\ job'.tx = NoTx /\ job'.status # "failed"
           /\ charged' = charged - IF channel = "sponsor" THEN 1 ELSE 0
<1>t. job \in JobRows /\ channel \in {"bound", "sponsor"}
  BY DEF IInv, TypeOK
<1>1. /\ job.tx # NoTx /\ job.status # "failed" /\ job'.tx = NoTx /\ job'.status # "failed"
      /\ exec[p].led # NoTx /\ charged' = charged - exec[p].resv
  BY <1>t DEF RejectionBooked, Mine, PastBoundary, JobRows
<1>2. exec[p].resv = IF channel = "sponsor" THEN 1 ELSE 0
  BY <1>t, <1>1 DEF ChargeInv, ReservationKnows
<1> QED
  BY <1>1, <1>2

\* The charge follows the hash of the job.
LEMMA ChargeFollowsNext == ASSUME DistinctWorkerIds, IInv, SentInv, ChargeInv, Next PROVE ChargeFollowsHash'
<1>0. NoTx \notin Txs
  BY ConstantsAssumption
<1>t. TypeOK /\ job \in JobRows /\ charged \in Int /\ channel \in {"bound", "sponsor"} /\ channel' = channel
  BY NextFootprint DEF IInv, TypeOK, Footprint
<1>k. /\ channel = "bound" => charged = 0
      /\ channel = "sponsor" => charged \in {0, 1} /\ (~ToldNothingSent => charged = IF job.tx = NoTx THEN 0 ELSE 1)
  BY <1>t DEF ChargeInv, ChargeFollowsHash
<1>g. SUFFICES /\ channel = "bound" => charged' = 0
               /\ channel = "sponsor" => /\ charged' \in {0, 1}
                                         /\ ~ToldNothingSent' => charged' = IF job'.tx = NoTx THEN 0 ELSE 1
  BY <1>t DEF ChargeFollowsHash
<1> DEFINE Goal == /\ channel = "bound" => charged' = 0
                   /\ channel = "sponsor" => /\ charged' \in {0, 1}
                                             /\ ~ToldNothingSent' => charged' = IF job'.tx = NoTx THEN 0 ELSE 1
<1>m. FinishedMoves /\ HashMoves
  BY <1>t, NextJobMoves DEF JobMoves
<1>1. CASE job'.tx = job.tx /\ charged' = charged
  <2>1. ToldNothingSent => ToldNothingSent'
    BY <1>m DEF ToldNothingSent, FinishedMoves, NothingSentCodes
  <2> QED
    BY <1>1, <1>k, <2>1
<1>2. ASSUME NEW p \in Procs, SubmitIntentStored(p) PROVE Goal
  BY <1>0, <1>2, <1>k, StoredFindsNoHash DEF ToldNothingSent
<1>3. ASSUME NEW h \in late, LateHookStored(h) PROVE Goal
  BY <1>0, <1>3, <1>k, LateFindsNoHash DEF ToldNothingSent
<1>4. ASSUME NEW p \in Procs, RejectionBooked(p) PROVE Goal
  BY <1>4, <1>k, BookedRefunds DEF ToldNothingSent
<1>5. ASSUME NEW p \in Procs, RecordLanded(p) PROVE Goal
  <2>1. charged' = charged /\ (job' = job \/ channel = "bound")
    BY <1>5, <1>t DEF RecordLanded
  <2> QED
    BY <1>k, <1>t, <2>1 DEF ToldNothingSent
<1>6. ASSUME NEW p \in Procs, SettleRejectedAttempt(p) PROVE Goal
  <2>1. /\ job.status = "reconciliation_required" /\ job'.status = "failed" /\ job'.code = "SPONSOR_ATTEMPT_REJECTED"
        /\ \/ charged' = charged
           \/ job.tx # NoTx /\ charged' = IF channel = "sponsor" THEN charged - 1 ELSE charged
    BY <1>6, <1>t DEF SettleRejectedAttempt, JobRows
  <2> QED
    BY <1>k, <2>1 DEF ToldNothingSent, NothingSentCodes
<1>7. ASSUME NEW p \in Procs, FinalizeLostBroadcast(p) PROVE Goal
  <2>1. /\ job.status = "reconciliation_required" /\ job'.status = "failed" /\ job'.code = "BROADCAST_NOT_INCLUDED"
        /\ charged' \in {charged, IF channel = "sponsor" THEN charged - 1 ELSE charged}
        /\ conf[p].step = "write" /\ conf[p].from = "recon" /\ gen = conf[p].gen
    BY <1>7, <1>t DEF FinalizeLostBroadcast, StillOpen, JobRows
  <2>2. job.tx # NoTx
    BY <1>0, <2>1 DEF SentInv, ConfKnows
  <2> QED
    BY <1>k, <2>1, <2>2 DEF ToldNothingSent, NothingSentCodes
<1> QED
  BY <1>m, <1>1, <1>2, <1>3, <1>4, <1>5, <1>6, <1>7 DEF HashMoves

\* Who may still announce under p's lease finds no hash on the job.
LEMMA HashStaysOff ==
    ASSUME DistinctWorkerIds, IInv, ChargeInv, Next, NEW p \in Procs, job.tx = NoTx, Mine(p, InFlight),
           job'.tx # NoTx
    PROVE  \/ SubmitIntentStored(p) \/ RecordLanded(p)
           \/ \E h \in late : h.proc = p /\ LateHookStored(h)
<1>t. TypeOK /\ job \in JobRows
  BY DEF IInv, TypeOK
<1>1. ASSUME NEW q \in Procs, SubmitIntentStored(q) PROVE q = p
  BY <1>1, StoredFindsNoHash DEF Mine, DistinctWorkerIds
<1>2. ASSUME NEW q \in Procs, RecordLanded(q) PROVE q = p
  <2>1. job' = job \/ Mine(q, PastBoundary)
    BY <1>2 DEF RecordLanded
  <2> QED
    BY <2>1 DEF Mine, DistinctWorkerIds
<1>3. ASSUME NEW h \in late, LateHookStored(h) PROVE h.proc = p
  BY <1>3, LateFindsNoHash DEF Mine, DistinctWorkerIds
<1>4. ASSUME NEW q \in Procs, RejectionBooked(q) \/ SettleRejectedAttempt(q) \/ FinalizeLostBroadcast(q) PROVE FALSE
  BY <1>4, <1>t DEF RejectionBooked, SettleRejectedAttempt, FinalizeLostBroadcast, JobRows
<1> QED
  BY <1>t, <1>1, <1>2, <1>3, <1>4, NextJobMoves DEF JobMoves, HashMoves

\* What an execution knows of its reservation stays true.
LEMMA ReservationNext == ASSUME DistinctWorkerIds, IInv, ChargeInv, Next PROVE ReservationKnows'
<1> SUFFICES ASSUME NEW p \in Procs
             PROVE  /\ channel' = "bound" => exec'[p].resv = 0
                    /\ channel' = "sponsor" /\ exec'[p].led # NoTx => exec'[p].resv = 1
                    /\ exec'[p].pc \in {"run", "intent"} => exec'[p].resv = 0
                    /\ exec'[p].pc \in {"run", "intent"} /\ exec'[p].crossed /\ Mine(p, InFlight)' => job'.tx = NoTx
  BY DEF ReservationKnows
<1>t. /\ TypeOK /\ exec \in [Procs -> Execs] /\ job \in JobRows
      /\ channel \in {"bound", "sponsor"} /\ channel' = channel
      /\ ExecMoves(p) /\ FinishedMoves /\ OwnerMoves
  BY NextFootprint, NextExecMoves, NextJobMoves DEF IInv, TypeOK, Footprint, JobMoves
<1>k. /\ channel = "bound" => exec[p].resv = 0
      /\ channel = "sponsor" /\ exec[p].led # NoTx => exec[p].resv = 1
      /\ exec[p].pc \in {"run", "intent"} => exec[p].resv = 0
      /\ exec[p].pc \in {"run", "intent"} /\ exec[p].crossed /\ Mine(p, InFlight) => job.tx = NoTx
  BY DEF ChargeInv, ReservationKnows
<1>1. /\ channel' = "bound" => exec'[p].resv = 0
      /\ channel' = "sponsor" /\ exec'[p].led # NoTx => exec'[p].resv = 1
  BY <1>t, <1>k DEF ExecMoves
<1>2. ASSUME exec'[p].pc \in {"run", "intent"}
      PROVE  exec'[p].resv = 0 /\ (exec'[p].crossed /\ Mine(p, InFlight)' => job'.tx = NoTx)
  <2>1. CASE Claim(p)
    <3>1. exec'[p].resv = 0 /\ exec'[p].crossed = FALSE
      BY <1>t, <2>1 DEF Claim, IdleExec
    <3> QED
      BY <3>1
  <2>2. CASE ReportExternalExecution(p)
    <3>1. exec[p].pc = "run" /\ exec'[p].resv = exec[p].resv
      BY <1>t, <2>2 DEF ReportExternalExecution, Execs
    <3>2. exec'[p].pc = "failed" \/ (job.status = "running" /\ job'.tx = job.tx)
      <4>1. CASE exec' = [exec EXCEPT ![p] = [exec[p] EXCEPT !.pc = "failed", !.err = "internal"]]
        BY <1>t, <4>1 DEF Execs
      <4>2. CASE Mine(p, {"running"}) /\ job' = [job EXCEPT !.status = "external_execution"]
        BY <1>t, <4>2 DEF Mine, JobRows
      <4> QED
        BY <2>2, <4>1, <4>2 DEF ReportExternalExecution
    <3> QED
      BY <1>2, <1>k, <3>1, <3>2 DEF IInv, NoHashBeforeBoundary
  <2>3. CASE RejectionBooked(p)
    <3>1. exec'[p].resv = 0
      BY <1>t, <2>3 DEF RejectionBooked, Execs
    <3> QED
      BY <2>3, <3>1, BookedRefunds
  <2>4. CASE /\ exec[p].pc \in {"run", "intent"} /\ exec'[p].resv = exec[p].resv
             /\ exec'[p].crossed = exec[p].crossed
    <3> SUFFICES ASSUME exec[p].crossed, Mine(p, InFlight)', job'.tx # NoTx PROVE FALSE
      BY <1>k, <2>4
    <3>1. job.status \notin {"pending", "running"}
      BY DEF IInv, CrossedIsPast
    <3>2. Mine(p, InFlight) /\ job.tx = NoTx
      BY <1>k, <1>t, <2>4, <3>1 DEF OwnerMoves
    <3>3. ~SubmitIntentStored(p) /\ ~RecordLanded(p)
      <4>1. SubmitIntentStored(p) => exec'[p].pc = "sending"
        BY <1>t DEF SubmitIntentStored, Execs
      <4>2. RecordLanded(p) => exec[p].pc = "landed"
        BY DEF RecordLanded
      <4> QED
        BY <1>2, <2>4, <4>1, <4>2
    <3>4. ASSUME NEW h \in late, h.proc = p, LateHookStored(h) PROVE FALSE
      <4>1. h.first = FALSE
        BY <3>1, <3>4 DEF LateHookStored, Announceable, Mine, IInv, TypeOK, LateHooks
      <4> QED
        BY <2>4, <3>4, <4>1 DEF IInv, HooksHarmless, Ending
    <3> QED
      BY <3>2, <3>3, <3>4, HashStaysOff
  <2> QED
    BY <1>2, <1>t, <2>1, <2>2, <2>3, <2>4 DEF ExecMoves
<1> QED
  BY <1>1, <1>2

\* A late hook charges once, and only a job without a hash.
LEMMA LateChargesNext == ASSUME DistinctWorkerIds, IInv, ChargeInv, Next PROVE LateCharges'
<1>t. /\ TypeOK /\ late \in SUBSET LateHooks /\ channel \in {"bound", "sponsor"} /\ channel' = channel
      /\ OwnerMoves
  BY NextFootprint, NextJobMoves DEF IInv, TypeOK, Footprint, JobMoves
<1>k. /\ \A h \in late : /\ h.need = IF channel = "sponsor" THEN 1 ELSE 0
                         /\ ~h.first /\ Mine(h.proc, PastBoundary) => job.tx = NoTx
      /\ \A g, h \in late : g.proc = h.proc /\ ~g.first /\ ~h.first => g = h
  BY DEF ChargeInv, LateCharges
<1>o. ASSUME NEW h \in late, ~h.first, Mine(h.proc, PastBoundary)', h \in late' PROVE job'.tx = NoTx
  <2>0. h.proc \in Procs
    BY <1>t DEF LateHooks
  <2>1. /\ job.status \notin {"pending", "running"}
        /\ exec[h.proc].pc = "idle" \/ exec[h.proc].cur = h.tx
        /\ exec[h.proc].cur = h.tx => Ending(h.proc)
    BY <1>o DEF IInv, HooksHarmless
  <2>2. Mine(h.proc, InFlight) /\ Mine(h.proc, PastBoundary)
    <3>1. Mine(h.proc, InFlight)'
      BY <1>o DEF Mine, InFlight, PastBoundary
    <3> QED
      BY <1>t, <2>0, <2>1, <3>1 DEF OwnerMoves, Mine, InFlight, PastBoundary
  <2>3. job.tx = NoTx
    BY <1>k, <1>o, <2>2
  <2>4. ~SubmitIntentStored(h.proc) /\ ~RecordLanded(h.proc)
    BY <2>1 DEF SubmitIntentStored, RecordLanded, Ending
  <2>5. ASSUME NEW g \in late, g.proc = h.proc, LateHookStored(g) PROVE FALSE
    <3>1. g.first = FALSE
      BY <1>t, <2>1, <2>5 DEF LateHookStored, Announceable, Mine, LateHooks
    <3>2. g = h
      BY <1>k, <1>o, <2>5, <3>1
    <3> QED
      BY <1>o, <2>5, <3>2 DEF LateHookStored
  <2> QED
    BY <2>0, <2>2, <2>3, <2>4, <2>5, HashStaysOff
<1>1. CASE late' \subseteq late
  BY <1>1, <1>k, <1>o, <1>t DEF LateCharges
<1>2. ASSUME NEW p \in Procs, SubmitIntentAbandoned(p) PROVE LateCharges'
  <2> DEFINE new == [proc |-> p, tx |-> exec[p].cur, first |-> FirstBoundary(p),
                     need |-> Need(p), chk |-> exec[p].chk]
  <2>1. late' = late \cup {new} /\ exec[p].pc = "intent" /\ job' = job
    BY <1>2 DEF SubmitIntentAbandoned, dbVars
  <2>2. new.need = IF channel = "sponsor" THEN 1 ELSE 0
    <3>1. exec[p].resv = 0
      BY <2>1 DEF ChargeInv, ReservationKnows
    <3> QED
      BY <3>1 DEF Need
  <2>3. ~new.first /\ Mine(p, PastBoundary) => job.tx = NoTx
    <3>1. ~FirstBoundary(p) => exec[p].crossed
      BY <1>t, <2>1 DEF FirstBoundary, IInv, CrossedIsPast
    <3> QED
      BY <2>1, <3>1 DEF ChargeInv, ReservationKnows, Mine, InFlight, PastBoundary
  <2>4. \A h \in late : h.proc = p => h.first
    BY <2>1 DEF IInv, HooksHarmless, Ending
  <2>5. \A h \in late : ~h.first /\ Mine(h.proc, PastBoundary)' => job'.tx = NoTx
    BY <1>k, <2>1 DEF Mine
  <2>6. ~new.first /\ Mine(new.proc, PastBoundary)' => job'.tx = NoTx
    BY <2>1, <2>3 DEF Mine
  <2> QED
    BY <1>k, <1>t, <2>1, <2>2, <2>4, <2>5, <2>6 DEF LateCharges
<1>3. ASSUME NEW p \in Procs, Crash(p) PROVE late' \subseteq late
  BY <1>3 DEF Crash
<1>4. ASSUME NEW h \in late, LateHookStored(h) \/ LateHookFails(h) PROVE late' \subseteq late
  BY <1>4 DEF LateHookStored, LateHookFails
<1> QED
  BY NextFootprint, <1>1, <1>2, <1>3, <1>4 DEF Footprint, HookWriters

\* Every step preserves the invariant.
LEMMA ChargeNext == ASSUME DistinctWorkerIds PROVE IInv /\ SentInv /\ ChargeInv /\ [Next]_vars => ChargeInv'
<1> SUFFICES ASSUME IInv, SentInv, ChargeInv, [Next]_vars PROVE ChargeInv'
  OBVIOUS
<1>1. CASE Next
  BY <1>1, ChargeFollowsNext, ReservationNext, LateChargesNext DEF ChargeInv
<1>2. CASE UNCHANGED vars
  BY <1>2 DEF vars, dbVars, execVars, ChargeInv, ChargeFollowsHash, ReservationKnows, LateCharges,
              ToldNothingSent, Mine
<1> QED
  BY <1>1, <1>2

\* A transaction on chain is charged, and never twice.
LEMMA ChargedOnceFollows == IInv /\ SentInv /\ ChargeInv => ChargedOnce
<1> SUFFICES ASSUME IInv, SentInv, ChargeInv PROVE ChargedOnce
  OBVIOUS
<1>t. channel \in {"bound", "sponsor"} /\ NoTx \notin Txs
  BY ConstantsAssumption DEF IInv, TypeOK
<1>1. charged \in {0, 1}
  BY <1>t DEF ChargeInv, ChargeFollowsHash
<1>2. ASSUME channel = "sponsor", NEW t \in Txs, chain[t] # "none" PROVE charged = 1
  <2>1. job.tx = t
    BY <1>2 DEF SentInv, ChainInPool, IInv, OnlyJobHashCanLand, Landable
  <2>2. ~ToldNothingSent
    BY <1>2 DEF SentInv, NothingSentIsTrue, ToldNothingSent
  <2> QED
    BY <1>2, <1>t, <2>1, <2>2 DEF ChargeInv, ChargeFollowsHash
<1> QED
  BY <1>1, <1>2 DEF ChargedOnce

-----------------------------------------------------------------------------
(* The theorems. All of them assume that no two processes share a worker id. *)

\* The invariants together, and that they are inductive.
OInv == IInv /\ SentInv /\ ChargeInv /\ OutcomeInv /\ RecordInv

\* They hold initially.
LEMMA OInvInit == Init => OInv
  BY IInvInit, SentInit, ChargeInit, OutcomeInit, RecordInit DEF OInv

\* Every step preserves them.
LEMMA OInvNext == ASSUME DistinctWorkerIds PROVE OInv /\ [Next]_vars => OInv'
  BY IInvNext, SentNext, ChargeNext, OutcomeNext, RecordNext DEF OInv

\* Every execution satisfies them.
LEMMA OInvAlways == ASSUME DistinctWorkerIds PROVE Spec => []OInv
  BY OInvInit, OInvNext, PTL DEF Spec

\* A job that failed with a code that tells its owner that nothing was sent has nothing on chain and nothing
\* that can land, whoever failed it: the runner, the lease pass, the rejected-attempt pass, restart recovery
\* or the confirmer.
THEOREM NothingSentIsTrueAlways == ASSUME DistinctWorkerIds PROVE Spec => []NothingSentIsTrue
<1>1. OInv => NothingSentIsTrue
  BY DEF OInv, SentInv
<1> QED
  BY <1>1, OInvAlways, PTL

\* The deploy budget is charged exactly once for a sponsored transaction on chain, and no order of late
\* hooks, refunds and rebuilds charges or refunds it twice.
THEOREM ChargedOnceAlways == ASSUME DistinctWorkerIds PROVE Spec => []ChargedOnce
<1>1. OInv => ChargedOnce
  BY ChargedOnceFollows DEF OInv
<1> QED
  BY <1>1, OInvAlways, PTL

\* Outside the window between a reorg and its rollback the outcome on the job is the chain's: the generation
\* check of finalizeIdentifierKeyedJob leaves no stale lookup behind, with any number of confirmers.
THEOREM OutcomeIsCurrentAlways == ASSUME DistinctWorkerIds PROVE Spec => []OutcomeIsCurrent
<1>1. OInv => OutcomeIsCurrent
  BY DEF OInv, OutcomeInv
<1> QED
  BY <1>1, OInvAlways, PTL

\* Sending is safe as a whole, with reorganisations and failing writes: only the recorded hash can land, no
\* job is replayed after a send, a job that says nothing was sent is right, a grant is charged once, and a
\* succeeded job has its result recorded unless the chain was reorganised.
THEOREM SendIsSafeAlways == ASSUME DistinctWorkerIds PROVE Spec => []SendIsSafe
<1>1. OInv => SendIsSafe
  <2>1. IInv => NoReplayAfterSend
    BY ConstantsAssumption DEF IInv, NoReplayAfterSend, NoHashBeforeBoundary, OnlyJobHashCanLand
  <2> QED
    BY <2>1, ChargedOnceFollows DEF OInv, IInv, SentInv, RecordInv, SendIsSafe
<1> QED
  BY <1>1, OInvAlways, PTL

=============================================================================
