---------------------------- MODULE Gateway_proofs ----------------------------
(***************************************************************************)
(* Theorems about four parts of MC_Gateway, for every number of sessions,  *)
(* workflows, offers and requests and any bounds. A behaviour is one of a  *)
(* single part: the invariant of a part is  part = ... => Inv,  and the    *)
(* steps of the other parts keep it because  part  never changes.          *)
(*                                                                         *)
(* Sessions (SInv): a call that closes a session evicts the wallet when it *)
(* read a viewing key, which every active session has, so the last close   *)
(* always comes to decide about it.                                        *)
(* Workflows (WInv): the steps before the one a workflow is at are on      *)
(* chain, through parks, restarts and re-runs, since a step's transaction  *)
(* is sent once and stays where it is.                                     *)
(* Offers (BInv): a job that landed has spent the coins it names, and a    *)
(* closed row stays as it is.                                              *)
(* Dust (DInv): a token is given out once, so who has the token of a       *)
(* reservation has the reservation.                                        *)
(***************************************************************************)
EXTENDS MC_Gateway, FiniteSetTheorems, SequenceTheorems, TLAPS

-----------------------------------------------------------------------------
(* Wallet sessions.                                                        *)

\* An active session has its viewing key, and one that was closed is never active again.
ActiveHasKey ==
    \A s \in SessionIds :
        /\ sessionRow[s].active => sessionRow[s].known /\ sessionRow[s].vk
        /\ closer[s].step = "read" => sessionRow[s].known
        /\ closer[s].step = "read" /\ ~closer[s].vk => ~sessionRow[s].active

\* The inductive invariant.
SInv == Sessions!SessionTypeOK /\ ActiveHasKey /\ Sessions!NoOrphanFacade

SessionRow == [known : BOOLEAN, active : BOOLEAN, expired : BOOLEAN, vk : BOOLEAN, seed : BOOLEAN]
CloserRow == [step : {"idle", "read", "closed", "evict"}, by : Sessions!Callers, vk : BOOLEAN]

SweepRow == [step : {"idle", "read", "closed", "evict"}, rows : SUBSET SessionIds]

\* The parts of the type invariant, by what steps change.
RowShape == /\ sessionRow \in [SessionIds -> SessionRow] /\ closer \in [SessionIds -> CloserRow] /\ sweeper \in SweepRow
            /\ facade \in BOOLEAN /\ left \in BOOLEAN
LockShape == lock \subseteq SessionIds \cup {"sweep"} /\ Cardinality(lock) <= 1
TaskShape == /\ signer \in [SessionIds -> {"idle", "derive"}] /\ walletJob \in [SessionIds -> {"none", "queued", "ready"}]
             /\ sessionRestarts \in 0..SessionRestarts

LEMMA SameCardinality == \A S : Sessions!Cardinality(S) = Cardinality(S)
  BY DEF Sessions!Cardinality, Cardinality

LEMMA SessionTypeParts == Sessions!SessionTypeOK <=> RowShape /\ LockShape /\ TaskShape
  <1>1. RowShape <=> /\ sessionRow \in [SessionIds -> [known : BOOLEAN, active : BOOLEAN, expired : BOOLEAN, vk : BOOLEAN, seed : BOOLEAN]]
                     /\ closer \in [SessionIds -> [step : {"idle", "read", "closed", "evict"}, by : Sessions!Callers, vk : BOOLEAN]]
                     /\ sweeper \in [step : {"idle", "read", "closed", "evict"}, rows : SUBSET SessionIds]
                     /\ facade \in BOOLEAN /\ left \in BOOLEAN
    BY DEF RowShape, SessionRow, CloserRow, SweepRow
  <1> QED
    BY <1>1, SameCardinality DEF Sessions!SessionTypeOK, LockShape, TaskShape

\* The lock has one holder at most, whoever it is.
LEMMA LockFacts ==
    /\ lock' = {} => LockShape'
    /\ \A s \in SessionIds \cup {"sweep"} : lock' = {s} => LockShape'
  <1>1. Cardinality({}) = 0 /\ \A x : Cardinality({x}) = 1
    BY FS_EmptySet, FS_Singleton
  <1>2. lock' = {} => LockShape'
    BY <1>1 DEF LockShape
  <1>3. ASSUME NEW s \in SessionIds \cup {"sweep"}, lock' = {s} PROVE LockShape'
    <2>1. Cardinality(lock') = 1
      BY <1>1, <1>3
    <2> QED
      BY <1>3, <2>1 DEF LockShape
  <1> QED
    BY <1>2, <1>3

LEMMA RowFacts == /\ Sessions!NoRow \in SessionRow
                  /\ Sessions!Idle \in CloserRow
                  /\ Sessions!Sweep \in SweepRow
  BY DEF SessionRow, SweepRow, CloserRow, Sessions!NoRow, Sessions!Idle, Sessions!Sweep, Sessions!Callers

LEMMA SessionInitInv == Sessions!SessionInit => SInv
  <1> SUFFICES ASSUME Sessions!SessionInit PROVE SInv
    OBVIOUS
  <1>1. Sessions!SessionTypeOK
    <2>1. RowShape
      BY RowFacts DEF Sessions!SessionInit, RowShape
    <2>2. LockShape
      BY FS_EmptySet DEF Sessions!SessionInit, LockShape
    <2>3. TaskShape
      BY SessionAssumption DEF Sessions!SessionInit, TaskShape
    <2> QED
      BY <2>1, <2>2, <2>3, SessionTypeParts
  <1>2. ActiveHasKey /\ Sessions!NoOrphanFacade
    BY DEF Sessions!SessionInit, ActiveHasKey, Sessions!NoOrphanFacade, Sessions!Accounted, Sessions!NoRow, Sessions!Idle
  <1> QED
    BY <1>1, <1>2 DEF SInv

LEMMA SessionStepInv == SInv /\ Sessions!SessionNext => SInv'
  <1> SUFFICES ASSUME SInv, Sessions!SessionNext PROVE SInv'
    OBVIOUS
  <1>t. /\ sessionRow \in [SessionIds -> SessionRow] /\ facade \in BOOLEAN /\ left \in BOOLEAN
        /\ closer \in [SessionIds -> CloserRow]
        /\ sweeper \in SweepRow
        /\ LockShape /\ TaskShape
    BY SessionTypeParts DEF SInv, RowShape
  <1>u. RowShape' /\ LockShape' /\ TaskShape' => Sessions!SessionTypeOK'
    BY SessionTypeParts, PTL
  <1> USE <1>u
  <1>1. ASSUME NEW s \in SessionIds, Sessions!connectWallet(s) PROVE SInv'
    <2> DEFINE new == [Sessions!NoRow EXCEPT !.known = TRUE, !.active = TRUE, !.vk = TRUE]
    <2>1. new \in SessionRow /\ new.known /\ new.active /\ new.vk
      BY DEF SessionRow, Sessions!NoRow
    <2>2. sessionRow' = [sessionRow EXCEPT ![s] = new]
      BY <1>1 DEF Sessions!connectWallet
    <2> HIDE DEF new
    <2>3. Sessions!SessionTypeOK'
      <3>1. RowShape'
        BY <1>1, <1>t, <2>1, <2>2 DEF Sessions!connectWallet, RowShape
      <3>2. LockShape' /\ TaskShape'
        BY <1>1, <1>t DEF Sessions!connectWallet, LockShape, TaskShape
      <3> QED
        BY <3>1, <3>2
    <2>4. ActiveHasKey'
      BY <1>1, <1>t, <2>1, <2>2 DEF Sessions!connectWallet, SInv, ActiveHasKey
    <2>5. Sessions!NoOrphanFacade'
      BY <1>1, <1>t, <2>1, <2>2 DEF Sessions!connectWallet, SInv, Sessions!NoOrphanFacade, Sessions!Accounted
    <2> QED
      BY <2>3, <2>4, <2>5 DEF SInv
  <1>2. ASSUME NEW s \in SessionIds, Sessions!Expire(s) PROVE SInv'
    <2>1. Sessions!SessionTypeOK'
      <3>1. RowShape'
        BY <1>2, <1>t DEF Sessions!Expire, RowShape, SessionRow
      <3>2. LockShape'
        BY <1>2, <1>t DEF Sessions!Expire, LockShape
      <3>3. TaskShape'
        BY <1>2, <1>t DEF Sessions!Expire, TaskShape
      <3> QED
        BY <3>1, <3>2, <3>3
    <2>2. ActiveHasKey'
      BY <1>2, <1>t DEF Sessions!Expire, SInv, ActiveHasKey, SessionRow
    <2>3. Sessions!NoOrphanFacade'
      BY <1>2, <1>t DEF Sessions!Expire, SInv, Sessions!NoOrphanFacade, Sessions!Accounted, SessionRow
    <2> QED
      BY <2>1, <2>2, <2>3 DEF SInv
  <1>3. ASSUME NEW s \in SessionIds,
               \/ Sessions!readForSigning(s) \/ Sessions!startWalletJob(s) \/ Sessions!executeWalletCommand(s)
        PROVE SInv'
    <2>1. Sessions!SessionTypeOK'
      <3>1. RowShape'
        BY <1>3, <1>t DEF Sessions!readForSigning, Sessions!startWalletJob, Sessions!executeWalletCommand, RowShape
      <3>2. LockShape'
        BY <1>3, <1>t DEF Sessions!readForSigning, Sessions!startWalletJob, Sessions!executeWalletCommand, LockShape
      <3>3. TaskShape'
        BY <1>3, <1>t DEF Sessions!readForSigning, Sessions!startWalletJob, Sessions!executeWalletCommand, TaskShape
      <3> QED
        BY <3>1, <3>2, <3>3
    <2> QED
      BY <1>3, <2>1 DEF Sessions!readForSigning, Sessions!startWalletJob, Sessions!executeWalletCommand, SInv, ActiveHasKey, Sessions!NoOrphanFacade, Sessions!Accounted
  <1>4. ASSUME NEW s \in SessionIds, Sessions!connectWalletForSigning(s) PROVE SInv'
    <2>1. Sessions!SessionTypeOK'
      <3>1. RowShape'
        BY <1>4, <1>t DEF Sessions!connectWalletForSigning, RowShape, SessionRow
      <3>2. LockShape'
        BY <1>4, <1>t DEF Sessions!connectWalletForSigning, LockShape
      <3>3. TaskShape'
        BY <1>4, <1>t DEF Sessions!connectWalletForSigning, TaskShape
      <3> QED
        BY <3>1, <3>2, <3>3
    <2>2. ActiveHasKey'
      BY <1>4, <1>t DEF Sessions!connectWalletForSigning, SInv, ActiveHasKey, SessionRow
    <2>3. Sessions!NoOrphanFacade'
      BY <1>4, <1>t DEF Sessions!connectWalletForSigning, SInv, Sessions!NoOrphanFacade, Sessions!Accounted, SessionRow
    <2> QED
      BY <2>1, <2>2, <2>3 DEF SInv
  <1>5. ASSUME NEW s \in SessionIds, Sessions!getOrBuildWalletFacade(s) PROVE SInv'
    <2>1. Sessions!SessionTypeOK'
      BY <1>5, <1>t DEF Sessions!getOrBuildWalletFacade, SInv, Sessions!SessionTypeOK, SessionRow
    <2> QED
      BY <1>5, <2>1 DEF Sessions!getOrBuildWalletFacade, SInv, ActiveHasKey, Sessions!NoOrphanFacade, Sessions!Accounted
  <1>6. ASSUME NEW s \in SessionIds, NEW by \in Sessions!Callers, Sessions!readForClose(s, by) PROVE SInv'
    <2> DEFINE new == [step |-> "read", by |-> by, vk |-> sessionRow[s].vk]
    <2>1. new \in CloserRow
      BY <1>t DEF SessionRow, CloserRow
    <2>2. closer' = [closer EXCEPT ![s] = new] /\ closer[s].step = "idle" /\ sessionRow[s].known
      BY <1>6 DEF Sessions!readForClose
    <2>3. Sessions!SessionTypeOK'
      BY <1>6, <2>1, <2>2 DEF Sessions!readForClose, SInv, Sessions!SessionTypeOK, CloserRow
    <2>4. ActiveHasKey'
      BY <1>6, <1>t, <2>2 DEF Sessions!readForClose, SInv, ActiveHasKey
    <2>5. Sessions!NoOrphanFacade'
      BY <1>6, <1>t, <2>2 DEF Sessions!readForClose, SInv, Sessions!NoOrphanFacade, Sessions!Accounted
    <2> QED
      BY <2>3, <2>4, <2>5 DEF SInv
  <1>7. ASSUME NEW s \in SessionIds, Sessions!deactivate(s) PROVE SInv'
    <2> DEFINE new == [sessionRow[s] EXCEPT !.active = FALSE, !.vk = FALSE, !.seed = FALSE]
               next == IF closer[s].vk THEN [closer[s] EXCEPT !.step = "closed"] ELSE Sessions!Idle
    <2>1. new \in SessionRow /\ ~new.active /\ new.known = sessionRow[s].known
      BY <1>t DEF SessionRow
    <2>2. next \in CloserRow /\ next.step = IF closer[s].vk THEN "closed" ELSE "idle"
      BY <1>t DEF CloserRow, Sessions!Idle, Sessions!Callers
    <2>3. sessionRow' = [sessionRow EXCEPT ![s] = new] /\ closer' = [closer EXCEPT ![s] = next]
      BY <1>7 DEF Sessions!deactivate, Sessions!Closed
    <2> HIDE DEF new, next
    <2>4. Sessions!SessionTypeOK'
      BY <1>7, <1>t, <2>1, <2>2, <2>3 DEF Sessions!deactivate, SInv, Sessions!SessionTypeOK, SessionRow, CloserRow
    <2>5. ActiveHasKey'
      BY <1>t, <2>1, <2>2, <2>3 DEF SInv, ActiveHasKey
    <2>6. Sessions!NoOrphanFacade'
      BY <1>7, <1>t, <2>1, <2>2, <2>3 DEF Sessions!deactivate, SInv, ActiveHasKey, Sessions!NoOrphanFacade, Sessions!Accounted
    <2> QED
      BY <2>4, <2>5, <2>6 DEF SInv
  <1>8. ASSUME NEW s \in SessionIds, Sessions!checkShared(s) PROVE SInv'
    <2>1. CASE Sessions!hasLiveSessionForWallet(SessionOwner[s]) /\ closer' = [closer EXCEPT ![s] = Sessions!Idle] /\ lock' = lock
      <3>1. Sessions!SessionTypeOK'
        BY <1>8, <1>t, <2>1, RowFacts DEF Sessions!checkShared, SInv, Sessions!SessionTypeOK, CloserRow
      <3>2. \E r \in SessionIds : sessionRow[r].active
        BY <2>1 DEF Sessions!hasLiveSessionForWallet
      <3> QED
        BY <1>8, <1>t, <2>1, <3>1, <3>2 DEF Sessions!checkShared, SInv, ActiveHasKey, Sessions!NoOrphanFacade, Sessions!Accounted, Sessions!Idle
    <2>2. CASE closer' = [closer EXCEPT ![s].step = "evict"] /\ lock' = {s}
      <3>1. Sessions!SessionTypeOK'
        <4>1. RowShape'
          BY <1>8, <1>t, <2>2 DEF Sessions!checkShared, RowShape, CloserRow
        <4>2. LockShape'
          BY <1>8, <1>t, <2>2, LockFacts DEF Sessions!checkShared, LockShape
        <4>3. TaskShape'
          BY <1>8, <1>t DEF Sessions!checkShared, TaskShape
        <4> QED
          BY <4>1, <4>2, <4>3
      <3>2. closer'[s].step = "evict" /\ \A r \in SessionIds \ {s} : closer'[r] = closer[r]
        BY <1>t, <2>2 DEF CloserRow
      <3> QED
        BY <1>8, <1>t, <2>2, <3>1, <3>2 DEF Sessions!checkShared, SInv, ActiveHasKey, Sessions!NoOrphanFacade, Sessions!Accounted
    <2> QED
      BY <1>8, <2>1, <2>2 DEF Sessions!checkShared
  <1>9. ASSUME NEW s \in SessionIds, Sessions!evictWalletFacade(s) PROVE SInv'
    <2>1. Sessions!SessionTypeOK'
      <3>1. RowShape'
        BY <1>9, <1>t, RowFacts DEF Sessions!evictWalletFacade, RowShape
      <3>2. LockShape'
        BY <1>9, <1>t, LockFacts DEF Sessions!evictWalletFacade, LockShape
      <3>3. TaskShape'
        BY <1>9, <1>t DEF Sessions!evictWalletFacade, TaskShape
      <3> QED
        BY <3>1, <3>2, <3>3
    <2> QED
      BY <1>9, <1>t, <2>1 DEF Sessions!evictWalletFacade, SInv, ActiveHasKey, Sessions!NoOrphanFacade, Sessions!Accounted, Sessions!Idle
  <1>10. CASE Sessions!startSessionCleanup
    <2>1. PICK rs \in SUBSET SessionIds : sweeper' = [step |-> "read", rows |-> rs]
      BY <1>10 DEF Sessions!startSessionCleanup
    <2>2. Sessions!SessionTypeOK'
      BY <1>10, <2>1 DEF Sessions!startSessionCleanup, SInv, Sessions!SessionTypeOK
    <2> QED
      BY <1>10, <2>2 DEF Sessions!startSessionCleanup, SInv, ActiveHasKey, Sessions!NoOrphanFacade, Sessions!Accounted
  <1>11. CASE Sessions!sweepRows
    <2>1. \A s \in SessionIds : Sessions!Closed(s) \in SessionRow /\ ~Sessions!Closed(s).active
                                  /\ Sessions!Closed(s).known = sessionRow[s].known
      BY <1>t DEF SessionRow, Sessions!Closed
    <2>2. sweeper'.step = "closed" /\ sweeper' \in SweepRow
      BY <1>11, <1>t DEF Sessions!sweepRows, SweepRow
    <2>3. Sessions!SessionTypeOK'
      BY <1>11, <1>t, <2>1, <2>2 DEF Sessions!sweepRows, SInv, Sessions!SessionTypeOK, SessionRow
    <2>4. ActiveHasKey'
      BY <1>11, <1>t, <2>1 DEF Sessions!sweepRows, SInv, ActiveHasKey
    <2> QED
      BY <2>2, <2>3, <2>4 DEF SInv, Sessions!NoOrphanFacade, Sessions!Accounted
  <1>12. CASE Sessions!sweepShared
    <2>1. PICK s \in SessionIds :
             IF Sessions!hasLiveSessionForWallet(SessionOwner[s])
             THEN sweeper' = Sessions!Sweep /\ lock' = lock
             ELSE sweeper' = [sweeper EXCEPT !.step = "evict"] /\ lock' = {"sweep"}
      BY <1>12, <1>t DEF Sessions!sweepShared, SweepRow
    <2>2. Sessions!SessionTypeOK'
      <3>1. RowShape'
        BY <1>12, <1>t, <2>1, RowFacts DEF Sessions!sweepShared, RowShape, SweepRow
      <3>2. LockShape'
        BY <1>12, <1>t, <2>1, LockFacts DEF Sessions!sweepShared, LockShape
      <3>3. TaskShape'
        BY <1>12, <1>t DEF Sessions!sweepShared, TaskShape
      <3> QED
        BY <3>1, <3>2, <3>3
    <2>3. Sessions!NoOrphanFacade'
      <3>1. CASE Sessions!hasLiveSessionForWallet(SessionOwner[s])
        <4>1. \E r \in SessionIds : sessionRow'[r].active
          BY <1>12, <3>1 DEF Sessions!sweepShared, Sessions!hasLiveSessionForWallet
        <4> QED
          BY <4>1 DEF Sessions!NoOrphanFacade, Sessions!Accounted
      <3>2. CASE sweeper' = [sweeper EXCEPT !.step = "evict"]
        <4>1. sweeper'.step = "evict"
          BY <1>t, <3>2 DEF SweepRow
        <4> QED
          BY <4>1 DEF Sessions!NoOrphanFacade, Sessions!Accounted
      <3> QED
        BY <2>1, <3>1, <3>2
    <2> QED
      BY <1>12, <2>2, <2>3 DEF Sessions!sweepShared, SInv, ActiveHasKey
  <1>13. CASE Sessions!sweepEvict
    <2>1. Sessions!SessionTypeOK'
      <3>1. RowShape'
        BY <1>13, <1>t, RowFacts DEF Sessions!sweepEvict, RowShape
      <3>2. LockShape'
        BY <1>13, <1>t, LockFacts DEF Sessions!sweepEvict, LockShape
      <3>3. TaskShape'
        BY <1>13, <1>t DEF Sessions!sweepEvict, TaskShape
      <3> QED
        BY <3>1, <3>2, <3>3
    <2> QED
      BY <1>13, <2>1 DEF Sessions!sweepEvict, SInv, ActiveHasKey, Sessions!NoOrphanFacade, Sessions!Accounted
  <1>14. CASE Sessions!closeSessionsFromPreviousProcess
    <2>1. \A s \in SessionIds : Sessions!Closed(s) \in SessionRow /\ ~Sessions!Closed(s).active
      BY <1>t DEF SessionRow, Sessions!Closed
    <2>2. Sessions!SessionTypeOK'
      <3>1. RowShape'
        BY <1>14, <1>t, <2>1, RowFacts DEF Sessions!closeSessionsFromPreviousProcess, RowShape
      <3>2. LockShape'
        BY <1>14, <1>t, LockFacts DEF Sessions!closeSessionsFromPreviousProcess, LockShape
      <3>3. TaskShape'
        BY <1>14, <1>t, SessionAssumption DEF Sessions!closeSessionsFromPreviousProcess, TaskShape
      <3> QED
        BY <3>1, <3>2, <3>3
    <2>3. ActiveHasKey'
      BY <1>14, <1>t, <2>1 DEF Sessions!closeSessionsFromPreviousProcess, SInv, ActiveHasKey, Sessions!Idle
    <2> QED
      BY <1>14, <2>2, <2>3 DEF Sessions!closeSessionsFromPreviousProcess, SInv, Sessions!NoOrphanFacade, Sessions!Accounted
  <1>15. ASSUME NEW s \in SessionIds, Sessions!closingFails(s) PROVE SInv'
    <2>1. Sessions!SessionTypeOK'
      <3>1. RowShape'
        BY <1>15, <1>t, RowFacts DEF Sessions!closingFails, RowShape
      <3>2. LockShape'
        BY <1>15, <1>t, LockFacts DEF Sessions!closingFails, LockShape
      <3>3. TaskShape'
        BY <1>15, <1>t DEF Sessions!closingFails, TaskShape
      <3> QED
        BY <3>1, <3>2, <3>3
    <2>2. ActiveHasKey'
      BY <1>15, <1>t DEF Sessions!closingFails, SInv, ActiveHasKey, Sessions!Idle
    <2>3. facade' = facade /\ left' = (left \/ (facade /\ ~Sessions!Accounted'))
      BY <1>15 DEF Sessions!closingFails
    <2> QED
      BY <2>1, <2>2, <2>3 DEF SInv, Sessions!NoOrphanFacade
  <1>16. CASE Sessions!sweepFails
    <2>1. Sessions!SessionTypeOK'
      <3>1. RowShape'
        BY <1>16, <1>t, RowFacts DEF Sessions!sweepFails, RowShape
      <3>2. LockShape'
        BY <1>16, <1>t, LockFacts DEF Sessions!sweepFails, LockShape
      <3>3. TaskShape'
        BY <1>16, <1>t DEF Sessions!sweepFails, TaskShape
      <3> QED
        BY <3>1, <3>2, <3>3
    <2>2. ActiveHasKey'
      BY <1>16 DEF Sessions!sweepFails, SInv, ActiveHasKey
    <2>3. facade' = facade /\ left' = (left \/ (facade /\ ~Sessions!Accounted'))
      BY <1>16 DEF Sessions!sweepFails
    <2> QED
      BY <2>1, <2>2, <2>3 DEF SInv, Sessions!NoOrphanFacade
  <1>17. CASE Sessions!workerExits
    <2>1. Sessions!SessionTypeOK'
      <3>1. RowShape'
        BY <1>17, <1>t DEF Sessions!workerExits, RowShape
      <3>2. LockShape' /\ TaskShape'
        BY <1>17, <1>t DEF Sessions!workerExits, LockShape, TaskShape
      <3> QED
        BY <3>1, <3>2
    <2> QED
      BY <1>17, <2>1 DEF Sessions!workerExits, SInv, ActiveHasKey, Sessions!NoOrphanFacade
  <1> QED
    BY <1>1, <1>2, <1>3, <1>4, <1>5, <1>6, <1>7, <1>8, <1>9, <1>10, <1>11, <1>12, <1>13, <1>14, <1>15, <1>16, <1>17 DEF Sessions!SessionNext

SessionPart == part = "sessions" => SInv

\* No wallet stays in the worker's memory without an active session or a call that is to decide about it, however
\* connects, closes, sweeps, signers, failures and restarts interleave, except where a step of the closing call failed
\* or a job built it too late, which stays so until the worker exits or the next session of it closes
\* (evictFacadeUnlessShared, withKeyedLock).
THEOREM NoOrphanFacadeAlways == Spec => []NoOrphanFacade
  <1>1. Init => SessionPart
    BY SessionInitInv DEF Init, SessionPart
  <1>2. SessionPart /\ [Next]_vars => SessionPart'
    <2> SUFFICES ASSUME SessionPart, [Next]_vars PROVE SessionPart'
      OBVIOUS
    <2>1. CASE UNCHANGED <<part, sessionVars>>
      BY <2>1 DEF SessionPart, SInv, ActiveHasKey, Sessions!SessionTypeOK, Sessions!NoOrphanFacade, Sessions!Accounted, sessionVars
    <2>2. CASE Only("sessions") /\ Sessions!SessionNext
      BY <2>2, SessionStepInv DEF SessionPart, Only
    <2>3. CASE part # "sessions" /\ part' = part
      BY <2>3 DEF SessionPart
    <2>4. part = "sessions" /\ Next => Only("sessions") /\ Sessions!SessionNext
      BY DEF Next, Only
    <2>5. Next => part' = part
      BY DEF Next, Only
    <2>6. UNCHANGED vars => UNCHANGED <<part, sessionVars>>
      BY DEF vars
    <2> QED
      BY <2>1, <2>2, <2>3, <2>4, <2>5, <2>6
  <1>3. SessionPart => NoOrphanFacade
    BY DEF SessionPart, SInv, NoOrphanFacade
  <1> QED
    BY <1>1, <1>2, <1>3, PTL DEF Spec

-----------------------------------------------------------------------------
(* Workflows.                                                              *)

StepRecord == [status : {"none", "pending", "running", "sent", "parked", "succeeded", "failed"}, stamp : Int, build : Int,
               tx : {"none", "sent", "landed", "expired"}, landed : {0, 1}]

\* What a step's job row says of its transaction: it is sent once, and a step that succeeded is on chain.
StepKnows(c) ==
    /\ c.status \in {"none", "pending", "running"} => c.tx = "none"
    /\ c.status \in {"sent", "parked"} => c.tx \in {"sent", "landed"}
    /\ c.status = "succeeded" => c.tx = "landed"
    /\ c.status = "failed" => c.tx \in {"none", "expired"}
    /\ c.landed = IF c.tx = "landed" THEN 1 ELSE 0

StepShape == /\ child \in [WorkflowJobs -> [Flows!Steps -> StepRecord]]
             /\ \A p \in WorkflowJobs, s \in Flows!Steps : StepKnows(child[p][s])

Codes == {"", "refused", "conflict", "busy", "child", "persist", "session"}

ParentRecord ==
    [status : {"none", "pending", "running", "parked", "succeeded", "failed"}, code : Codes, steps : Seq(Flows!Steps), build : Int,
     given : BOOLEAN, granted : BOOLEAN, at : Nat, doing : {"none", "start", "wait", "record", "finish"}]

ParentShape == /\ parent \in [WorkflowJobs -> ParentRecord]
               /\ proofRow \in [WorkflowJobs -> {"none", "open", "proven"}]
               /\ build \in Int /\ workflowClock \in Int

\* The first k steps of a workflow are on chain.
LandedTo(p, k) == \A i \in DOMAIN parent[p].steps : i <= k => child[p][parent[p].steps[i]].tx = "landed"

AllLanded(p) == \A i \in DOMAIN parent[p].steps : child[p][parent[p].steps[i]].tx = "landed"

\* A running workflow is at a step of its list and those before it are on chain, whatever it went through
\* before; it records the proof when all of them are.
ParentKnows(p) ==
    /\ parent[p].status = "none" => proofRow[p] # "proven"
    /\ parent[p].status # "none" => parent[p].steps # <<>>
    /\ parent[p].status = "running" =>
          /\ parent[p].at \in DOMAIN parent[p].steps /\ LandedTo(p, parent[p].at - 1)
          /\ parent[p].doing \in {"record", "finish"} => AllLanded(p)
          /\ parent[p].doing = "finish" => proofRow[p] = "proven"
    /\ parent[p].status = "succeeded" => proofRow[p] = "proven"
    /\ proofRow[p] = "proven" => AllLanded(p)

WInv == StepShape /\ ParentShape /\ \A p \in WorkflowJobs : ParentKnows(p)

LEMMA CommandFacts ==
    ASSUME NEW c \in Flows!Commands
    PROVE  c.steps \in Seq(Flows!Steps) /\ c.steps # <<>> /\ c.given \in BOOLEAN /\ c.granted \in BOOLEAN
  <1>0. \A r \in Seq(Flows!Steps) : r \o <<"prove">> \in Seq(Flows!Steps) /\ r \o <<"prove">> # <<>>
    <2>1. <<"prove">> \in Seq(Flows!Steps) /\ Len(<<"prove">>) = 1
      BY DEF Flows!Steps
    <2> QED
      BY <2>1, ConcatProperties, EmptySeq
  <1>a. /\ <<>> \in Seq(Flows!Steps)
        /\ \A s \in Flows!Steps : <<s>> \in Seq(Flows!Steps)
        /\ \A r, t \in Seq(Flows!Steps) : r \o t \in Seq(Flows!Steps)
    OBVIOUS
  <1>b. "anchorContentRoot" \in Flows!Steps /\ "anchorContentRootA" \in Flows!Steps /\ "anchorContentRootB" \in Flows!Steps
    BY DEF Flows!Steps
  <1>1. \A a \in BOOLEAN : Flows!fieldSteps(a) \in Seq(Flows!Steps) /\ Flows!fieldSteps(a) # <<>>
    BY <1>0, <1>a, <1>b DEF Flows!fieldSteps
  <1>2. \A a, b \in BOOLEAN : Flows!documentSteps(a, b) \in Seq(Flows!Steps) /\ Flows!documentSteps(a, b) # <<>>
    BY <1>0, <1>a, <1>b DEF Flows!documentSteps
  <1>3. Flows!batchSteps \in Seq(Flows!Steps) /\ Flows!batchSteps # <<>>
    BY DEF Flows!batchSteps, Flows!Steps
  <1>4. PICK a \in BOOLEAN, b \in BOOLEAN, chosen \in BOOLEAN, agent \in BOOLEAN :
           \/ c = Flows!issueFieldPredicateAttestation(a, chosen, agent)
           \/ c = Flows!issueFieldEqualityAttestation(a, chosen, agent)
           \/ c = Flows!issueFieldMembershipAttestation(a, chosen, agent)
           \/ c = Flows!issueDocumentIntegrityAttestation(a, b, chosen, agent)
           \/ c = Flows!issueDocumentDiffAttestation(a, b, chosen, agent)
           \/ c = Flows!issueFieldPredicateAttestationBatch(chosen, agent)
    BY DEF Flows!Commands
  <1>5. \E steps \in Seq(Flows!Steps) : steps # <<>> /\ c = [steps |-> steps, given |-> chosen, granted |-> agent]
    BY <1>1, <1>2, <1>3, <1>4 DEF Flows!issueFieldPredicateAttestation, Flows!issueFieldEqualityAttestation,
       Flows!issueFieldMembershipAttestation, Flows!issueDocumentIntegrityAttestation, Flows!issueDocumentDiffAttestation,
       Flows!issueFieldPredicateAttestationBatch
  <1> QED
    BY <1>5

LEMMA WorkflowInitInv == Flows!WorkflowInit => WInv
  <1> SUFFICES ASSUME Flows!WorkflowInit PROVE WInv
    OBVIOUS
  <1>1. StepShape
    BY DEF Flows!WorkflowInit, StepShape, StepRecord, StepKnows, Flows!NoStep
  <1>2. ParentShape
    <2>1. Flows!NoParent \in ParentRecord
      BY DEF ParentRecord, Codes, Flows!NoParent
    <2> QED
      BY <2>1 DEF Flows!WorkflowInit, ParentShape
  <1>3. \A p \in WorkflowJobs : ParentKnows(p)
    BY DEF Flows!WorkflowInit, ParentKnows, Flows!NoParent
  <1> QED
    BY <1>1, <1>2, <1>3 DEF WInv

-----------------------------------------------------------------------------
\* What is on chain stays there.
LandedStays == \A p \in WorkflowJobs, s \in Flows!Steps : child[p][s].tx = "landed" => child'[p][s].tx = "landed"

LEMMA ChildSet ==
    ASSUME StepShape, NEW p \in WorkflowJobs, NEW s \in Flows!Steps, NEW c \in StepRecord, StepKnows(c),
           child[p][s].tx = "landed" => c.tx = "landed", child' = [child EXCEPT ![p][s] = c]
    PROVE  StepShape' /\ LandedStays
  <1>1. child' \in [WorkflowJobs -> [Flows!Steps -> StepRecord]]
    BY DEF StepShape
  <1>2. \A q \in WorkflowJobs, t \in Flows!Steps : child'[q][t] = IF q = p /\ t = s THEN c ELSE child[q][t]
    BY DEF StepShape
  <1> QED
    BY <1>1, <1>2 DEF StepShape, LandedStays

LEMMA ChildKept == StepShape /\ child' = child => StepShape' /\ LandedStays
  BY DEF StepShape, LandedStays

\* The steps of a step's job.
LEMMA ChildSteps ==
    ASSUME StepShape, NEW p \in WorkflowJobs, NEW s \in Flows!Steps,
           Flows!executeStep(p, s) \/ Flows!landTx(p, s) \/ Flows!settleStep(p, s)
    PROVE  StepShape' /\ LandedStays /\ UNCHANGED <<parent, proofRow, build, workflowClock>>
  <1> DEFINE c == child[p][s]
  <1>1. c \in StepRecord /\ StepKnows(c)
    BY DEF StepShape
  <1>2. UNCHANGED <<parent, proofRow, build, workflowClock>>
    BY DEF Flows!executeStep, Flows!landTx, Flows!settleStep, Flows!SetChild
  <1>3. ASSUME NEW n, child' = [child EXCEPT ![p][s] = n],
               \/ c.status = "pending" /\ n = [c EXCEPT !.status = "running"]
               \/ c.status = "running" /\ n = [c EXCEPT !.status = "failed"]
               \/ c.status = "running" /\ n = [c EXCEPT !.status = "sent", !.tx = "sent"]
               \/ c.tx = "landed" /\ c.status \in {"sent", "parked"} /\ n = [c EXCEPT !.status = "succeeded"]
               \/ c.status = "sent" /\ n = [c EXCEPT !.status = "parked"]
               \/ c.tx = "sent" /\ n = [c EXCEPT !.tx = "landed", !.landed = @ + 1]
               \/ c.status = "parked" /\ c.tx # "landed" /\ n = [c EXCEPT !.status = "failed", !.tx = "expired"]
        PROVE  StepShape' /\ LandedStays
    <2> HIDE DEF c
    <2>1. CASE c.status = "pending" /\ n = [c EXCEPT !.status = "running"]
      <3>1. n \in StepRecord /\ StepKnows(n) /\ (c.tx = "landed" => n.tx = "landed")
        BY <1>1, <2>1 DEF StepRecord, StepKnows
      <3> QED
        BY <1>3, <3>1, ChildSet DEF c
    <2>2. CASE c.status = "running" /\ n = [c EXCEPT !.status = "failed"]
      <3>1. n \in StepRecord /\ StepKnows(n) /\ (c.tx = "landed" => n.tx = "landed")
        BY <1>1, <2>2 DEF StepRecord, StepKnows
      <3> QED
        BY <1>3, <3>1, ChildSet DEF c
    <2>3. CASE c.status = "running" /\ n = [c EXCEPT !.status = "sent", !.tx = "sent"]
      <3>1. n \in StepRecord /\ StepKnows(n) /\ (c.tx = "landed" => n.tx = "landed")
        BY <1>1, <2>3 DEF StepRecord, StepKnows
      <3> QED
        BY <1>3, <3>1, ChildSet DEF c
    <2>4. CASE c.tx = "landed" /\ c.status \in {"sent", "parked"} /\ n = [c EXCEPT !.status = "succeeded"]
      <3>1. n \in StepRecord /\ StepKnows(n) /\ (c.tx = "landed" => n.tx = "landed")
        BY <1>1, <2>4 DEF StepRecord, StepKnows
      <3> QED
        BY <1>3, <3>1, ChildSet DEF c
    <2>5. CASE c.status = "sent" /\ n = [c EXCEPT !.status = "parked"]
      <3>1. n \in StepRecord /\ StepKnows(n) /\ (c.tx = "landed" => n.tx = "landed")
        BY <1>1, <2>5 DEF StepRecord, StepKnows
      <3> QED
        BY <1>3, <3>1, ChildSet DEF c
    <2>6. CASE c.tx = "sent" /\ n = [c EXCEPT !.tx = "landed", !.landed = @ + 1]
      <3>1. c.landed = 0 /\ n.landed = 1 /\ n.tx = "landed" /\ n.status = c.status
        BY <1>1, <2>6 DEF StepRecord, StepKnows
      <3>3. n \in StepRecord
        <4>1. n = [c EXCEPT !.tx = "landed", !.landed = 1]
          BY <2>6, <3>1
        <4> QED
          BY <1>1, <4>1 DEF StepRecord
      <3>4. c.status \in {"sent", "parked"}
        BY <1>1, <2>6 DEF StepRecord, StepKnows
      <3>2. n \in StepRecord /\ StepKnows(n)
        BY <3>1, <3>3, <3>4 DEF StepKnows
      <3> QED
        BY <1>3, <3>1, <3>2, ChildSet DEF c
    <2>7. CASE c.status = "parked" /\ c.tx # "landed" /\ n = [c EXCEPT !.status = "failed", !.tx = "expired"]
      <3>1. n \in StepRecord /\ StepKnows(n)
        BY <1>1, <2>7 DEF StepRecord, StepKnows
      <3> QED
        BY <1>3, <2>7, <3>1, ChildSet DEF c
    <2> QED
      BY <1>3, <2>1, <2>2, <2>3, <2>4, <2>5, <2>6, <2>7
  <1>4. CASE Flows!executeStep(p, s)
    BY <1>3, <1>4 DEF Flows!executeStep, Flows!SetChild
  <1>5. CASE Flows!landTx(p, s)
    BY <1>3, <1>5 DEF Flows!landTx, Flows!SetChild
  <1>6. CASE Flows!settleStep(p, s)
    BY <1>3, <1>6 DEF Flows!settleStep, Flows!SetChild
  <1> QED
    BY <1>2, <1>4, <1>5, <1>6

\* What is on chain of a workflow stays so while its list of steps stays.
LEMMA LandedKept ==
    ASSUME ParentShape, LandedStays, NEW p \in WorkflowJobs, parent'[p].steps = parent[p].steps
    PROVE  /\ AllLanded(p) => AllLanded(p)'
           /\ \A k : LandedTo(p, k) => LandedTo(p, k)'
  <1>1. \A i \in DOMAIN parent[p].steps : parent[p].steps[i] \in Flows!Steps
    BY DEF ParentShape, ParentRecord
  <1> QED
    BY <1>1 DEF AllLanded, LandedTo, LandedStays

\* A workflow whose own row and proof row stay keeps what it knows.
LEMMA OthersKnow ==
    ASSUME StepShape, ParentShape, LandedStays, NEW p \in WorkflowJobs, ParentKnows(p),
           parent'[p] = parent[p], proofRow'[p] = proofRow[p]
    PROVE  ParentKnows(p)'
  <1>1. /\ AllLanded(p) => AllLanded(p)'
        /\ \A k : LandedTo(p, k) => LandedTo(p, k)'
    BY LandedKept
  <1> QED
    BY <1>1 DEF ParentKnows

\* One workflow gets the row n.
LEMMA ParentSet ==
    ASSUME WInv, NEW p \in WorkflowJobs, NEW n \in ParentRecord, parent' = [parent EXCEPT ![p] = n],
           proofRow' \in [WorkflowJobs -> {"none", "open", "proven"}], \A q \in WorkflowJobs \ {p} : proofRow'[q] = proofRow[q],
           UNCHANGED <<build, workflowClock>>, StepShape', LandedStays, ParentKnows(p)'
    PROVE  WInv'
  <1>1. ParentShape'
    BY DEF WInv, ParentShape
  <1>2. ASSUME NEW q \in WorkflowJobs, q # p PROVE ParentKnows(q)'
    BY <1>2, OthersKnow DEF WInv, ParentShape
  <1> QED
    BY <1>1, <1>2 DEF WInv

\* The running process stops working on the workflow: parked or failed.
LEMMA ParentLeaves ==
    ASSUME WInv, NEW p \in WorkflowJobs, parent[p].status # "none",
           Flows!Park(p) \/ \E code \in Codes : Flows!Fail(p, code), UNCHANGED <<child, proofRow, build, workflowClock>>
    PROVE  WInv'
  <1> DEFINE old == parent[p]
  <1>1. old \in ParentRecord /\ ParentKnows(p)
    BY DEF WInv, ParentShape
  <1>2. PICK n : parent' = [parent EXCEPT ![p] = n] /\ n \in ParentRecord /\ n.status \in {"parked", "failed"} /\ n.steps = old.steps
    <2>1. CASE Flows!Park(p)
      <3> DEFINE n == [old EXCEPT !.status = "parked", !.doing = "none"]
      <3>1. n \in ParentRecord /\ n.status = "parked" /\ n.steps = old.steps
        BY <1>1 DEF ParentRecord
      <3>2. parent' = [parent EXCEPT ![p] = n]
        BY <2>1 DEF Flows!Park
      <3> QED
        BY <3>1, <3>2
    <2>2. ASSUME NEW code \in Codes, Flows!Fail(p, code) 
          PROVE \E n : parent' = [parent EXCEPT ![p] = n] /\ n \in ParentRecord /\ n.status \in {"parked", "failed"} /\ n.steps = old.steps
      <3> DEFINE n == [old EXCEPT !.status = "failed", !.code = code, !.doing = "none"]
      <3>1. n \in ParentRecord /\ n.status = "failed" /\ n.steps = old.steps
        BY <1>1 DEF ParentRecord
      <3>2. parent' = [parent EXCEPT ![p] = n]
        BY <2>2 DEF Flows!Fail
      <3> QED
        BY <3>1, <3>2
    <2> QED
      BY <2>1, <2>2
  <1>3. parent'[p] = n
    BY <1>2 DEF WInv, ParentShape
  <1>4. ParentKnows(p)'
    BY <1>1, <1>2, <1>3 DEF ParentKnows, AllLanded
  <1> QED
    BY <1>2, <1>4, ParentSet, ChildKept DEF WInv, ParentShape

\* The remaining steps of a workflow, one by one.
LEMMA StartJobWithRowsStep ==
    ASSUME WInv, NEW p \in WorkflowJobs, Flows!startJobWithRows(p)
    PROVE  WInv'
  <1>1. PICK c \in Flows!Commands :
           parent' = [parent EXCEPT ![p] = [Flows!NoParent EXCEPT !.status = "pending", !.steps = c.steps, !.given = c.given,
                                                                 !.granted = c.granted, !.build = build]]
    BY DEF Flows!startJobWithRows
  <1> DEFINE n == [Flows!NoParent EXCEPT !.status = "pending", !.steps = c.steps, !.given = c.given,
                                         !.granted = c.granted, !.build = build]
  <1>2. n \in ParentRecord /\ n.status = "pending" /\ n.steps # <<>>
    BY CommandFacts DEF ParentRecord, Codes, Flows!NoParent, WInv, ParentShape
  <1>3. parent'[p] = n
    BY <1>1 DEF WInv, ParentShape
  <1>4. proofRow' = [proofRow EXCEPT ![p] = "open"] /\ proofRow'[p] = "open"
    BY DEF Flows!startJobWithRows, WInv, ParentShape
  <1>5. ParentKnows(p)'
    BY <1>2, <1>3, <1>4 DEF ParentKnows
  <1>6. UNCHANGED <<child, build, workflowClock>>
    BY DEF Flows!startJobWithRows
  <1> QED
    BY <1>1, <1>2, <1>4, <1>5, <1>6, ParentSet, ChildKept DEF WInv, ParentShape

\* A step that gives the workflow's row other values of code, at and doing, and leaves the rest alone.
LEMMA DispatchStep ==
    ASSUME WInv, NEW p \in WorkflowJobs, Flows!dispatchJob(p)
    PROVE  WInv'
  <1> DEFINE old == parent[p]
             n == [old EXCEPT !.status = "running", !.at = 1, !.doing = "start"]
  <1>1. old \in ParentRecord /\ ParentKnows(p) /\ old.status = "pending" /\ UNCHANGED <<child, proofRow, build, workflowClock>>
    BY DEF WInv, ParentShape, Flows!dispatchJob
  <1>2. CASE Flows!Fail(p, "refused")
    BY <1>1, <1>2, ParentLeaves DEF Codes
  <1>3. CASE parent' = [parent EXCEPT ![p] = n]
    <2>1. n \in ParentRecord /\ n.status = "running" /\ n.at = 1 /\ n.doing = "start" /\ n.steps = old.steps
      BY <1>1 DEF ParentRecord
    <2>2. parent'[p] = n
      BY <1>3 DEF WInv, ParentShape
    <2>3. 1 \in DOMAIN old.steps /\ old.steps \in Seq(Flows!Steps)
      <3>1. old.steps \in Seq(Flows!Steps) /\ old.steps # <<>>
        BY <1>1 DEF ParentRecord, ParentKnows
      <3> QED
        BY <3>1, EmptySeq
    <2>4. LandedTo(p, 0)'
      BY <2>1, <2>2, <2>3 DEF LandedTo
    <2>5. ParentKnows(p)'
      BY <1>1, <2>1, <2>2, <2>3, <2>4 DEF ParentKnows, AllLanded
    <2> QED
      BY <1>1, <1>3, <2>1, <2>5, ParentSet, ChildKept DEF WInv, ParentShape
  <1> QED
    BY <1>2, <1>3 DEF Flows!dispatchJob

LEMMA RunChildCommandStep ==
    ASSUME WInv, NEW p \in WorkflowJobs, Flows!runChildCommand(p)
    PROVE  WInv'
  <1> DEFINE old == parent[p]
             s == Flows!StepOf(p)
             n == [old EXCEPT !.doing = "wait"]
  <1>1. /\ old \in ParentRecord /\ ParentKnows(p) /\ old.status = "running" /\ old.doing = "start"
        /\ UNCHANGED <<proofRow, build, workflowClock>>
    BY DEF WInv, ParentShape, Flows!runChildCommand, Flows!Running
  <1>2. s \in Flows!Steps
    BY <1>1 DEF ParentRecord, ParentKnows, Flows!StepOf
  <1>3. CASE Flows!Fail(p, "conflict") /\ child' = child
    BY <1>1, <1>3, ParentLeaves DEF Codes
  <1>4. CASE /\ parent' = [parent EXCEPT ![p].doing = "wait"]
             /\ child' = child \/ (Flows!dedupExisting(p) = "none" /\ child' = Flows!startJob(p))
    <2>1. StepShape' /\ LandedStays
      <3>1. CASE child' = child
        BY <3>1, ChildKept DEF WInv
      <3>2. CASE Flows!dedupExisting(p) = "none" /\ child' = Flows!startJob(p)
        <4> DEFINE c == [child[p][s] EXCEPT !.status = "pending", !.stamp = Flows!stampOf(p), !.build = Flows!digestOfStep(p), !.tx = "none"]
        <4>1. child[p][s] \in StepRecord /\ StepKnows(child[p][s]) /\ child[p][s].status = "none"
          BY <1>2, <3>2 DEF Flows!dedupExisting, WInv, StepShape
        <4>2. Flows!stampOf(p) \in Int /\ Flows!digestOfStep(p) \in Int
          BY <1>1 DEF Flows!stampOf, Flows!claimValidUntil, Flows!digestOfStep, WInv, ParentShape, ParentRecord
        <4> HIDE DEF s
        <4>3. c \in StepRecord /\ StepKnows(c) /\ child[p][s].tx # "landed"
          BY <4>1, <4>2 DEF StepRecord, StepKnows
        <4>4. child' = [child EXCEPT ![p][s] = c]
          BY <3>2 DEF Flows!startJob, s
        <4> QED
          BY <1>2, <4>3, <4>4, ChildSet DEF WInv
      <3> QED
        BY <1>4, <3>1, <3>2
    <2>2. n \in ParentRecord /\ n.status = "running" /\ n.doing = "wait" /\ n.steps = old.steps /\ n.at = old.at
      BY <1>1 DEF ParentRecord
    <2>3. parent' = [parent EXCEPT ![p] = n] /\ parent'[p] = n
      BY <1>4 DEF WInv, ParentShape
    <2>4. /\ AllLanded(p) => AllLanded(p)'
          /\ \A k : LandedTo(p, k) => LandedTo(p, k)'
      BY <2>1, <2>2, <2>3, LandedKept DEF WInv
    <2>5. ParentKnows(p)'
      BY <1>1, <2>2, <2>3, <2>4 DEF ParentKnows, LandedTo
    <2> QED
      BY <1>1, <2>1, <2>2, <2>3, <2>5, ParentSet DEF WInv, ParentShape
  <1>5. Flows!dedupExisting(p) \in {"none", "found", "conflict"}
    BY DEF Flows!dedupExisting
  <1>6. CASE Flows!dedupExisting(p) = "conflict"
    BY <1>3, <1>6 DEF Flows!runChildCommand
  <1>7. CASE Flows!dedupExisting(p) = "found"
    BY <1>4, <1>7 DEF Flows!runChildCommand
  <1>8. CASE Flows!dedupExisting(p) = "none"
    BY <1>4, <1>8 DEF Flows!runChildCommand
  <1> QED
    BY <1>5, <1>6, <1>7, <1>8

LEMMA ChildEndedStep ==
    ASSUME WInv, NEW p \in WorkflowJobs, Flows!childEnded(p)
    PROVE  WInv'
  <1> DEFINE old == parent[p]
             s == Flows!StepOf(p)
  <1>1. /\ old \in ParentRecord /\ ParentKnows(p) /\ old.status = "running" /\ old.doing = "wait"
        /\ UNCHANGED <<child, proofRow, build, workflowClock>>
    BY DEF WInv, ParentShape, Flows!childEnded, Flows!Running
  <1>2. CASE Flows!Park(p) \/ Flows!Fail(p, "child")
    BY <1>1, <1>2, ParentLeaves DEF Codes
  <1>3. ASSUME NEW at, NEW doing, child[p][s].status = "succeeded",
               at = (IF old.at < Len(old.steps) THEN old.at + 1 ELSE old.at),
               doing = (IF old.at < Len(old.steps) THEN "start" ELSE "record"),
               parent' = [parent EXCEPT ![p].at = at, ![p].doing = doing]
        PROVE  WInv'
    <2>1. old.at \in DOMAIN old.steps /\ LandedTo(p, old.at - 1) /\ old.steps \in Seq(Flows!Steps) /\ old.at \in Nat
      BY <1>1 DEF ParentKnows, ParentRecord
    <2>2. child[p][s].tx = "landed"
      BY <1>3, <2>1 DEF WInv, StepShape, StepKnows, Flows!StepOf
    <2>3. LandedTo(p, old.at)
      BY <2>1, <2>2 DEF LandedTo, Flows!StepOf
    <2>4. at \in DOMAIN old.steps /\ at \in Nat /\ at - 1 <= old.at /\ doing \in {"start", "record"}
      BY <1>3, <2>1
    <2>5. doing = "record" => AllLanded(p)
      BY <1>3, <2>1, <2>3 DEF LandedTo, AllLanded
    <2> DEFINE n == [old EXCEPT !.at = at, !.doing = doing]
    <2>6. n \in ParentRecord /\ n.status = "running" /\ n.steps = old.steps /\ n.at = at /\ n.doing = doing
      BY <1>1, <2>4 DEF ParentRecord
    <2>7. parent' = [parent EXCEPT ![p] = n] /\ parent'[p] = n
      BY <1>3 DEF WInv, ParentShape
    <2> HIDE DEF n
    <2>8. LandedTo(p, at - 1)' /\ (doing = "record" => AllLanded(p)')
      BY <1>1, <2>1, <2>3, <2>4, <2>5, <2>6, <2>7 DEF LandedTo, AllLanded
    <2>9. ParentKnows(p)'
      <3>1. parent'[p].status = "running" /\ parent'[p].steps # <<>> /\ parent'[p].at = at /\ parent'[p].doing = doing
            /\ at \in DOMAIN parent'[p].steps
        BY <1>1, <2>4, <2>6, <2>7 DEF ParentKnows
      <3>2. proofRow'[p] = "proven" => AllLanded(p)'
        BY <1>1, <2>6, <2>7 DEF ParentKnows, AllLanded
      <3> QED
        BY <2>4, <2>8, <3>1, <3>2 DEF ParentKnows
    <2> QED
      BY <1>1, <2>6, <2>7, <2>9, ParentSet, ChildKept DEF WInv, ParentShape
  <1> QED
    BY <1>2, <1>3 DEF Flows!childEnded

LEMMA RecordSteps ==
    ASSUME WInv, NEW p \in WorkflowJobs, Flows!recordProven(p) \/ Flows!markSucceeded(p)
    PROVE  WInv'
  <1> DEFINE old == parent[p]
  <1>1. /\ old \in ParentRecord /\ ParentKnows(p) /\ old.status = "running" /\ old.doing \in {"record", "finish"}
        /\ UNCHANGED <<child, build, workflowClock>>
    BY DEF WInv, ParentShape, Flows!recordProven, Flows!markSucceeded, Flows!Running
  <1>2. AllLanded(p)
    BY <1>1 DEF ParentKnows
  <1>3. CASE (Flows!Park(p) \/ Flows!Fail(p, "persist")) /\ proofRow' = proofRow
    BY <1>1, <1>3, ParentLeaves DEF Codes
  <1>4. CASE proofRow' = [proofRow EXCEPT ![p] = "proven"] /\ parent' = [parent EXCEPT ![p].doing = "finish"]
    <2> DEFINE n == [old EXCEPT !.doing = "finish"]
    <2>1. n \in ParentRecord /\ n.status = "running" /\ n.doing = "finish" /\ n.steps = old.steps /\ n.at = old.at
      BY <1>1 DEF ParentRecord
    <2>2. parent' = [parent EXCEPT ![p] = n] /\ parent'[p] = n /\ proofRow'[p] = "proven"
      BY <1>4 DEF WInv, ParentShape
    <2>3. AllLanded(p)' /\ LandedTo(p, n.at - 1)'
      BY <1>1, <1>2, <2>1, <2>2 DEF AllLanded, LandedTo
    <2>4. ParentKnows(p)'
      BY <1>1, <2>1, <2>2, <2>3 DEF ParentKnows
    <2> QED
      BY <1>1, <1>4, <2>1, <2>2, <2>4, ParentSet, ChildKept DEF WInv, ParentShape
  <1>5. CASE proofRow' = proofRow /\ old.doing = "finish" /\ parent' = [parent EXCEPT ![p].status = "succeeded", ![p].doing = "none"]
    <2> DEFINE n == [old EXCEPT !.status = "succeeded", !.doing = "none"]
    <2>1. n \in ParentRecord /\ n.status = "succeeded" /\ n.steps = old.steps
      BY <1>1 DEF ParentRecord
    <2>2. parent' = [parent EXCEPT ![p] = n] /\ parent'[p] = n
      BY <1>5 DEF WInv, ParentShape
    <2>3. AllLanded(p)'
      BY <1>1, <1>2, <2>1, <2>2 DEF AllLanded
    <2>4. ParentKnows(p)'
      BY <1>1, <1>5, <2>1, <2>2, <2>3 DEF ParentKnows
    <2> QED
      BY <1>1, <1>5, <2>1, <2>2, <2>4, ParentSet, ChildKept DEF WInv, ParentShape
  <1> QED
    BY <1>3, <1>4, <1>5 DEF Flows!recordProven, Flows!markSucceeded, Flows!Running

LEMMA ReconcileStep ==
    ASSUME WInv, NEW p \in WorkflowJobs, Flows!reconcileBackgroundJobs(p)
    PROVE  WInv'
  <1> DEFINE old == parent[p]
             n == [old EXCEPT !.status = "pending"]
  <1>1. old \in ParentRecord /\ ParentKnows(p) /\ old.status = "parked" /\ UNCHANGED <<child, proofRow, build, workflowClock>>
    BY DEF WInv, ParentShape, Flows!reconcileBackgroundJobs
  <1>2. CASE Flows!Fail(p, "child")
    BY <1>1, <1>2, ParentLeaves DEF Codes
  <1>3. CASE parent' = [parent EXCEPT ![p] = n]
    <2>1. n \in ParentRecord /\ n.status = "pending" /\ n.steps = old.steps
      BY <1>1 DEF ParentRecord
    <2>2. parent'[p] = n
      BY <1>3 DEF WInv, ParentShape
    <2>3. ParentKnows(p)'
      BY <1>1, <2>1, <2>2 DEF ParentKnows, AllLanded
    <2> QED
      BY <1>1, <1>3, <2>1, <2>3, ParentSet, ChildKept DEF WInv, ParentShape
  <1> QED
    BY <1>2, <1>3 DEF Flows!reconcileBackgroundJobs

\* A restart queues what ran and parks what was sent.
LEMMA RestartStep ==
    ASSUME WInv, Flows!recoverInterruptedJobs
    PROVE  WInv'
  <1>1. PICK closed \in SUBSET WorkflowJobs :
         /\ parent' = [p \in WorkflowJobs |->
              IF parent[p].status \in {"pending", "running"}
                THEN [parent[p] EXCEPT !.status = IF p \in closed THEN "failed" ELSE "pending", !.code = IF p \in closed THEN "session" ELSE @, !.doing = "none"]
                ELSE parent[p]]
         /\ child' = [p \in WorkflowJobs |-> [s \in Flows!Steps |->
              CASE child[p][s].status \in {"pending", "running"} -> [child[p][s] EXCEPT !.status = IF p \in closed THEN "failed" ELSE "pending"]
                [] child[p][s].status = "sent" -> [child[p][s] EXCEPT !.status = "parked"]
                [] OTHER -> child[p][s]]]
    BY DEF Flows!recoverInterruptedJobs
  <1>2. UNCHANGED <<proofRow, build, workflowClock>>
    BY DEF Flows!recoverInterruptedJobs
  <1>3. ASSUME NEW p \in WorkflowJobs, NEW s \in Flows!Steps
        PROVE  child'[p][s] \in StepRecord /\ StepKnows(child'[p][s]) /\ child'[p][s].tx = child[p][s].tx
    <2>1. child[p][s] \in StepRecord /\ StepKnows(child[p][s])
      BY DEF WInv, StepShape
    <2>2. child'[p][s] = CASE child[p][s].status \in {"pending", "running"} -> [child[p][s] EXCEPT !.status = IF p \in closed THEN "failed" ELSE "pending"]
                           [] child[p][s].status = "sent" -> [child[p][s] EXCEPT !.status = "parked"]
                           [] OTHER -> child[p][s]
      BY <1>1
    <2> DEFINE c == child[p][s]
               n == child'[p][s]
    <2> HIDE DEF c, n
    <2>3. c \in StepRecord /\ StepKnows(c)
      BY <2>1 DEF c
    <2>4. \/ c.status \in {"pending", "running"} /\ n = [c EXCEPT !.status = "failed"]
          \/ c.status \in {"pending", "running"} /\ n = [c EXCEPT !.status = "pending"]
          \/ c.status = "sent" /\ n = [c EXCEPT !.status = "parked"]
          \/ n = c
      BY <2>2 DEF c, n
    <2>5. n \in StepRecord /\ n.tx = c.tx /\ n.landed = c.landed
      BY <2>3, <2>4 DEF StepRecord
    <2>6. \/ c.status \in {"pending", "running"} /\ n.status \in {"failed", "pending"}
          \/ c.status = "sent" /\ n.status = "parked"
          \/ n.status = c.status
      BY <2>3, <2>4 DEF StepRecord
    <2>7. StepKnows(n)
      BY <2>3, <2>5, <2>6 DEF StepKnows
    <2> QED
      BY <2>5, <2>7 DEF c, n
  <1>4. StepShape' /\ LandedStays
    BY <1>1, <1>3 DEF StepShape, LandedStays
  <1>5. ASSUME NEW p \in WorkflowJobs
        PROVE  parent'[p] \in ParentRecord /\ ParentKnows(p)'
    <2> DEFINE old == parent[p]
               code == IF p \in closed THEN "session" ELSE old.code
               status == IF p \in closed THEN "failed" ELSE "pending"
               n == [old EXCEPT !.status = status, !.code = code, !.doing = "none"]
    <2>1. old \in ParentRecord /\ ParentKnows(p) /\ proofRow'[p] = proofRow[p]
      BY <1>2 DEF WInv, ParentShape
    <2>2. CASE old.status \in {"pending", "running"}
      <3>1. parent'[p] = n
        BY <1>1, <2>2
      <3>2. code \in Codes /\ status \in {"failed", "pending"}
        BY <2>1 DEF ParentRecord, Codes
      <3> HIDE DEF code, status
      <3>3. n \in ParentRecord /\ n.status \in {"failed", "pending"} /\ n.steps = old.steps
        BY <2>1, <3>2 DEF ParentRecord
      <3>4. AllLanded(p) => AllLanded(p)'
        BY <1>4, <3>1, <3>3, LandedKept DEF WInv
      <3>5. ParentKnows(p)'
        BY <2>1, <2>2, <3>1, <3>3, <3>4 DEF ParentKnows
      <3> QED
        BY <3>1, <3>3, <3>5
    <2>3. CASE old.status \notin {"pending", "running"}
      <3>1. parent'[p] = old
        BY <1>1, <2>3
      <3> QED
        BY <1>4, <2>1, <3>1, OthersKnow DEF WInv
    <2> QED
      BY <2>2, <2>3
  <1>6. ParentShape'
    BY <1>1, <1>2, <1>5 DEF WInv, ParentShape
  <1> QED
    BY <1>4, <1>5, <1>6 DEF WInv

LEMMA WorkflowStepInv == WInv /\ Flows!WorkflowNext => WInv'
  <1> SUFFICES ASSUME WInv, Flows!WorkflowNext PROVE WInv'
    OBVIOUS
  <1>1. ASSUME NEW p \in WorkflowJobs,
               \/ Flows!startJobWithRows(p) \/ Flows!dispatchJob(p) \/ Flows!runChildCommand(p) \/ Flows!admissionBusy(p)
               \/ Flows!childEnded(p) \/ Flows!childWaitTimesOut(p) \/ Flows!recordProven(p) \/ Flows!markSucceeded(p)
               \/ Flows!reconcileBackgroundJobs(p)
        PROVE  WInv'
    <2>1. CASE Flows!admissionBusy(p)
      BY <2>1, ParentLeaves DEF Flows!admissionBusy, Flows!Running, Codes
    <2>2. CASE Flows!childWaitTimesOut(p)
      BY <2>2, ParentLeaves DEF Flows!childWaitTimesOut, Flows!Running
    <2> QED
      BY <1>1, <2>1, <2>2, StartJobWithRowsStep, DispatchStep, RunChildCommandStep, ChildEndedStep, RecordSteps, ReconcileStep
  <1>2. ASSUME NEW p \in WorkflowJobs, NEW s \in Flows!Steps,
               Flows!executeStep(p, s) \/ Flows!landTx(p, s) \/ Flows!settleStep(p, s)
        PROVE  WInv'
    <2>1. StepShape' /\ LandedStays /\ UNCHANGED <<parent, proofRow, build, workflowClock>>
      BY <1>2, ChildSteps DEF WInv
    <2> QED
      BY <2>1, OthersKnow DEF WInv, ParentShape
  <1>3. CASE Flows!registerContract \/ Flows!revokeAgentGrant \/ Flows!Tick
    <2>1. UNCHANGED <<parent, child, proofRow>> /\ build' \in Int /\ workflowClock' \in Int
      BY <1>3 DEF Flows!registerContract, Flows!revokeAgentGrant, Flows!Tick, WInv, ParentShape
    <2> QED
      BY <2>1, ChildKept, OthersKnow DEF WInv, ParentShape
  <1> QED
    BY <1>1, <1>2, <1>3, RestartStep DEF Flows!WorkflowNext

WorkflowPart == part = "workflows" => WInv

LEMMA WorkflowPartHolds == Spec => []WorkflowPart
  <1>1. Init => WorkflowPart
    BY WorkflowInitInv DEF Init, WorkflowPart
  <1>2. WorkflowPart /\ [Next]_vars => WorkflowPart'
    <2> SUFFICES ASSUME WorkflowPart, [Next]_vars PROVE WorkflowPart'
      OBVIOUS
    <2>1. CASE UNCHANGED <<part, workflowVars>>
      BY <2>1 DEF WorkflowPart, WInv, StepShape, ParentShape, ParentKnows, LandedTo, AllLanded, workflowVars
    <2>2. CASE Only("workflows") /\ Flows!WorkflowNext
      BY <2>2, WorkflowStepInv DEF WorkflowPart, Only
    <2>3. CASE part # "workflows" /\ part' = part
      BY <2>3 DEF WorkflowPart
    <2>4. part = "workflows" /\ Next => Only("workflows") /\ Flows!WorkflowNext
      BY DEF Next, Only
    <2>5. Next => part' = part
      BY DEF Next, Only
    <2>6. UNCHANGED vars => UNCHANGED <<part, workflowVars>>
      BY DEF vars
    <2> QED
      BY <2>1, <2>2, <2>3, <2>4, <2>5, <2>6
  <1> QED
    BY <1>1, <1>2, PTL DEF Spec

\* Whatever parks, restarts and re-runs workflows go through, a step lands on chain at most once
\* (runChildCommand, recoverInterruptedJobs).
THEOREM StepLandsOnceAlways == Spec => []StepLandsOnce
  <1>1. WorkflowPart => StepLandsOnce
    BY DEF WorkflowPart, WInv, StepShape, StepKnows, StepLandsOnce, Flows!StepLandsOnce
  <1> QED
    BY <1>1, WorkflowPartHolds, PTL

\* A workflow that succeeded has its proof recorded and all its steps on chain (recordProven, markSucceeded,
\* reconcileBackgroundJobs).
THEOREM SucceededIsProvenAlways == Spec => []SucceededIsProven
  <1>1. WorkflowPart => SucceededIsProven
    BY DEF WorkflowPart, WInv, ParentKnows, AllLanded, SucceededIsProven, Flows!SucceededIsProven
  <1> QED
    BY <1>1, WorkflowPartHolds, PTL

-----------------------------------------------------------------------------
(* Swap offers.                                                            *)

OfferJobRecord == [step : {"new", "loading", "queued", "landed", "matching", "closing", "ended", "refused"},
                   offer : OfferIds \cup {"none"}, coins : SUBSET Board!Coins, hit : SUBSET OfferIds]

RetireRecord == [step : {"new", "loaded", "closed", "reload", "answered"}, offer : OfferIds \cup {"none"},
                 status : Board!Statuses \cup {"none"}, answer : Board!Statuses \cup {"none"}]

BoardShape == /\ offerRow \in [OfferIds -> [status : Board!Statuses, tx : OfferJobs \cup {"none"}]]
              /\ offerSpent \in [Board!Coins -> OfferJobs \cup {"none"}]
              /\ offerJob \in [OfferJobs -> OfferJobRecord]
              /\ caller \in [RetireCalls -> RetireRecord]
              /\ offerClock \in 1..OfferSeconds /\ offerRestarts \in 0..OfferRestarts

\* A job spends the coins of the offer it names; once it landed they are spent by it, and the offers it
\* found share one of them.
OfferJobKnows(j) ==
    LET b == offerJob[j] IN
    /\ b.step = "new" => b.offer = "none"
    /\ b.step = "loading" => b.offer \in OfferIds
    /\ b.step \in {"queued", "landed", "matching", "closing"} /\ b.offer # "none" => OfferCoins[b.offer] \subseteq b.coins
    /\ b.step \in {"landed", "matching", "closing"} => \A n \in b.coins : offerSpent[n] = j
    /\ b.step = "closing" => \A o \in b.hit : OfferCoins[o] \cap b.coins # {}

ClosedRow(o) == offerRow[o].status \in {"filled", "retired", "expired"}

\* A call that closed its offer, or found it closed, has a closed row from then on.
RetireKnows(c) ==
    LET r == caller[c] IN
    /\ r.step # "new" => r.offer \in OfferIds /\ offerRow[r.offer].status # "unposted"
    /\ r.step \in {"closed", "reload", "answered"} => ClosedRow(r.offer)
    /\ r.step = "closed" /\ Board!isSwapOfferOpen(r.offer, r.status) => offerRow[r.offer].status = "retired"
    /\ r.step = "answered" /\ r.answer \in {"filled", "retired"} => offerRow[r.offer].status = r.answer

BInv == /\ BoardShape
        /\ \A j \in OfferJobs : OfferJobKnows(j)
        /\ \A c \in RetireCalls : RetireKnows(c)
        /\ Board!FilledIsSpent

LEMMA OfferInitInv == Board!OfferInit => BInv
  <1> SUFFICES ASSUME Board!OfferInit PROVE BInv
    OBVIOUS
  <1>1. BoardShape
    BY OfferAssumption DEF Board!OfferInit, BoardShape, OfferJobRecord, RetireRecord, Board!NewJob, Board!NewCall, Board!None, Board!Statuses
  <1>2. \A j \in OfferJobs : OfferJobKnows(j)
    BY DEF Board!OfferInit, OfferJobKnows, Board!NewJob, Board!None
  <1>3. \A c \in RetireCalls : RetireKnows(c)
    BY DEF Board!OfferInit, RetireKnows, Board!NewCall, Board!None
  <1>4. Board!FilledIsSpent
    BY DEF Board!OfferInit, Board!FilledIsSpent
  <1> QED
    BY <1>1, <1>2, <1>3, <1>4 DEF BInv

\* A closed offer stays as it is and a posted one stays posted.
RowsStay == \A o \in OfferIds : /\ ClosedRow(o) => offerRow'[o] = offerRow[o]
                                /\ offerRow[o].status # "unposted" => offerRow'[o].status # "unposted"

\* A spent coin stays spent by the same job.
SpentStays == \A n \in Board!Coins : offerSpent[n] # "none" => offerSpent'[n] = offerSpent[n]

\* What every step of the board does: it keeps closed rows, spent coins and the clock, and fills an offer
\* with a job that spent one of its coins.
LEMMA BoardStep ==
    ASSUME BInv, BoardShape', RowsStay, SpentStays, offerClock <= offerClock',
           \A j \in OfferJobs : offerJob'[j] = offerJob[j] \/ OfferJobKnows(j)',
           \A c \in RetireCalls : caller'[c] = caller[c] \/ RetireKnows(c)',
           \A o \in OfferIds : offerRow'[o].status = "filled" =>
              offerRow'[o] = offerRow[o] \/ \E n \in OfferCoins[o] : offerSpent'[n] # "none" /\ offerSpent'[n] = offerRow'[o].tx
    PROVE  BInv'
  <1>1. ASSUME NEW j \in OfferJobs PROVE OfferJobKnows(j)'
    <2>1. CASE offerJob'[j] = offerJob[j]
      <3> DEFINE b == offerJob[j]
      <3>1. b \in OfferJobRecord /\ OfferJobKnows(j) /\ j # "none"
        BY OfferAssumption DEF BInv, BoardShape
      <3>2. b.step \in {"landed", "matching", "closing"} => \A n \in b.coins : offerSpent'[n] = j
        BY <3>1 DEF OfferJobKnows, SpentStays, OfferJobRecord
      <3> QED
        BY <2>1, <3>1, <3>2 DEF OfferJobKnows
    <2> QED
      BY <1>1, <2>1
  <1>2. ASSUME NEW c \in RetireCalls PROVE RetireKnows(c)'
    <2>1. CASE caller'[c] = caller[c]
      <3> DEFINE r == caller[c]
      <3>1. r \in RetireRecord /\ RetireKnows(c)
        BY DEF BInv, BoardShape
      <3>2. ASSUME r.step # "new"
            PROVE  /\ r.offer \in OfferIds /\ offerRow'[r.offer].status # "unposted"
                   /\ ClosedRow(r.offer) => offerRow'[r.offer] = offerRow[r.offer]
        BY <3>1, <3>2 DEF RetireKnows, RowsStay
      <3>3. ASSUME r.step # "new", Board!isSwapOfferOpen(r.offer, r.status)'
            PROVE  Board!isSwapOfferOpen(r.offer, r.status)
        <4>1. OfferExpiry[r.offer] \in Nat /\ offerClock \in Int /\ offerClock' \in Int
          BY <3>2, <3>3, OfferAssumption DEF BInv, BoardShape
        <4> QED
          BY <2>1, <3>3, <4>1 DEF Board!isSwapOfferOpen, Board!Passed
      <3> QED
        BY <2>1, <3>1, <3>2, <3>3 DEF RetireKnows, ClosedRow
    <2> QED
      BY <1>2, <2>1
  <1>3. Board!FilledIsSpent'
    <2> SUFFICES ASSUME NEW o \in OfferIds, offerRow'[o].status = "filled"
                 PROVE  \E n \in OfferCoins[o] : offerSpent'[n] # "none" /\ offerSpent'[n] = offerRow'[o].tx
      BY DEF Board!FilledIsSpent, Board!None
    <2>1. CASE offerRow'[o] = offerRow[o]
      <3>1. PICK n \in OfferCoins[o] : offerSpent[n] # "none" /\ offerSpent[n] = offerRow[o].tx
        BY <2>1 DEF BInv, Board!FilledIsSpent, Board!None
      <3>2. n \in Board!Coins
        BY DEF Board!Coins
      <3> QED
        BY <2>1, <3>1, <3>2 DEF SpentStays
    <2> QED
      BY <2>1
  <1> QED
    BY <1>1, <1>2, <1>3 DEF BInv

\* closeSwapOffer writes an open row only.
LEMMA ClosesOpen ==
    ASSUME BoardShape, NEW o \in OfferIds, NEW status \in {"filled", "retired", "expired"}, NEW tx \in OfferJobs \cup {"none"},
           offerRow' = Board!closeSwapOffer(o, status, tx)
    PROVE  /\ offerRow' \in [OfferIds -> [status : Board!Statuses, tx : OfferJobs \cup {"none"}]]
           /\ RowsStay
           /\ offerRow[o].status = "open" => offerRow'[o] = [status |-> status, tx |-> tx]
           /\ \A p \in OfferIds : offerRow'[p] = offerRow[p] \/ (p = o /\ offerRow'[p] = [status |-> status, tx |-> tx])
  <1> DEFINE closed == [status |-> status, tx |-> tx]
  <1>1. closed \in [status : Board!Statuses, tx : OfferJobs \cup {"none"}] /\ closed.status # "unposted"
    BY DEF Board!Statuses
  <1>2. offerRow' = IF offerRow[o].status = "open" THEN [offerRow EXCEPT ![o] = closed] ELSE offerRow
    BY DEF Board!closeSwapOffer
  <1> HIDE DEF closed
  <1>3. \A p \in OfferIds : offerRow'[p] = IF offerRow[o].status = "open" /\ p = o THEN closed ELSE offerRow[p]
    BY <1>2 DEF BoardShape
  <1>4. offerRow' \in [OfferIds -> [status : Board!Statuses, tx : OfferJobs \cup {"none"}]]
    BY <1>1, <1>2 DEF BoardShape
  <1>5. RowsStay
    BY <1>1, <1>3 DEF RowsStay, ClosedRow
  <1> QED
    BY <1>3, <1>4, <1>5 DEF closed

\* One job gets the record n, with the board's rows and coins as they were.
LEMMA OfferJobSet ==
    ASSUME BInv, NEW j \in OfferJobs, NEW n \in OfferJobRecord, offerJob' = [offerJob EXCEPT ![j] = n],
           UNCHANGED <<offerRow, offerSpent, caller, offerClock, offerRestarts>>, OfferJobKnows(j)'
    PROVE  BInv'
  <1>1. BoardShape' /\ RowsStay /\ SpentStays
    BY DEF BInv, BoardShape, RowsStay, SpentStays
  <1>2. \A k \in OfferJobs : k # j => offerJob'[k] = offerJob[k]
    BY DEF BInv, BoardShape
  <1>3. offerClock <= offerClock'
    BY DEF BInv, BoardShape
  <1> QED
    BY <1>1, <1>2, <1>3, BoardStep

\* Posting, retiring and the passing of time.
LEMMA PostStep ==
    ASSUME BInv, NEW o \in OfferIds, Board!postSwapOffer(o)
    PROVE  BInv'
  <1> DEFINE n == [offerRow[o] EXCEPT !.status = "open"]
  <1>1. offerRow' = [offerRow EXCEPT ![o] = n] /\ offerRow[o].status = "unposted"
        /\ UNCHANGED <<offerSpent, offerJob, caller, offerClock, offerRestarts>>
    BY DEF Board!postSwapOffer
  <1>2. n \in [status : Board!Statuses, tx : OfferJobs \cup {"none"}] /\ n.status = "open"
    BY DEF BInv, BoardShape, Board!Statuses
  <1> HIDE DEF n
  <1>3. \A p \in OfferIds : offerRow'[p] = IF p = o THEN n ELSE offerRow[p]
    BY <1>1 DEF BInv, BoardShape
  <1>4. BoardShape' /\ RowsStay /\ SpentStays /\ offerClock <= offerClock'
    BY <1>1, <1>2, <1>3 DEF BInv, BoardShape, RowsStay, SpentStays, ClosedRow
  <1>5. \A p \in OfferIds : offerRow'[p].status = "filled" => offerRow'[p] = offerRow[p]
    BY <1>2, <1>3
  <1> QED
    BY <1>1, <1>4, <1>5, BoardStep

LEMMA RetireSteps ==
    ASSUME BInv, NEW c \in RetireCalls,
           (\E o \in OfferIds : Board!loadToRetire(c, o)) \/ Board!retireSwapOffer(c) \/ Board!answerRetired(c)
    PROVE  BInv'
  <1> DEFINE r == caller[c]
  <1>1. r \in RetireRecord /\ RetireKnows(c) /\ offerClock \in Int /\ BoardShape
    BY DEF BInv, BoardShape
  <1>2. UNCHANGED <<offerSpent, offerJob, offerClock, offerRestarts>> /\ SpentStays /\ offerClock <= offerClock'
    <2>1. UNCHANGED <<offerSpent, offerJob, offerClock, offerRestarts>>
      BY DEF Board!loadToRetire, Board!retireSwapOffer, Board!answerRetired
    <2> QED
      BY <1>1, <2>1 DEF SpentStays
  <1>3. ASSUME NEW n \in RetireRecord, caller' = [caller EXCEPT ![c] = n], offerRow' = offerRow, RetireKnows(c)'
        PROVE  BInv'
    <2>1. BoardShape' /\ RowsStay
      BY <1>2, <1>3 DEF BInv, BoardShape, RowsStay
    <2>2. \A d \in RetireCalls : d # c => caller'[d] = caller[d]
      BY <1>3 DEF BInv, BoardShape
    <2> QED
      BY <1>2, <1>3, <2>1, <2>2, BoardStep
  <1>4. ASSUME NEW o \in OfferIds, Board!loadToRetire(c, o) PROVE BInv'
    <2> DEFINE n == [Board!NewCall EXCEPT !.step = "loaded", !.offer = o, !.status = offerRow[o].status]
    <2>1. n \in RetireRecord /\ n.step = "loaded" /\ n.offer = o
      BY DEF BInv, BoardShape, RetireRecord, Board!NewCall, Board!None
    <2>2. caller' = [caller EXCEPT ![c] = n] /\ offerRow' = offerRow /\ offerRow[o].status # "unposted"
      BY <1>4 DEF Board!loadToRetire
    <2>3. caller'[c] = n
      BY <2>2 DEF BInv, BoardShape
    <2> HIDE DEF n
    <2> QED
      BY <1>3, <2>1, <2>2, <2>3 DEF RetireKnows
  <1>5. CASE Board!retireSwapOffer(c)
    <2> DEFINE o == r.offer
               open == Board!isSwapOfferOpen(o, r.status)
               wanted == IF open THEN "retired" ELSE "expired"
               step == IF offerRow[o].status = "open" THEN "closed" ELSE "reload"
               n == [r EXCEPT !.step = step]
    <2>1. r.step = "loaded" /\ offerRow' = Board!closeSwapOffer(o, wanted, "none") /\ caller' = [caller EXCEPT ![c] = n]
      BY <1>5 DEF Board!retireSwapOffer, Board!None
    <2>2. o \in OfferIds /\ offerRow[o].status # "unposted" /\ offerRow[o].status \in Board!Statuses
      BY <1>1, <2>1 DEF RetireKnows, BoardShape
    <2>3. wanted \in {"retired", "expired"} /\ step \in {"closed", "reload"} /\ (open => wanted = "retired")
      OBVIOUS
    <2>4. (step = "closed") = (offerRow[o].status = "open")
      OBVIOUS
    <2> HIDE DEF wanted, step
    <2>5. /\ offerRow' \in [OfferIds -> [status : Board!Statuses, tx : OfferJobs \cup {"none"}]]
          /\ RowsStay
          /\ offerRow[o].status = "open" => offerRow'[o] = [status |-> wanted, tx |-> "none"]
          /\ \A p \in OfferIds : offerRow'[p] = offerRow[p] \/ (p = o /\ offerRow'[p] = [status |-> wanted, tx |-> "none"])
      BY <1>1, <2>1, <2>2, <2>3, ClosesOpen
    <2>6. n \in RetireRecord /\ n.step = step /\ n.offer = o /\ n.status = r.status
      BY <1>1, <2>3 DEF RetireRecord
    <2>7. caller' = [caller EXCEPT ![c] = n] /\ caller'[c] = n /\ \A d \in RetireCalls : d # c => caller'[d] = caller[d]
      BY <2>1 DEF BInv, BoardShape
    <2>8. RetireKnows(c)'
      <3>1. /\ caller'[c].step = step /\ caller'[c].offer = o /\ caller'[c].status = r.status
            /\ offerRow'[o].status \in {"filled", "retired", "expired"}
            /\ step = "closed" => offerRow'[o].status = wanted
        <4>1. CASE offerRow[o].status = "open"
          <5>1. offerRow'[o].status = wanted
            BY <2>5, <4>1
          <5> QED
            BY <2>3, <2>6, <2>7, <5>1
        <4>2. CASE offerRow[o].status # "open"
          BY <2>2, <2>4, <2>5, <2>6, <2>7, <4>2 DEF RowsStay, ClosedRow, Board!Statuses
        <4> QED
          BY <4>1, <4>2
      <3>2. Board!isSwapOfferOpen(caller[c].offer, caller[c].status)' => open
        BY <1>2, <3>1 DEF Board!isSwapOfferOpen, Board!Passed
      <3> QED
        BY <2>2, <2>3, <3>1, <3>2 DEF RetireKnows, ClosedRow
    <2>9. BoardShape'
      BY <1>1, <1>2, <2>5, <2>6, <2>7 DEF BoardShape
    <2> QED
      BY <1>2, <2>3, <2>5, <2>7, <2>8, <2>9, BoardStep
  <1>6. CASE Board!answerRetired(c)
    <2> DEFINE o == r.offer
               answer == IF r.step = "reload" THEN Board!effectiveSwapOfferStatus(o)
                         ELSE IF Board!isSwapOfferOpen(o, r.status) THEN "retired" ELSE "expired"
               n == [r EXCEPT !.step = "answered", !.answer = answer]
    <2>1. r.step \in {"closed", "reload"} /\ caller' = [caller EXCEPT ![c] = n] /\ offerRow' = offerRow
      BY <1>6 DEF Board!answerRetired
    <2>2. o \in OfferIds /\ ClosedRow(o)
      BY <1>1, <2>1 DEF RetireKnows
    <2>3. answer \in Board!Statuses /\ (answer \in {"filled", "retired"} => offerRow[o].status = answer)
      <3>1. CASE r.step = "reload"
        BY <2>2, <3>1 DEF Board!effectiveSwapOfferStatus, ClosedRow, Board!Statuses
      <3>2. CASE r.step = "closed"
        BY <1>1, <3>2 DEF RetireKnows, Board!Statuses
      <3> QED
        BY <2>1, <3>1, <3>2
    <2> HIDE DEF answer
    <2>4. n \in RetireRecord /\ n.step = "answered" /\ n.offer = o /\ n.answer = answer
      BY <1>1, <2>3 DEF RetireRecord
    <2>5. caller'[c] = n
      BY <2>1 DEF BInv, BoardShape
    <2>6. RetireKnows(c)'
      BY <2>1, <2>2, <2>3, <2>4, <2>5 DEF RetireKnows, ClosedRow
    <2> HIDE DEF n
    <2> QED
      BY <1>3, <2>1, <2>4, <2>6
  <1> QED
    BY <1>4, <1>5, <1>6

\* The steps of a sponsor job.
LEMMA ExpireStep ==
    ASSUME BInv, NEW j \in OfferJobs, NEW o \in OfferIds, Board!expireSwapOffers(j, o)
    PROVE  BInv'
  <1> DEFINE b == offerJob[j]
             n == [b EXCEPT !.step = "loading", !.offer = o]
  <1>1. b \in OfferJobRecord /\ offerClock \in Int
    BY DEF BInv, BoardShape
  <1>2. /\ offerJob' = [offerJob EXCEPT ![j] = n]
        /\ offerRow' = [p \in OfferIds |-> IF offerRow[p].status = "open" /\ OfferExpiry[p] # 0 /\ OfferExpiry[p] < offerClock
                                             THEN [offerRow[p] EXCEPT !.status = "expired"] ELSE offerRow[p]]
        /\ UNCHANGED <<offerSpent, caller, offerClock, offerRestarts>>
    BY DEF Board!expireSwapOffers
  <1>3. ASSUME NEW p \in OfferIds
        PROVE  /\ offerRow'[p] \in [status : Board!Statuses, tx : OfferJobs \cup {"none"}]
               /\ offerRow'[p] = offerRow[p] \/ (offerRow[p].status = "open" /\ offerRow'[p].status = "expired")
    BY <1>2 DEF BInv, BoardShape, Board!Statuses
  <1>4. n \in OfferJobRecord /\ n.step = "loading" /\ n.offer = o
    BY <1>1 DEF OfferJobRecord
  <1> HIDE DEF n
  <1>5. offerJob'[j] = n /\ \A k \in OfferJobs : k # j => offerJob'[k] = offerJob[k]
    BY <1>2 DEF BInv, BoardShape
  <1>6. BoardShape' /\ SpentStays /\ offerClock <= offerClock'
    <2>1. offerRow' \in [OfferIds -> [status : Board!Statuses, tx : OfferJobs \cup {"none"}]]
      BY <1>2, <1>3
    <2> QED
      BY <1>1, <1>2, <1>4, <2>1 DEF BInv, BoardShape, SpentStays
  <1>7. RowsStay /\ \A p \in OfferIds : offerRow'[p].status = "filled" => offerRow'[p] = offerRow[p]
    BY <1>3 DEF RowsStay, ClosedRow
  <1>8. OfferJobKnows(j)'
    BY <1>4, <1>5 DEF OfferJobKnows
  <1> QED
    BY <1>2, <1>5, <1>6, <1>7, <1>8, BoardStep

LEMMA SponsorSteps ==
    ASSUME BInv, NEW j \in OfferJobs,
           Board!sponsorOffer(j) \/ Board!sponsorHalves(j) \/ Board!refuse(j) \/ Board!closeSwapOffersByNullifiers(j) \/ Board!boardFails(j)
    PROVE  BInv'
  <1> DEFINE b == offerJob[j]
  <1>1. b \in OfferJobRecord /\ OfferJobKnows(j)
    BY DEF BInv, BoardShape
  <1>2. UNCHANGED <<offerRow, offerSpent, caller, offerClock, offerRestarts>>
    BY DEF Board!sponsorOffer, Board!sponsorHalves, Board!refuse, Board!closeSwapOffersByNullifiers, Board!boardFails
  <1>3. JobCoin[j] \in Board!Coins /\ \A o \in OfferIds : OfferCoins[o] \subseteq Board!Coins
    <2>2. JobCoin[j] \in Board!Coins
      BY Zenon DEF Board!Coins
    <2>3. ASSUME NEW o \in OfferIds, NEW n \in OfferCoins[o] PROVE n \in Board!Coins
      BY Zenon DEF Board!Coins
    <2> QED
      BY <2>2, <2>3
  <1>4. ASSUME NEW n \in OfferJobRecord, offerJob' = [offerJob EXCEPT ![j] = n], n.step \in {"refused", "ended"} PROVE BInv'
    <2>1. offerJob'[j] = n
      BY <1>4 DEF BInv, BoardShape
    <2>2. OfferJobKnows(j)'
      BY <1>4, <2>1 DEF OfferJobKnows
    <2> QED
      BY <1>2, <1>4, <2>2, OfferJobSet
  <1>5. ASSUME b.step \in {"new", "loading", "queued"}, offerJob' = [offerJob EXCEPT ![j].step = "refused"] PROVE BInv'
    <2>1. [b EXCEPT !.step = "refused"] \in OfferJobRecord /\ [b EXCEPT !.step = "refused"].step = "refused"
      BY <1>1 DEF OfferJobRecord
    <2> QED
      BY <1>4, <1>5, <2>1
  <1>6. ASSUME NEW cs \in SUBSET Board!Coins, b.step \in {"new", "loading"}, offerJob' = [offerJob EXCEPT ![j].step = "queued", ![j].coins = cs],
               b.offer = "none" \/ OfferCoins[b.offer] \subseteq cs
        PROVE  BInv'
    <2> DEFINE n == [b EXCEPT !.step = "queued", !.coins = cs]
    <2>1. n \in OfferJobRecord /\ n.step = "queued" /\ n.offer = b.offer /\ n.coins = cs
      BY <1>1 DEF OfferJobRecord
    <2>2. offerJob' = [offerJob EXCEPT ![j] = n] /\ offerJob'[j] = n
      BY <1>6 DEF BInv, BoardShape
    <2> HIDE DEF n
    <2>3. OfferJobKnows(j)'
      BY <1>6, <2>1, <2>2 DEF OfferJobKnows
    <2> QED
      BY <1>2, <2>1, <2>2, <2>3, OfferJobSet
  <1>7. CASE Board!sponsorOffer(j)
    <2>1. CASE offerJob' = [offerJob EXCEPT ![j].step = "refused"]
      BY <1>5, <1>7, <2>1 DEF Board!sponsorOffer
    <2>2. CASE offerJob' = [offerJob EXCEPT ![j].step = "queued", ![j].coins = OfferCoins[b.offer] \cup {JobCoin[j]}]
      <3>1. b.step = "loading" /\ b.offer \in OfferIds
        BY <1>1, <1>7 DEF Board!sponsorOffer, OfferJobKnows
      <3>2. OfferCoins[b.offer] \cup {JobCoin[j]} \in SUBSET Board!Coins /\ OfferCoins[b.offer] \subseteq OfferCoins[b.offer] \cup {JobCoin[j]}
        BY <1>3, <3>1
      <3> QED
        BY <1>6, <2>2, <3>1, <3>2
    <2> QED
      BY <1>7, <2>1, <2>2 DEF Board!sponsorOffer
  <1>8. CASE Board!sponsorHalves(j)
    <2>1. PICK cs : /\ offerJob' = [offerJob EXCEPT ![j].step = "queued", ![j].coins = cs]
                    /\ \/ cs = {JobCoin[j]}
                       \/ \E o \in OfferIds : cs = OfferCoins[o] \cup {JobCoin[j]} \/ cs = OfferCoins[o]
      BY <1>8 DEF Board!sponsorHalves
    <2>2. cs \in SUBSET Board!Coins
      BY <1>3, <2>1
    <2>3. b.step = "new" /\ b.offer = "none"
      BY <1>1, <1>8 DEF Board!sponsorHalves, OfferJobKnows
    <2> QED
      BY <1>6, <2>1, <2>2, <2>3
  <1>9. CASE Board!refuse(j)
    BY <1>5, <1>9 DEF Board!refuse
  <1>10. CASE Board!closeSwapOffersByNullifiers(j)
    <2> DEFINE hit == {o \in OfferIds : offerRow[o].status = "open" /\ OfferCoins[o] \cap b.coins # {}}
               n == [b EXCEPT !.step = "closing", !.hit = hit]
    <2>1. b.step = "matching" /\ offerJob' = [offerJob EXCEPT ![j] = n]
      BY <1>10 DEF Board!closeSwapOffersByNullifiers
    <2>2. hit \subseteq OfferIds /\ \A o \in hit : OfferCoins[o] \cap b.coins # {}
      OBVIOUS
    <2> HIDE DEF hit
    <2>3. n \in OfferJobRecord /\ n.step = "closing" /\ n.offer = b.offer /\ n.coins = b.coins /\ n.hit = hit
      BY <1>1, <2>2 DEF OfferJobRecord
    <2>4. offerJob'[j] = n
      BY <2>1 DEF BInv, BoardShape
    <2>5. OfferJobKnows(j)'
      BY <1>1, <1>2, <2>1, <2>2, <2>3, <2>4 DEF OfferJobKnows
    <2> QED
      BY <1>2, <2>1, <2>3, <2>5, OfferJobSet
  <1>11. CASE Board!boardFails(j)
    <2>1. [b EXCEPT !.step = "ended", !.hit = {}] \in OfferJobRecord /\ [b EXCEPT !.step = "ended", !.hit = {}].step = "ended"
      BY <1>1 DEF OfferJobRecord
    <2> QED
      BY <1>4, <1>11, <2>1 DEF Board!boardFails
  <1> QED
    BY <1>7, <1>8, <1>9, <1>10, <1>11

LEMMA LandStep ==
    ASSUME BInv, NEW j \in OfferJobs, Board!land(j)
    PROVE  BInv'
  <1> DEFINE b == offerJob[j]
             n == [b EXCEPT !.step = "landed"]
  <1>1. b \in OfferJobRecord /\ OfferJobKnows(j) /\ offerClock \in Int
    BY DEF BInv, BoardShape
  <1>2. /\ b.step = "queued" /\ \A m \in b.coins : offerSpent[m] = "none"
        /\ offerSpent' = [m \in Board!Coins |-> IF m \in b.coins THEN j ELSE offerSpent[m]]
        /\ offerJob' = [offerJob EXCEPT ![j] = n]
        /\ UNCHANGED <<offerRow, caller, offerClock, offerRestarts>>
    BY DEF Board!land, Board!None
  <1>3. n \in OfferJobRecord /\ n.step = "landed" /\ n.offer = b.offer /\ n.coins = b.coins
    BY <1>1 DEF OfferJobRecord
  <1>4. offerJob'[j] = n /\ \A k \in OfferJobs : k # j => offerJob'[k] = offerJob[k]
    BY <1>2 DEF BInv, BoardShape
  <1> HIDE DEF n
  <1>5. offerSpent' \in [Board!Coins -> OfferJobs \cup {"none"}]
    BY <1>2 DEF BInv, BoardShape
  <1>6. BoardShape' /\ RowsStay /\ SpentStays /\ offerClock <= offerClock'
    BY <1>1, <1>2, <1>3, <1>5 DEF BInv, BoardShape, RowsStay, SpentStays
  <1>7. OfferJobKnows(j)'
    <2>1. \A m \in b.coins : offerSpent'[m] = j
      BY <1>1, <1>2 DEF OfferJobRecord
    <2> QED
      BY <1>1, <1>2, <1>3, <1>4, <2>1 DEF OfferJobKnows
  <1> QED
    BY <1>2, <1>4, <1>6, <1>7, BoardStep

\* A landed job fills an offer that shares a coin with it.
LEMMA FillsOffer ==
    ASSUME BInv, NEW j \in OfferJobs, NEW o \in OfferIds, NEW n \in OfferJobRecord,
           OfferCoins[o] \cap offerJob[j].coins # {}, offerJob[j].step \in {"landed", "matching", "closing"},
           offerRow' = Board!closeSwapOffer(o, "filled", j), offerJob' = [offerJob EXCEPT ![j] = n],
           UNCHANGED <<offerSpent, caller, offerClock, offerRestarts>>, OfferJobKnows(j)'
    PROVE  BInv'
  <1>1. /\ offerRow' \in [OfferIds -> [status : Board!Statuses, tx : OfferJobs \cup {"none"}]]
        /\ RowsStay
        /\ \A p \in OfferIds : offerRow'[p] = offerRow[p] \/ (p = o /\ offerRow'[p] = [status |-> "filled", tx |-> j])
    BY ClosesOpen DEF BInv
  <1>2. PICK m \in OfferCoins[o] : offerSpent'[m] = j /\ j # "none"
    BY OfferAssumption DEF BInv, OfferJobKnows
  <1>3. BoardShape' /\ SpentStays /\ offerClock <= offerClock'
    BY <1>1 DEF BInv, BoardShape, SpentStays
  <1>4. \A k \in OfferJobs : k # j => offerJob'[k] = offerJob[k]
    BY DEF BInv, BoardShape
  <1>5. \A p \in OfferIds : offerRow'[p].status = "filled" =>
          offerRow'[p] = offerRow[p] \/ \E q \in OfferCoins[p] : offerSpent'[q] # "none" /\ offerSpent'[q] = offerRow'[p].tx
    BY <1>1, <1>2
  <1> QED
    BY <1>1, <1>3, <1>4, <1>5, BoardStep

LEMMA CloseSteps ==
    ASSUME BInv, NEW j \in OfferJobs, Board!closeNamedOffer(j) \/ Board!closeMatched(j)
    PROVE  BInv'
  <1> DEFINE b == offerJob[j]
  <1>1. b \in OfferJobRecord /\ OfferJobKnows(j) /\ offerClock \in Int
    BY DEF BInv, BoardShape
  <1>2. UNCHANGED <<offerSpent, caller, offerClock, offerRestarts>>
    BY DEF Board!closeNamedOffer, Board!closeMatched
  <1>3. CASE Board!closeNamedOffer(j)
    <2> DEFINE n == [b EXCEPT !.step = "matching"]
    <2>1. b.step = "landed" /\ offerJob' = [offerJob EXCEPT ![j] = n] /\ offerJob'[j] = n
      BY <1>3 DEF Board!closeNamedOffer, BInv, BoardShape
    <2>2. n \in OfferJobRecord /\ n.step = "matching" /\ n.offer = b.offer /\ n.coins = b.coins
      BY <1>1 DEF OfferJobRecord
    <2> HIDE DEF n
    <2>3. OfferJobKnows(j)'
      BY <1>1, <1>2, <2>1, <2>2 DEF OfferJobKnows
    <2>4. CASE b.offer = "none"
      <3>1. offerRow' = offerRow
        BY <1>3, <2>4 DEF Board!closeNamedOffer, Board!None
      <3> QED
        BY <1>2, <2>1, <2>2, <2>3, <3>1, OfferJobSet
    <2>5. CASE b.offer # "none"
      <3>1. b.offer \in OfferIds /\ OfferCoins[b.offer] \cap b.coins # {}
        BY <1>1, <2>1, <2>5, OfferAssumption DEF OfferJobRecord, OfferJobKnows
      <3>2. offerRow' = Board!closeSwapOffer(b.offer, "filled", j)
        BY <1>3, <2>5 DEF Board!closeNamedOffer, Board!None
      <3> QED
        BY <1>2, <2>1, <2>2, <2>3, <3>1, <3>2, FillsOffer
    <2> QED
      BY <2>4, <2>5
  <1>4. CASE Board!closeMatched(j)
    <2>1. CASE b.hit = {} /\ offerRow' = offerRow /\ offerJob' = [offerJob EXCEPT ![j].step = "ended"]
      <3> DEFINE n == [b EXCEPT !.step = "ended"]
      <3>1. n \in OfferJobRecord /\ n.step = "ended"
        BY <1>1 DEF OfferJobRecord
      <3>2. offerJob' = [offerJob EXCEPT ![j] = n] /\ offerJob'[j] = n
        BY <2>1 DEF BInv, BoardShape
      <3> HIDE DEF n
      <3>3. OfferJobKnows(j)'
        BY <3>1, <3>2 DEF OfferJobKnows
      <3> QED
        BY <1>2, <2>1, <3>1, <3>2, <3>3, OfferJobSet
    <2>2. ASSUME NEW o \in b.hit, offerRow' = Board!closeSwapOffer(o, "filled", j), offerJob' = [offerJob EXCEPT ![j].hit = @ \ {o}]
          PROVE  BInv'
      <3> DEFINE n == [b EXCEPT !.hit = @ \ {o}]
      <3>0. b.step = "closing"
        BY <1>4 DEF Board!closeMatched
      <3>1. n \in OfferJobRecord /\ n.step = b.step /\ n.offer = b.offer /\ n.coins = b.coins /\ n.hit \subseteq b.hit
        BY <1>1 DEF OfferJobRecord
      <3>2. offerJob' = [offerJob EXCEPT ![j] = n] /\ offerJob'[j] = n
        BY <2>2 DEF BInv, BoardShape
      <3> HIDE DEF n
      <3>3. OfferJobKnows(j)'
        BY <1>1, <1>2, <3>0, <3>1, <3>2 DEF OfferJobKnows
      <3>4. o \in OfferIds /\ OfferCoins[o] \cap b.coins # {}
        BY <1>1, <3>0 DEF OfferJobRecord, OfferJobKnows
      <3> QED
        BY <1>2, <2>2, <3>0, <3>1, <3>2, <3>3, <3>4, FillsOffer
    <2> QED
      BY <1>4, <2>1, <2>2 DEF Board!closeMatched
  <1> QED
    BY <1>3, <1>4

\* A restart ends the calls, and a job under way either ends or is settled again from the start.
LEMMA OfferRestartStep ==
    ASSUME BInv, Board!restart
    PROVE  BInv'
  <1>1. PICK lost \in SUBSET OfferJobs :
          offerJob' = [j \in OfferJobs |-> CASE j \in lost -> [offerJob[j] EXCEPT !.step = "ended", !.hit = {}]
                                             [] offerJob[j].step = "loading" -> [offerJob[j] EXCEPT !.step = "refused"]
                                             [] offerJob[j].step \in {"matching", "closing"} /\ j \notin lost
                                                  -> [offerJob[j] EXCEPT !.step = "landed", !.hit = {}]
                                             [] OTHER -> offerJob[j]]
    BY DEF Board!restart
  <1>2. /\ caller' = [c \in RetireCalls |-> IF caller[c].step = "answered" THEN caller[c] ELSE Board!NewCall]
        /\ offerRestarts < OfferRestarts /\ offerRestarts' = offerRestarts + 1
        /\ UNCHANGED <<offerRow, offerSpent, offerClock>>
    BY DEF Board!restart
  <1>3. ASSUME NEW j \in OfferJobs PROVE offerJob'[j] \in OfferJobRecord /\ (offerJob'[j] = offerJob[j] \/ OfferJobKnows(j)')
    <2> DEFINE b == offerJob[j]
               n == offerJob'[j]
    <2>1. b \in OfferJobRecord /\ OfferJobKnows(j)
      BY DEF BInv, BoardShape
    <2>2. \/ n = [b EXCEPT !.step = "ended", !.hit = {}]
          \/ n = [b EXCEPT !.step = "refused"]
          \/ b.step \in {"matching", "closing"} /\ n = [b EXCEPT !.step = "landed", !.hit = {}]
          \/ n = b
      <3>1. n = CASE j \in lost -> [b EXCEPT !.step = "ended", !.hit = {}]
                  [] b.step = "loading" -> [b EXCEPT !.step = "refused"]
                  [] b.step \in {"matching", "closing"} /\ j \notin lost -> [b EXCEPT !.step = "landed", !.hit = {}]
                  [] OTHER -> b
        BY <1>1
      <3> HIDE DEF n, b
      <3> QED
        BY <3>1
    <2> HIDE DEF n
    <2>3. \/ n \in OfferJobRecord /\ n.step \in {"ended", "refused"}
          \/ n \in OfferJobRecord /\ n.step = "landed" /\ n.offer = b.offer /\ n.coins = b.coins /\ b.step \in {"matching", "closing"}
          \/ n = b
      BY <2>1, <2>2 DEF OfferJobRecord
    <2>4. n \in OfferJobRecord
      BY <2>1, <2>3
    <2>5. n = b \/ OfferJobKnows(j)'
      BY <1>2, <2>1, <2>3 DEF OfferJobKnows, n
    <2> QED
      BY <2>4, <2>5 DEF n
  <1>4. ASSUME NEW c \in RetireCalls PROVE caller'[c] \in RetireRecord /\ (caller'[c] = caller[c] \/ RetireKnows(c)')
    <2>1. Board!NewCall \in RetireRecord
      BY DEF RetireRecord, Board!NewCall, Board!None
    <2>2. caller[c] \in RetireRecord
      BY DEF BInv, BoardShape
    <2>3. caller'[c] = caller[c] \/ caller'[c] = Board!NewCall
      BY <1>2
    <2>4. caller'[c] = Board!NewCall => RetireKnows(c)'
      BY DEF RetireKnows, Board!NewCall
    <2> QED
      BY <2>1, <2>2, <2>3, <2>4
  <1>5. BoardShape'
    <2>1. offerJob' \in [OfferJobs -> OfferJobRecord]
      BY <1>1, <1>3
    <2>2. caller' \in [RetireCalls -> RetireRecord]
      BY <1>2, <1>4
    <2>3. offerRestarts' \in 0..OfferRestarts
      BY <1>2, OfferAssumption DEF BInv, BoardShape
    <2> QED
      BY <1>2, <2>1, <2>2, <2>3 DEF BInv, BoardShape
  <1>6. RowsStay /\ SpentStays /\ offerClock <= offerClock'
    BY <1>2 DEF BInv, BoardShape, RowsStay, SpentStays
  <1> QED
    BY <1>2, <1>3, <1>4, <1>5, <1>6, BoardStep

LEMMA OfferStepInv == BInv /\ Board!OfferNext => BInv'
  <1> SUFFICES ASSUME BInv, Board!OfferNext PROVE BInv'
    OBVIOUS
  <1>1. CASE Board!Tick
    <2>1. offerClock \in Int /\ offerClock' \in 1..OfferSeconds /\ offerClock <= offerClock'
      BY <1>1, OfferAssumption DEF Board!Tick, BInv, BoardShape
    <2>2. UNCHANGED <<offerRow, offerSpent, offerJob, caller, offerRestarts>>
      BY <1>1 DEF Board!Tick
    <2>3. BoardShape' /\ RowsStay /\ SpentStays
      BY <2>1, <2>2 DEF BInv, BoardShape, RowsStay, SpentStays
    <2> QED
      BY <2>1, <2>2, <2>3, BoardStep
  <1> QED
    BY <1>1, PostStep, RetireSteps, ExpireStep, SponsorSteps, LandStep, CloseSteps, OfferRestartStep DEF Board!OfferNext

OfferPart == part = "offers" => BInv

LEMMA OfferPartHolds == Spec => []OfferPart
  <1>1. Init => OfferPart
    BY OfferInitInv DEF Init, OfferPart
  <1>2. OfferPart /\ [Next]_vars => OfferPart'
    <2> SUFFICES ASSUME OfferPart, [Next]_vars PROVE OfferPart'
      OBVIOUS
    <2>1. CASE UNCHANGED <<part, offerVars>>
      <3>1. UNCHANGED <<part, offerRow, offerSpent, offerJob, caller, offerClock, offerRestarts>>
        BY <2>1 DEF offerVars
      <3>2. BInv => BInv'
        <4>1. BoardShape => BoardShape' /\ RowsStay /\ SpentStays /\ offerClock <= offerClock'
          BY <3>1 DEF BoardShape, RowsStay, SpentStays
        <4> QED
          BY <3>1, <4>1, BoardStep DEF BInv
      <3> QED
        BY <3>1, <3>2 DEF OfferPart
    <2>2. CASE Only("offers") /\ Board!OfferNext
      BY <2>2, OfferStepInv DEF OfferPart, Only
    <2>3. CASE part # "offers" /\ part' = part
      BY <2>3 DEF OfferPart
    <2>4. part = "offers" /\ Next => Only("offers") /\ Board!OfferNext
      BY DEF Next, Only
    <2>5. Next => part' = part
      BY DEF Next, Only
    <2>6. UNCHANGED vars => UNCHANGED <<part, offerVars>>
      BY DEF vars
    <2> QED
      BY <2>1, <2>2, <2>3, <2>4, <2>5, <2>6
  <1> QED
    BY <1>1, <1>2, PTL DEF Spec

\* The board says filled only of an offer whose coins are spent, by the job it names, and what a poster was
\* answered stays true: whatever landed swaps, retire calls, the expiry, failed writes and restarts race
\* (closeSwapOffer, closeSwapOffersByNullifiers, retireSwapOffer).
THEOREM BoardIsTrueAlways == Spec => []BoardIsTrue
  <1>1. BInv => Board!OfferTypeOK
    BY DEF BInv, BoardShape, OfferJobRecord, RetireRecord, Board!OfferTypeOK, Board!None
  <1>2. BInv => Board!AnswerHolds
    BY DEF BInv, RetireKnows, ClosedRow, Board!AnswerHolds, Board!isSwapOfferOpen
  <1>3. OfferPart => BoardIsTrue
    BY <1>1, <1>2 DEF OfferPart, BInv, BoardIsTrue
  <1> QED
    BY <1>3, OfferPartHolds, PTL

-----------------------------------------------------------------------------
(* Dust reservations.                                                      *)

DustRecord == [step : Dust!Steps, parts : SUBSET (DustBackings \X Nat), notes : SUBSET (DustBackings \X Nat),
               short : SUBSET DustBackings, tries : 0..DustReselects]

LockRecord == [token : Nat, expired : BOOLEAN]

DustShape == /\ spendable \in [DustBackings -> Nat] /\ listed \in [DustBackings -> Nat]
             /\ noteLocks \in [DustBackings -> LockRecord]
             /\ leaseSeq \in Nat
             /\ req \in [DustRequests -> DustRecord]
             /\ lapsed \subseteq DustRequests /\ stalls \in 0..DustStalls

\* No token was given out twice: not to two requests, and to one request for one backing.
TokensUsed == /\ \A r \in DustRequests : \A p \in req[r].parts : p[2] # 0 /\ p[2] <= leaseSeq
              /\ \A r, s \in DustRequests : \A p \in req[r].parts, q \in req[s].parts : p[2] = q[2] => r = s /\ p = q
              /\ \A r \in DustRequests : \A p, q \in req[r].parts : p[1] = q[1] => p = q

\* A request that runs holds what it reserved unless its reservation expired, and spends only notes of backings
\* it reserved; another has reserved nothing.
RequestKnows(r) ==
    /\ req[r].step \in {"idle", "waiting", "done"} => req[r].parts = {}
    /\ req[r].step \in Dust!Live /\ r \notin lapsed =>
          \A p \in req[r].parts : noteLocks[p[1]] = [token |-> p[2], expired |-> FALSE]
    /\ req[r].step \in {"built", "sending", "draining"} => \A n \in req[r].notes : \E p \in req[r].parts : p[1] = n[1]

DInv == DustShape /\ TokensUsed /\ \A r \in DustRequests : RequestKnows(r)

LEMMA SameFinite == \A S : Dust!Cardinality(S) = Cardinality(S)
  BY DEF Dust!Cardinality, Cardinality

LEMMA DustInitInv == Dust!DustInit => DInv
  <1> SUFFICES ASSUME Dust!DustInit PROVE DInv
    OBVIOUS
  <1>1. Dust!Idle \in DustRecord /\ Dust!Free \in LockRecord
    BY DustAssumption DEF Dust!Idle, Dust!Free, DustRecord, LockRecord, Dust!Steps
  <1>2. DustShape
    BY <1>1, DustAssumption DEF Dust!DustInit, DustShape
  <1>3. \A r \in DustRequests : req[r].parts = {} /\ req[r].step = "idle"
    BY DEF Dust!DustInit, Dust!Idle
  <1>4. TokensUsed /\ \A r \in DustRequests : RequestKnows(r)
    BY <1>3 DEF TokensUsed, RequestKnows, Dust!Live
  <1> QED
    BY <1>2, <1>4 DEF DInv

\* The reservations of the other requests stay as they are, and lapsed requests stay lapsed.
OthersHold(r) ==
    \A s \in DustRequests : s # r /\ req[s].step \in Dust!Live /\ s \notin lapsed' =>
       s \notin lapsed /\ \A p \in req[s].parts : noteLocks'[p[1]] = noteLocks[p[1]]

\* One request gets the record n: it gives back all its parts or keeps them.
LEMMA RequestSet ==
    ASSUME DInv, NEW r \in DustRequests, NEW n \in DustRecord, req' = [req EXCEPT ![r] = n], DustShape', leaseSeq' = leaseSeq,
           n.parts \in {{}, req[r].parts}, OthersHold(r), RequestKnows(r)'
    PROVE  DInv'
  <1>1. \A s \in DustRequests : req'[s] = IF s = r THEN n ELSE req[s]
    BY DEF DInv, DustShape
  <1>2. \A s \in DustRequests : req'[s].parts \subseteq req[s].parts
    BY <1>1
  <1>3. TokensUsed'
    <2>1. \A s \in DustRequests : \A p \in req'[s].parts : p[2] # 0 /\ p[2] <= leaseSeq'
      BY <1>2 DEF DInv, TokensUsed
    <2>2. \A s, t \in DustRequests : \A p \in req'[s].parts, q \in req'[t].parts : p[2] = q[2] => s = t /\ p = q
      BY <1>2 DEF DInv, TokensUsed
    <2>3. \A s \in DustRequests : \A p, q \in req'[s].parts : p[1] = q[1] => p = q
      BY <1>2 DEF DInv, TokensUsed
    <2> QED
      BY <2>1, <2>2, <2>3 DEF TokensUsed
  <1>4. ASSUME NEW s \in DustRequests, s # r PROVE RequestKnows(s)'
    <2>1. req'[s] = req[s] /\ RequestKnows(s)
      BY <1>1, <1>4 DEF DInv
    <2>2. req[s].step \in Dust!Live /\ s \notin lapsed' =>
            s \notin lapsed /\ \A p \in req[s].parts : noteLocks'[p[1]] = noteLocks[p[1]]
      BY <1>4 DEF OthersHold
    <2> QED
      BY <2>1, <2>2 DEF RequestKnows
  <1> QED
    BY <1>3, <1>4 DEF DInv

\* releaseLease frees only what the request still holds: a token is of one request.
LEMMA ReleaseFrees ==
    ASSUME DInv, NEW r \in DustRequests, noteLocks' = Dust!releaseLease(r), lapsed \subseteq lapsed'
    PROVE  noteLocks' \in [DustBackings -> LockRecord] /\ OthersHold(r)
  <1>1. ASSUME NEW b \in DustBackings
        PROVE  \/ noteLocks'[b] = noteLocks[b]
               \/ noteLocks'[b] = Dust!Free /\ \E p \in req[r].parts : p[1] = b /\ noteLocks[b].token = p[2]
    <2> DEFINE mine == {p \in req[r].parts : p[1] = b}
    <2>1. noteLocks'[b] = IF mine = {} THEN noteLocks[b] ELSE Dust!releaseNote(noteLocks, b, (CHOOSE p \in mine : TRUE)[2])
      BY DEF Dust!releaseLease
    <2>2. CASE mine = {}
      BY <2>1, <2>2
    <2>3. CASE mine # {}
      <3> DEFINE p == CHOOSE q \in mine : TRUE
      <3>1. p \in mine
        BY <2>3
      <3>2. noteLocks'[b] = IF noteLocks[b].token = p[2] THEN Dust!Free ELSE noteLocks[b]
        BY <2>1, <2>3 DEF Dust!releaseNote
      <3> HIDE DEF p
      <3> QED
        BY <3>1, <3>2
    <2> QED
      BY <2>2, <2>3
  <1>2. noteLocks' \in [DustBackings -> LockRecord]
    <2>1. Dust!Free \in LockRecord
      BY DEF Dust!Free, LockRecord
    <2>2. \A b \in DustBackings : noteLocks'[b] \in LockRecord
      BY <1>1, <2>1 DEF DInv, DustShape
    <2>3. noteLocks' = [b \in DustBackings |-> noteLocks'[b]]
      BY DEF Dust!releaseLease
    <2> QED
      BY <2>2, <2>3
  <1>3. OthersHold(r)
    <2> SUFFICES ASSUME NEW s \in DustRequests, s # r, req[s].step \in Dust!Live, s \notin lapsed', NEW q \in req[s].parts
                 PROVE  noteLocks'[q[1]] = noteLocks[q[1]]
      BY DEF OthersHold
    <2>1. q[1] \in DustBackings /\ noteLocks[q[1]].token = q[2]
      <3>1. req[s] \in DustRecord /\ RequestKnows(s) /\ s \notin lapsed
        BY DEF DInv, DustShape
      <3>2. noteLocks[q[1]] = [token |-> q[2], expired |-> FALSE]
        BY <3>1 DEF RequestKnows
      <3> QED
        BY <3>1, <3>2 DEF DustRecord
    <2>2. \A p \in req[r].parts : p[2] # q[2]
      BY DEF DInv, TokensUsed
    <2> QED
      BY <1>1, <2>1, <2>2
  <1> QED
    BY <1>2, <1>3

\* Steps that leave the reservations alone.
LEMMA QuietSteps ==
    ASSUME DInv, NEW r \in DustRequests,
           Dust!Start(r) \/ Dust!WaitTimeout(r) \/ Dust!buildDustSpend(r) \/ Dust!Send(r) \/ Dust!Land(r) \/ Dust!AnswerLost(r)
    PROVE  DInv'
  <1> DEFINE old == req[r]
  <1>1. old \in DustRecord /\ RequestKnows(r) /\ DustShape
    BY DEF DInv, DustShape
  <1>2. UNCHANGED <<listed, noteLocks, leaseSeq, lapsed, stalls>>
    BY DEF Dust!Start, Dust!WaitTimeout, Dust!buildDustSpend, Dust!Send, Dust!Land, Dust!AnswerLost
  <1>3. ASSUME NEW n \in DustRecord, req' = [req EXCEPT ![r] = n], spendable' \in [DustBackings -> Nat], n.parts = old.parts,
               n.step \in {"idle", "waiting", "done"} => old.step \in {"idle", "waiting", "done"},
               n.step \in Dust!Live => old.step \in Dust!Live,
               n.step \in {"built", "sending", "draining"} => \A m \in n.notes : \E p \in n.parts : p[1] = m[1]
        PROVE  DInv'
    <2>1. req'[r] = n
      BY <1>1, <1>3 DEF DustShape
    <2>2. DustShape'
      BY <1>1, <1>2, <1>3 DEF DustShape
    <2>3. RequestKnows(r)'
      BY <1>1, <1>2, <1>3, <2>1 DEF RequestKnows
    <2>4. OthersHold(r)
      BY <1>2 DEF OthersHold
    <2> QED
      BY <1>2, <1>3, <2>2, <2>3, <2>4, RequestSet
  <1>4. CASE Dust!Start(r)
    <2>1. old.step = "idle" /\ req' = [req EXCEPT ![r].step = "waiting"] /\ spendable' = spendable
      BY <1>4 DEF Dust!Start
    <2> DEFINE n == [old EXCEPT !.step = "waiting"]
    <2>2. n \in DustRecord /\ n.step = "waiting" /\ n.parts = old.parts
      BY <1>1 DEF DustRecord, Dust!Steps
    <2>3. req' = [req EXCEPT ![r] = n]
      BY <2>1
    <2> HIDE DEF n
    <2> QED
      BY <1>1, <1>3, <2>1, <2>2, <2>3 DEF DustShape, Dust!Live
  <1>5. CASE Dust!WaitTimeout(r)
    <2> DEFINE n == [Dust!Idle EXCEPT !.step = "done"]
    <2>1. old.step = "waiting" /\ req' = [req EXCEPT ![r] = n] /\ spendable' = spendable
      BY <1>5 DEF Dust!WaitTimeout
    <2>2. n \in DustRecord /\ n.step = "done" /\ n.parts = {}
      BY DustAssumption DEF DustRecord, Dust!Steps, Dust!Idle
    <2>3. old.parts = {}
      BY <1>1, <2>1 DEF RequestKnows
    <2> HIDE DEF n
    <2> QED
      BY <1>1, <1>3, <2>1, <2>2, <2>3 DEF DustShape, Dust!Live
  <1>6. CASE Dust!buildDustSpend(r)
    <2> DEFINE notes == {<<p[1], listed[p[1]]>> : p \in old.parts}
               n == [old EXCEPT !.step = "built", !.notes = notes]
    <2>1. old.step = "leased" /\ req' = [req EXCEPT ![r].step = "built", ![r].notes = notes] /\ spendable' = spendable
      BY <1>6 DEF Dust!buildDustSpend
    <2>2. notes \in SUBSET (DustBackings \X Nat) /\ \A m \in notes : \E p \in old.parts : p[1] = m[1]
      BY <1>1 DEF DustRecord, DustShape
    <2> HIDE DEF notes
    <2>3. n \in DustRecord /\ n.step = "built" /\ n.parts = old.parts /\ n.notes = notes
      BY <1>1, <2>2 DEF DustRecord, Dust!Steps, Dust!Live
    <2>4. req' = [req EXCEPT ![r] = n]
      BY <2>1
    <2> HIDE DEF n
    <2>5. \A m \in n.notes : \E p \in n.parts : p[1] = m[1]
      BY <2>2, <2>3
    <2>6. spendable' \in [DustBackings -> Nat]
      BY <1>1, <2>1 DEF DustShape
    <2> QED
      BY <1>3, <2>1, <2>3, <2>4, <2>5, <2>6 DEF Dust!Live
  <1>7. ASSUME NEW step \in {"sending", "draining"}, old.step \in {"built", "sending", "draining"},
               req' = [req EXCEPT ![r].step = step], spendable' \in [DustBackings -> Nat]
        PROVE  DInv'
    <2> DEFINE n == [old EXCEPT !.step = step]
    <2>1. n \in DustRecord /\ n.step = step /\ n.parts = old.parts /\ n.notes = old.notes
      BY <1>1, <1>7 DEF DustRecord, Dust!Steps, Dust!Live
    <2>2. req' = [req EXCEPT ![r] = n]
      BY <1>7
    <2> HIDE DEF n
    <2>3. \A m \in old.notes : \E p \in old.parts : p[1] = m[1]
      BY <1>1, <1>7 DEF RequestKnows
    <2> QED
      BY <1>3, <1>7, <2>1, <2>2, <2>3 DEF Dust!Live
  <1>8. CASE Dust!Send(r) \/ Dust!AnswerLost(r)
    BY <1>1, <1>7, <1>8 DEF Dust!Send, Dust!AnswerLost, DustShape
  <1>9. CASE Dust!Land(r)
    <2>1. spendable' \in [DustBackings -> Nat]
      <3>1. spendable' = [b \in DustBackings |-> IF \E n \in old.notes : n[1] = b THEN spendable[b] + 1 ELSE spendable[b]]
        BY <1>9 DEF Dust!Land
      <3> QED
        BY <1>1, <3>1 DEF DustShape
    <2>2. CASE old.step = "sending"
      BY <1>7, <1>9, <2>1, <2>2 DEF Dust!Land
    <2>3. CASE old.step = "draining"
      BY <1>7, <1>9, <2>1, <2>3 DEF Dust!Land
    <2>4. CASE old.step = "done"
      <3>1. req' = [req EXCEPT ![r].step = old.step]
        BY <1>9, <2>4 DEF Dust!Land
      <3>2. req' = [req EXCEPT ![r] = old]
        BY <1>1, <3>1 DEF DustShape, DustRecord
      <3> QED
        BY <1>1, <1>3, <2>1, <2>4, <3>2 DEF Dust!Live
    <2> QED
      BY <1>9, <2>2, <2>3, <2>4 DEF Dust!Land
  <1> QED
    BY <1>4, <1>5, <1>6, <1>8, <1>9

\* A lock is taken on backings nobody holds, with tokens nobody had.
LEMMA AcquireStep ==
    ASSUME DInv, NEW r \in DustRequests, Dust!acquireBacking(r)
    PROVE  DInv'
  <1> DEFINE old == req[r]
  <1>1. old \in DustRecord /\ RequestKnows(r) /\ DustShape /\ TokensUsed /\ old.step = "waiting"
    BY DEF DInv, DustShape, Dust!acquireBacking
  <1>a. PICK S \in Dust!tryLockDust(r) : \E token \in [S -> leaseSeq + 1 .. leaseSeq + Dust!Cardinality(S)] :
          /\ \A b, c \in S : token[b] = token[c] => b = c
          /\ leaseSeq' = leaseSeq + Dust!Cardinality(S)
          /\ noteLocks' = [b \in DustBackings |-> IF b \in S THEN [token |-> token[b], expired |-> FALSE] ELSE noteLocks[b]]
          /\ req' = [req EXCEPT ![r].step = "leased", ![r].parts = {<<b, token[b]>> : b \in S}]
    BY Zenon DEF Dust!acquireBacking
  <1>2. PICK token \in [S -> leaseSeq + 1 .. leaseSeq + Dust!Cardinality(S)] :
          /\ \A b, c \in S : token[b] = token[c] => b = c
          /\ leaseSeq' = leaseSeq + Dust!Cardinality(S)
          /\ noteLocks' = [b \in DustBackings |-> IF b \in S THEN [token |-> token[b], expired |-> FALSE] ELSE noteLocks[b]]
          /\ req' = [req EXCEPT ![r].step = "leased", ![r].parts = {<<b, token[b]>> : b \in S}]
    BY <1>a
  <1>3. S \subseteq Dust!Available(r)
    BY Zenon DEF Dust!tryLockDust, Dust!tryLockBacking, Dust!pickNotesAcrossBackings
  <1>4. S \subseteq DustBackings /\ \A b \in S : ~Dust!Held(b)
    BY <1>3 DEF Dust!Available
  <1>5. Dust!Cardinality(S) \in Nat /\ leaseSeq \in Nat
    <2>1. Cardinality(S) \in Nat
      BY <1>4, DustAssumption, FS_Subset, FS_CardinalityType
    <2> QED
      BY <1>1, <2>1, SameFinite DEF DustShape
  <1> DEFINE parts == {<<b, token[b]>> : b \in S}
             n == [old EXCEPT !.step = "leased", !.parts = parts]
  <1>6. \A b \in S : token[b] \in Nat /\ token[b] > leaseSeq /\ token[b] <= leaseSeq'
    BY <1>2, <1>5
  <1>7. /\ parts \in SUBSET (DustBackings \X Nat)
        /\ \A p \in parts : p[1] \in S /\ p[2] = token[p[1]] /\ p = <<p[1], p[2]>>
    BY <1>4, <1>6
  <1> HIDE DEF parts
  <1>8. n \in DustRecord /\ n.step = "leased" /\ n.parts = parts
    BY <1>1, <1>7 DEF DustRecord, Dust!Steps, Dust!Live
  <1>9. req' = [req EXCEPT ![r] = n] /\ UNCHANGED <<spendable, listed, lapsed, stalls>>
    <2>1. UNCHANGED <<spendable, listed, lapsed, stalls>>
      BY DEF Dust!acquireBacking
    <2> QED
      BY <1>2, <2>1 DEF parts
  <1> HIDE DEF n
  <1>10. \A s \in DustRequests : req'[s] = IF s = r THEN n ELSE req[s]
    BY <1>1, <1>9 DEF DustShape
  <1>11. \A b \in DustBackings : noteLocks'[b] = IF b \in S THEN [token |-> token[b], expired |-> FALSE] ELSE noteLocks[b]
    BY <1>2
  <1>12. DustShape'
    <2>1. noteLocks' \in [DustBackings -> LockRecord]
      <3>1. \A b \in S : [token |-> token[b], expired |-> FALSE] \in LockRecord
        BY <1>6 DEF LockRecord
      <3> QED
        BY <1>1, <1>2, <3>1 DEF DustShape
    <2>2. leaseSeq' \in Nat
      BY <1>2, <1>5
    <2> QED
      BY <1>1, <1>8, <1>9, <2>1, <2>2 DEF DustShape
  <1>13. TokensUsed'
    <2>1. ASSUME NEW s \in DustRequests, NEW p \in req'[s].parts
          PROVE  /\ p[2] # 0 /\ p[2] <= leaseSeq' /\ p[2] \in Nat
                 /\ s = r => p \in parts /\ p[2] > leaseSeq
                 /\ s # r => p \in req[s].parts /\ p[2] <= leaseSeq
      <3>1. CASE s = r
        BY <1>5, <1>6, <1>7, <1>8, <1>10, <2>1, <3>1
      <3>2. CASE s # r
        <4>1. p \in req[s].parts /\ p[2] # 0 /\ p[2] <= leaseSeq
          BY <1>1, <1>10, <2>1, <3>2 DEF TokensUsed
        <4>2. p[2] \in Nat
          BY <1>1, <4>1 DEF DustShape, DustRecord
        <4> QED
          BY <1>2, <1>5, <3>2, <4>1, <4>2
      <3> QED
        BY <3>1, <3>2
    <2>2. ASSUME NEW p \in parts, NEW q \in parts, p[2] = q[2] \/ p[1] = q[1] PROVE p = q
      BY <1>2, <1>7, <2>2
    <2>3. ASSUME NEW s \in DustRequests, NEW t \in DustRequests, NEW p \in req'[s].parts, NEW q \in req'[t].parts, p[2] = q[2]
          PROVE  s = t /\ p = q
      <3>1. CASE s = r /\ t = r
        BY <2>1, <2>2, <2>3, <3>1
      <3>2. CASE s # r /\ t # r
        BY <1>1, <2>1, <2>3, <3>2 DEF TokensUsed
      <3>3. CASE (s = r) # (t = r)
        BY <1>5, <2>1, <2>3, <3>3
      <3> QED
        BY <3>1, <3>2, <3>3
    <2>4. ASSUME NEW s \in DustRequests, NEW p \in req'[s].parts, NEW q \in req'[s].parts, p[1] = q[1] PROVE p = q
      <3>1. CASE s = r
        BY <2>1, <2>2, <2>4, <3>1
      <3>2. CASE s # r
        BY <1>1, <2>1, <2>4, <3>2 DEF TokensUsed
      <3> QED
        BY <3>1, <3>2
    <2> QED
      BY <2>1, <2>3, <2>4 DEF TokensUsed
  <1>14. ASSUME NEW s \in DustRequests PROVE RequestKnows(s)'
    <2>1. CASE s = r
      <3>1. \A p \in parts : noteLocks'[p[1]] = [token |-> p[2], expired |-> FALSE]
        BY <1>4, <1>7, <1>11
      <3> QED
        BY <1>8, <1>10, <2>1, <3>1 DEF RequestKnows
    <2>2. CASE s # r
      <3>1. req'[s] = req[s] /\ RequestKnows(s) /\ req[s] \in DustRecord
        BY <1>10, <2>2 DEF DInv, DustShape
      <3>2. ASSUME req[s].step \in Dust!Live, s \notin lapsed, NEW p \in req[s].parts
            PROVE  noteLocks'[p[1]] = noteLocks[p[1]]
        <4>1. noteLocks[p[1]] = [token |-> p[2], expired |-> FALSE] /\ p[2] # 0 /\ p[1] \in DustBackings
          BY <1>1, <3>1, <3>2 DEF RequestKnows, TokensUsed, DustRecord
        <4>2. Dust!Held(p[1])
          BY <4>1 DEF Dust!Held
        <4> QED
          BY <1>4, <1>11, <4>1, <4>2
      <3> QED
        BY <1>9, <3>1, <3>2 DEF RequestKnows
    <2> QED
      BY <2>1, <2>2
  <1> QED
    BY <1>12, <1>13, <1>14 DEF DInv

\* Steps that give the reservation back.
LEMMA ReleaseSteps ==
    ASSUME DInv, NEW r \in DustRequests, Dust!BackingShort(r) \/ Dust!NothingSent(r) \/ Dust!releaseBackingWhenSpent(r)
    PROVE  DInv'
  <1> DEFINE old == req[r]
  <1>1. old \in DustRecord /\ RequestKnows(r) /\ DustShape
    BY DEF DInv, DustShape
  <1>2. noteLocks' = Dust!releaseLease(r) /\ UNCHANGED <<spendable, listed, leaseSeq, stalls>>
    BY DEF Dust!BackingShort, Dust!NothingSent, Dust!releaseBackingWhenSpent
  <1>3. lapsed \subseteq lapsed' /\ lapsed' \subseteq DustRequests
    BY <1>1 DEF Dust!BackingShort, Dust!NothingSent, Dust!releaseBackingWhenSpent, DustShape
  <1>4. ASSUME NEW n \in DustRecord, req' = [req EXCEPT ![r] = n], n.parts = {}, n.step \in {"waiting", "done"}
        PROVE  DInv'
    <2>1. noteLocks' \in [DustBackings -> LockRecord] /\ OthersHold(r)
      BY <1>2, <1>3, ReleaseFrees
    <2>2. DustShape'
      BY <1>1, <1>2, <1>3, <1>4, <2>1 DEF DustShape
    <2>3. req'[r] = n
      BY <1>1, <1>4 DEF DustShape
    <2>4. RequestKnows(r)'
      BY <1>4, <2>3 DEF RequestKnows, Dust!Live
    <2> QED
      BY <1>2, <1>4, <2>1, <2>2, <2>4, RequestSet
  <1> DEFINE ended == [Dust!Idle EXCEPT !.step = "done"]
  <1>5. ended \in DustRecord /\ ended.parts = {} /\ ended.step = "done"
    BY DustAssumption DEF DustRecord, Dust!Steps, Dust!Idle
  <1>6. CASE Dust!BackingShort(r)
    <2> DEFINE short == old.short \cup {p[1] : p \in old.parts}
               n == [Dust!Idle EXCEPT !.step = "waiting", !.tries = old.tries + 1, !.short = short]
    <2>1. CASE old.tries < DustReselects
      <3>1. req' = [req EXCEPT ![r] = n]
        BY <1>6, <2>1 DEF Dust!BackingShort
      <3>2. short \in SUBSET DustBackings /\ old.tries + 1 \in 0..DustReselects
        BY <1>1, <2>1, DustAssumption DEF DustRecord
      <3> HIDE DEF short
      <3>3. n \in DustRecord /\ n.parts = {} /\ n.step = "waiting"
        BY <3>2 DEF DustRecord, Dust!Steps, Dust!Idle
      <3> QED
        BY <1>4, <3>1, <3>3
    <2>2. CASE ~(old.tries < DustReselects)
      BY <1>4, <1>5, <1>6, <2>2 DEF Dust!BackingShort
    <2> QED
      BY <2>1, <2>2
  <1>7. CASE Dust!NothingSent(r)
    BY <1>4, <1>5, <1>7 DEF Dust!NothingSent
  <1>8. CASE Dust!releaseBackingWhenSpent(r)
    <2> DEFINE n == [old EXCEPT !.step = "done", !.parts = {}]
    <2>1. n \in DustRecord /\ n.parts = {} /\ n.step = "done"
      BY <1>1 DEF DustRecord, Dust!Steps
    <2>2. req' = [req EXCEPT ![r] = n]
      BY <1>8 DEF Dust!releaseBackingWhenSpent
    <2> QED
      BY <1>4, <2>1, <2>2
  <1> QED
    BY <1>6, <1>7, <1>8

\* The wallet, a blocked event loop and the renewal timer.
LEMMA TimerSteps ==
    ASSUME DInv, (\E b \in DustBackings : Dust!WalletSync(b)) \/ Dust!Stall \/ \E r \in DustRequests, b \in DustBackings : Dust!keepLeaseAlive(r, b)
    PROVE  DInv'
  <1>1. req' = req /\ leaseSeq' = leaseSeq /\ lapsed \subseteq lapsed'
    BY DEF Dust!WalletSync, Dust!Stall, Dust!keepLeaseAlive
  <1>2. DustShape'
    <2>1. CASE \E b \in DustBackings : Dust!WalletSync(b)
      BY <2>1 DEF DInv, DustShape, Dust!WalletSync
    <2>2. CASE Dust!Stall
      <3>1. noteLocks' = [b \in DustBackings |-> IF Dust!Held(b) THEN [noteLocks[b] EXCEPT !.expired = TRUE] ELSE noteLocks[b]]
        BY <2>2 DEF Dust!Stall
      <3>2. noteLocks' \in [DustBackings -> LockRecord]
        BY <3>1 DEF DInv, DustShape, LockRecord
      <3>3. stalls' \in 0..DustStalls /\ lapsed' \subseteq DustRequests
        BY <2>2, DustAssumption DEF DInv, DustShape, Dust!Stall
      <3> QED
        BY <1>1, <2>2, <3>2, <3>3 DEF DInv, DustShape, Dust!Stall
    <2>3. ASSUME NEW b \in DustBackings, NEW r \in DustRequests, Dust!keepLeaseAlive(r, b) PROVE DustShape'
      <3>1. noteLocks' = [noteLocks EXCEPT ![b] = [noteLocks[b] EXCEPT !.expired = FALSE]]
        BY <2>3 DEF Dust!keepLeaseAlive
      <3>2. noteLocks' \in [DustBackings -> LockRecord]
        BY <3>1 DEF DInv, DustShape, LockRecord
      <3> QED
        BY <1>1, <2>3, <3>2 DEF DInv, DustShape, Dust!keepLeaseAlive
    <2> QED
      BY <2>1, <2>2, <2>3
  <1>3. ASSUME NEW s \in DustRequests, req[s].step \in Dust!Live, s \notin lapsed', NEW p \in req[s].parts
        PROVE  noteLocks'[p[1]] = [token |-> p[2], expired |-> FALSE]
    <2>1. noteLocks[p[1]] = [token |-> p[2], expired |-> FALSE] /\ p[1] \in DustBackings
      BY <1>1, <1>3 DEF DInv, DustShape, DustRecord, RequestKnows
    <2>2. CASE \E b \in DustBackings : Dust!WalletSync(b)
      BY <2>1, <2>2 DEF Dust!WalletSync
    <2>3. CASE Dust!Stall
      BY <1>3, <2>3 DEF Dust!Stall
    <2>4. ASSUME NEW b \in DustBackings, NEW r \in DustRequests, Dust!keepLeaseAlive(r, b)
          PROVE  noteLocks'[p[1]] = noteLocks[p[1]]
      <3>1. noteLocks[b].expired /\ noteLocks' = [noteLocks EXCEPT ![b].expired = FALSE]
        BY <2>4 DEF Dust!keepLeaseAlive
      <3>2. p[1] # b
        BY <2>1, <3>1
      <3> QED
        BY <2>1, <3>1, <3>2 DEF DInv, DustShape
    <2> QED
      BY <2>1, <2>2, <2>3, <2>4
  <1>4. TokensUsed'
    BY <1>1 DEF DInv, TokensUsed
  <1>5. \A s \in DustRequests : RequestKnows(s)'
    BY <1>1, <1>3 DEF DInv, RequestKnows
  <1> QED
    BY <1>2, <1>4, <1>5 DEF DInv

LEMMA DustStepInv == DInv /\ Dust!DustNext => DInv'
  BY QuietSteps, AcquireStep, ReleaseSteps, TimerSteps DEF Dust!DustNext

DustPart == part = "dust" => DInv

LEMMA DustPartHolds == Spec => []DustPart
  <1>1. Init => DustPart
    BY DustInitInv DEF Init, DustPart
  <1>2. DustPart /\ [Next]_vars => DustPart'
    <2> SUFFICES ASSUME DustPart, [Next]_vars PROVE DustPart'
      OBVIOUS
    <2>1. CASE UNCHANGED <<part, dustVars>>
      BY <2>1 DEF DustPart, DInv, DustShape, TokensUsed, RequestKnows, dustVars
    <2>2. CASE Only("dust") /\ Dust!DustNext
      BY <2>2, DustStepInv DEF DustPart, Only
    <2>3. CASE part # "dust" /\ part' = part
      BY <2>3 DEF DustPart
    <2>4. part = "dust" /\ Next => Only("dust") /\ Dust!DustNext
      BY DEF Next, Only
    <2>5. Next => part' = part
      BY DEF Next, Only
    <2>6. UNCHANGED vars => UNCHANGED <<part, dustVars>>
      BY DEF vars
    <2> QED
      BY <2>1, <2>2, <2>3, <2>4, <2>5, <2>6
  <1> QED
    BY <1>1, <1>2, PTL DEF Spec

\* Two requests whose reservations were kept never spend the same note at once, however many requests reserve,
\* give up, reselect and are blocked (acquireBacking, releaseNote, keepLeaseAlive).
THEOREM NoteSpentOnceAlways == Spec => []NoteSpentOnce
  <1>1. DInv => Dust!DustTypeOK
    BY DEF DInv, DustShape, DustRecord, LockRecord, Dust!DustTypeOK
  <1>2. DInv => Dust!NoteSpentOnce
    <2> SUFFICES ASSUME DInv, NEW r \in DustRequests \ lapsed, NEW s \in DustRequests \ lapsed, r # s,
                        NEW n \in Dust!AtStake(r) \cap Dust!AtStake(s)
                 PROVE  FALSE
      BY DEF Dust!NoteSpentOnce
    <2>1. ASSUME NEW t \in DustRequests \ lapsed, n \in Dust!AtStake(t)
          PROVE  \E p \in req[t].parts : p[1] = n[1] /\ noteLocks[n[1]].token = p[2]
      <3>1. req[t].step \in {"built", "sending", "draining"} /\ n \in req[t].notes
        BY <2>1 DEF Dust!AtStake
      <3>2. req[t].step \in Dust!Live /\ RequestKnows(t)
        BY <3>1 DEF DInv, Dust!Live
      <3>3. PICK p \in req[t].parts : p[1] = n[1]
        BY <3>1, <3>2 DEF RequestKnows
      <3>4. noteLocks[p[1]] = [token |-> p[2], expired |-> FALSE]
        BY <3>2 DEF RequestKnows
      <3> QED
        BY <3>3, <3>4
    <2>2. PICK p \in req[r].parts, q \in req[s].parts : p[2] = q[2]
      BY <2>1
    <2> QED
      BY <2>2 DEF DInv, TokensUsed
  <1>3. DustPart => NoteSpentOnce
    BY <1>1, <1>2 DEF DustPart, NoteSpentOnce
  <1> QED
    BY <1>3, DustPartHolds, PTL
=============================================================================
