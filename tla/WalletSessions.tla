----------------------------- MODULE WalletSessions -----------------------------
(***************************************************************************)
(* Sessions of one wallet (sessions/wallet-sessions.ts, its lifecycle and  *)
(* sweep, and the invalidation of admin-service.ts) and the wallet facade  *)
(* in the worker's memory that they share. Each handler reads the row and  *)
(* works on it later; reads, writes and the eviction are steps. Building   *)
(* and evicting a facade take the lock of the account (withKeyedLock).     *)
(***************************************************************************)
EXTENDS Integers, FiniteSets

CONSTANTS
    Sessions,    \* sessions of the wallet
    Owner,       \* user of each session
    Sponsors,    \* sessions configured as platform fee sponsors
    MaxRestarts  \* bound: restarts of the process

VARIABLES
    row,      \* WalletSessions: known, active, expired, and whether the viewing key and the seed are stored
    facade,   \* the wallet is in the worker's memory
    lock,     \* who holds the lock of the account: sets of tasks
    signer,   \* connectWalletForSigning of each session: "idle" or "derive"
    closer,   \* disconnectWallet and invalidateSession: step, caller, and whether a viewing key was read
    sweeper,  \* startSessionCleanup: step and the rows it selected
    job,      \* executeWalletCommand of each session: "none", "queued", "ready"
    left,     \* the facade is loaded and nobody is about to decide about it: a step of a closing call failed, or a job
              \* built it although its session had been closed after the job read it
    restarts

sessionVars == <<row, facade, lock, signer, closer, sweeper, job, left, restarts>>

NoRow == [known |-> FALSE, active |-> FALSE, expired |-> FALSE, vk |-> FALSE, seed |-> FALSE]
Idle == [step |-> "idle", by |-> "user", vk |-> FALSE]
Sweep == [step |-> "idle", rows |-> {}]
Callers == {"user", "admin"}

SessionTypeOK ==
    /\ row \in [Sessions -> [known : BOOLEAN, active : BOOLEAN, expired : BOOLEAN, vk : BOOLEAN, seed : BOOLEAN]]
    /\ facade \in BOOLEAN /\ left \in BOOLEAN /\ restarts \in 0..MaxRestarts
    /\ lock \subseteq Sessions \cup {"sweep"} /\ Cardinality(lock) <= 1
    /\ signer \in [Sessions -> {"idle", "derive"}]
    /\ closer \in [Sessions -> [step : {"idle", "read", "closed", "evict"}, by : Callers, vk : BOOLEAN]]
    /\ sweeper \in [step : {"idle", "read", "closed", "evict"}, rows : SUBSET Sessions]
    /\ job \in [Sessions -> {"none", "queued", "ready"}]

SessionInit ==
    /\ row = [s \in Sessions |-> NoRow] /\ facade = FALSE /\ lock = {}
    /\ signer = [s \in Sessions |-> "idle"] /\ closer = [s \in Sessions |-> Idle] /\ sweeper = Sweep
    /\ job = [s \in Sessions |-> "none"] /\ left = FALSE /\ restarts = 0

-----------------------------------------------------------------------------
isSessionExpired(s) == row[s].expired /\ s \notin Sponsors

Closed(s) == [row[s] EXCEPT !.active = FALSE, !.vk = FALSE, !.seed = FALSE]

\* a session is active, or a call that closed one is still to decide about the wallet
Accounted ==
    \/ \E s \in Sessions : row[s].active \/ closer[s].step \in {"closed", "evict"}
    \/ sweeper.step \in {"closed", "evict"}

connectWallet(s) ==
    /\ ~row[s].known
    /\ row' = [row EXCEPT ![s] = [NoRow EXCEPT !.known = TRUE, !.active = TRUE, !.vk = TRUE]]
    /\ left' = FALSE
    /\ UNCHANGED <<facade, lock, signer, closer, sweeper, job, restarts>>

Expire(s) ==
    /\ row[s].active /\ ~row[s].expired
    /\ row' = [row EXCEPT ![s].expired = TRUE]
    /\ UNCHANGED <<facade, lock, signer, closer, sweeper, job, left, restarts>>

\* the session is read and its viewing key is derived again from the seed, which takes long
readForSigning(s) ==
    /\ signer[s] = "idle" /\ row[s].active /\ ~isSessionExpired(s)
    /\ signer' = [signer EXCEPT ![s] = "derive"]
    /\ UNCHANGED <<row, facade, lock, closer, sweeper, job, left, restarts>>

\* the seed is stored by session and user; a job builds the facade (prewarm)
connectWalletForSigning(s) ==
    /\ signer[s] = "derive"
    /\ signer' = [signer EXCEPT ![s] = "idle"]
    /\ row' = [row EXCEPT ![s].seed = TRUE]
    /\ job' = [job EXCEPT ![s] = IF @ = "none" THEN "queued" ELSE @]
    /\ UNCHANGED <<facade, lock, closer, sweeper, left, restarts>>

\* any later command of the session; checkSigningSession
startWalletJob(s) ==
    /\ job[s] = "none" /\ row[s].active /\ row[s].vk /\ row[s].seed /\ ~isSessionExpired(s)
    /\ job' = [job EXCEPT ![s] = "queued"]
    /\ UNCHANGED <<row, facade, lock, signer, closer, sweeper, left, restarts>>

\* the job reads the session again; then it builds the facade unless that is loaded
executeWalletCommand(s) ==
    /\ job[s] = "queued"
    /\ job' = [job EXCEPT ![s] = IF row[s].active /\ row[s].vk /\ row[s].seed /\ ~isSessionExpired(s) THEN "ready" ELSE "none"]
    /\ UNCHANGED <<row, facade, lock, signer, closer, sweeper, left, restarts>>

getOrBuildWalletFacade(s) ==
    /\ job[s] = "ready" /\ lock = {}
    /\ facade' = TRUE
    /\ left' = IF facade THEN left ELSE ~Accounted
    /\ job' = [job EXCEPT ![s] = "none"]
    /\ UNCHANGED <<row, lock, signer, closer, sweeper, restarts>>

-----------------------------------------------------------------------------
(* Closing.                                                                *)

\* the owner's own session or, for an admin, any active one
readForClose(s, by) ==
    /\ closer[s].step = "idle" /\ row[s].known /\ (by = "admin" => row[s].active)
    /\ closer' = [closer EXCEPT ![s] = [step |-> "read", by |-> by, vk |-> row[s].vk]]
    /\ UNCHANGED <<row, facade, lock, signer, sweeper, job, left, restarts>>

\* deactivated first; an expired session of a disconnect is closed the same way
deactivate(s) ==
    /\ closer[s].step = "read"
    /\ row' = [row EXCEPT ![s] = Closed(s)]
    /\ closer' = [closer EXCEPT ![s] = IF @.vk THEN [@ EXCEPT !.step = "closed"] ELSE Idle]
    /\ UNCHANGED <<facade, lock, signer, sweeper, job, left, restarts>>

\* Mutant: a session that was closed a moment ago still keeps the wallet for its user.
hasSessionForWallet(user) == \E s \in Sessions : row[s].known /\ Owner[s] = user /\ ~isSessionExpired(s)

hasLiveSessionForWallet(user) ==
    \E s \in Sessions : row[s].active /\ (Owner[s] = user \/ row[s].seed) /\ ~isSessionExpired(s)

\* under the lock of the account: a facade another session needs stays, an admin's call ignores that
checkShared(s) ==
    /\ closer[s].step = "closed" /\ lock = {}
    /\ IF closer[s].by = "user" /\ hasLiveSessionForWallet(Owner[s])
       THEN closer' = [closer EXCEPT ![s] = Idle] /\ UNCHANGED lock
       ELSE closer' = [closer EXCEPT ![s].step = "evict"] /\ lock' = {s}
    /\ UNCHANGED <<row, facade, signer, sweeper, job, left, restarts>>

evictWalletFacade(s) ==
    /\ closer[s].step = "evict"
    /\ facade' = FALSE /\ left' = FALSE /\ lock' = {}
    /\ closer' = [closer EXCEPT ![s] = Idle]
    /\ UNCHANGED <<row, signer, sweeper, job, restarts>>

\* A read, a write, the decryption or the worker's unloading fails, which is logged: the wallet stays as it is.
closingFails(s) ==
    /\ closer[s].step # "idle"
    /\ closer' = [closer EXCEPT ![s] = Idle]
    /\ lock' = IF closer[s].step = "evict" THEN {} ELSE lock
    /\ UNCHANGED <<row, facade, signer, sweeper, job, restarts>>
    /\ left' = (left \/ (facade /\ ~Accounted'))

\* the cleanup timer: the rows are selected, closed, and one of them decides about the facade
startSessionCleanup ==
    /\ sweeper.step = "idle"
    /\ LET expiring == {s \in Sessions : row[s].active /\ isSessionExpired(s)}
       IN  expiring # {} /\ sweeper' = [step |-> "read", rows |-> expiring]
    /\ UNCHANGED <<row, facade, lock, signer, closer, job, left, restarts>>

sweepRows ==
    /\ sweeper.step = "read"
    /\ row' = [s \in Sessions |-> IF s \in sweeper.rows THEN Closed(s) ELSE row[s]]
    /\ sweeper' = [sweeper EXCEPT !.step = "closed"]
    /\ UNCHANGED <<facade, lock, signer, closer, job, left, restarts>>

sweepShared ==
    /\ sweeper.step = "closed" /\ lock = {}
    /\ \E s \in sweeper.rows :
          IF hasLiveSessionForWallet(Owner[s])
          THEN sweeper' = Sweep /\ UNCHANGED lock
          ELSE sweeper' = [sweeper EXCEPT !.step = "evict"] /\ lock' = {"sweep"}
    /\ UNCHANGED <<row, facade, signer, closer, job, left, restarts>>

sweepEvict ==
    /\ sweeper.step = "evict"
    /\ facade' = FALSE /\ left' = FALSE /\ lock' = {} /\ sweeper' = Sweep
    /\ UNCHANGED <<row, signer, closer, job, restarts>>

\* the same for the timer; rows it did not close yet are selected again
sweepFails ==
    /\ sweeper.step # "idle"
    /\ sweeper' = Sweep
    /\ lock' = IF sweeper.step = "evict" THEN {} ELSE lock
    /\ UNCHANGED <<row, facade, signer, closer, job, restarts>>
    /\ left' = (left \/ (facade /\ ~Accounted'))

\* its memory goes with it; or it unloads the wallet after all, the call having waited too long
workerExits ==
    /\ facade /\ facade' = FALSE /\ left' = FALSE
    /\ UNCHANGED <<row, lock, signer, closer, sweeper, job, restarts>>

\* a restart loses what is in memory; view-only sessions of the old process are closed, jobs are taken up again
closeSessionsFromPreviousProcess ==
    /\ restarts < MaxRestarts
    /\ restarts' = restarts + 1
    /\ row' = [s \in Sessions |-> IF row[s].active /\ ~row[s].seed /\ s \notin Sponsors THEN Closed(s) ELSE row[s]]
    /\ facade' = FALSE /\ left' = FALSE /\ lock' = {}
    /\ signer' = [s \in Sessions |-> "idle"] /\ closer' = [s \in Sessions |-> Idle] /\ sweeper' = Sweep
    /\ job' = [s \in Sessions |-> IF job[s] = "ready" THEN "queued" ELSE job[s]]

SessionNext ==
    \/ \E s \in Sessions :
          \/ connectWallet(s) \/ Expire(s) \/ readForSigning(s) \/ connectWalletForSigning(s) \/ startWalletJob(s)
          \/ executeWalletCommand(s) \/ getOrBuildWalletFacade(s)
          \/ \E by \in Callers : readForClose(s, by)
          \/ deactivate(s) \/ checkShared(s) \/ evictWalletFacade(s) \/ closingFails(s)
    \/ startSessionCleanup \/ sweepRows \/ sweepShared \/ sweepEvict \/ sweepFails
    \/ workerExits \/ closeSessionsFromPreviousProcess

SessionSpec == SessionInit /\ [][SessionNext]_sessionVars

-----------------------------------------------------------------------------
(* Properties.                                                             *)

\* Keys do not stay in the worker's memory without a session: a loaded wallet has an active session, or a call that
\* closed one is still to decide about it, with two exceptions. A step of the closing call failed, which the code takes
\* as "best effort" and leaves the wallet loaded until the worker exits or the next session of it closes; or a job that
\* had read its session before the close built the wallet afterwards. Two sessions closed at the same time do not both
\* leave the wallet to the other (evictFacadeUnlessShared).
NoOrphanFacade == facade /\ ~left => Accounted

=============================================================================
