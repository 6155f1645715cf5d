---------------------------- MODULE MC_JobReorg -----------------------------
(* One process, reorganisations of the chain and database writes that fail. *)
EXTENDS JobLifecycle, TLC

MCWorkerId == [p \in Procs |-> p]
Symmetry == Permutations(Txs)

\* Sending stays safe while the chain reorganises and writes fail: only the recorded transaction can land, nothing
\* is built again after a send, a job that says nothing was sent has sent nothing, a grant is charged once, and a
\* succeeded job has its result recorded (announceSubmit, requeueJob, failJob, reserveDeployBudget, finalizeIdentifierKeyedJob).
SendIsSafe == OnlyJobHashCanLand /\ NoReplayAfterSend /\ NothingSentIsTrue /\ ChargedOnce /\ SucceededIsRecorded
=============================================================================
