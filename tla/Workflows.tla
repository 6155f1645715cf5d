------------------------------- MODULE Workflows -------------------------------
(***************************************************************************)
(* Proof workflows (submission/actions/predicates.ts, executors/            *)
(* contract-command.ts, background-jobs.ts). A workflow is a parent job      *)
(* that runs each step as a job of its own, waits for it and records the     *)
(* proof. A parent that cannot know how a step ended is parked, queued again *)
(* once its steps succeeded, and then finds them by their fixed keys.        *)
(***************************************************************************)
EXTENDS Integers, Sequences, FiniteSets

CONSTANTS
    Parents,      \* workflow jobs
    HeavySlots,   \* how many proofs run at once
    ParentSlots,  \* how many workflows run at once
    MaxClock,     \* bound: seconds that pass
    MaxBuilds,    \* bound: how often the contract name is registered again
    MaxRestarts   \* bound: process restarts

VARIABLES
    parent,    \* parent jobs: stored command, status, error code, step and what the running process does with it
    child,     \* step jobs by parent and step
    row,       \* the PredicateAttestations rows of each parent: "none", "open" or "proven"
    build,     \* the contract build the name points to
    grant,     \* whether the agent grant is in force
    clock,     \* wall clock in seconds
    restarts   \* process restarts so far

workflowVars == <<parent, child, row, build, grant, clock, restarts>>

Steps == {"anchorContentRoot", "anchorContentRootA", "anchorContentRootB", "prove"}

NoStep == [status |-> "none", stamp |-> 0, build |-> 0, tx |-> "none", landed |-> 0]

NoParent == [status |-> "none", code |-> "", steps |-> <<>>, build |-> 0, given |-> FALSE, granted |-> FALSE, at |-> 1, doing |-> "none"]

-----------------------------------------------------------------------------
(* The workflows: the steps of each operation                               *)

\* one optional anchor, then the proof of one field
fieldSteps(root) == (IF root THEN <<"anchorContentRoot">> ELSE <<>>) \o <<"prove">>

\* an optional anchor for each of the two documents, then the comparison
documentSteps(rootA, rootB) ==
    (IF rootA THEN <<"anchorContentRootA">> ELSE <<>>) \o (IF rootB THEN <<"anchorContentRootB">> ELSE <<>>) \o <<"prove">>

\* anchor and claims travel in one transaction
batchSteps == <<"prove">>

\* the stored command of each action: its steps, whether the caller chose an expiry, whether an agent grant asked
issueFieldPredicateAttestation(root, given, granted) == [steps |-> fieldSteps(root), given |-> given, granted |-> granted]

issueFieldEqualityAttestation(root, given, granted) == [steps |-> fieldSteps(root), given |-> given, granted |-> granted]

issueFieldMembershipAttestation(root, given, granted) == [steps |-> fieldSteps(root), given |-> given, granted |-> granted]

issueDocumentIntegrityAttestation(rootA, rootB, given, granted) ==
    [steps |-> documentSteps(rootA, rootB), given |-> given, granted |-> granted]

issueDocumentDiffAttestation(rootA, rootB, given, granted) ==
    [steps |-> documentSteps(rootA, rootB), given |-> given, granted |-> granted]

issueFieldPredicateAttestationBatch(given, granted) == [steps |-> batchSteps, given |-> given, granted |-> granted]

\* the commands that may be stored
Commands ==
    UNION {{issueFieldPredicateAttestation(a, given, granted), issueFieldEqualityAttestation(a, given, granted),
            issueFieldMembershipAttestation(a, given, granted), issueDocumentIntegrityAttestation(a, b, given, granted),
            issueDocumentDiffAttestation(a, b, given, granted), issueFieldPredicateAttestationBatch(given, granted)} :
           a, b, given, granted \in BOOLEAN}

WorkflowInit ==
    /\ parent = [p \in Parents |-> NoParent]
    /\ child = [p \in Parents |-> [s \in Steps |-> NoStep]]
    /\ row = [p \in Parents |-> "none"]
    /\ build = 1 /\ grant = TRUE /\ clock = 1 /\ restarts = 0

\* startJobWithRows: the rows and the job are written together, the build the name points to with them
startJobWithRows(p) ==
    /\ parent[p].status = "none"
    /\ \E c \in Commands :
         /\ c.granted => grant
         /\ parent' = [parent EXCEPT ![p] = [NoParent EXCEPT !.status = "pending", !.steps = c.steps, !.given = c.given,
                                                             !.granted = c.granted, !.build = build]]
    /\ row' = [row EXCEPT ![p] = "open"]
    /\ UNCHANGED <<child, build, grant, clock, restarts>>

-----------------------------------------------------------------------------
(* Slots                                                                    *)

\* the limit a job counts against: workflow parents have their own
concurrencyClass(isParent) == IF isParent THEN "workflow" ELSE "heavy"

slotsOf(class) == IF class = "workflow" THEN ParentSlots ELSE HeavySlots

inFlight(class) ==
    (IF concurrencyClass(TRUE) = class THEN Cardinality({p \in Parents : parent[p].status = "running"}) ELSE 0)
      + (IF concurrencyClass(FALSE) = class THEN Cardinality({x \in Parents \X Steps : child[x[1]][x[2]].status \in {"running", "sent"}}) ELSE 0)

acquire(isParent) == inFlight(concurrencyClass(isParent)) < slotsOf(concurrencyClass(isParent))

-----------------------------------------------------------------------------
(* The parent                                                               *)

Fail(p, code) == parent' = [parent EXCEPT ![p].status = "failed", ![p].code = code, ![p].doing = "none"]

Park(p) == parent' = [parent EXCEPT ![p].status = "parked", ![p].doing = "none"]

\* a job runs only while its grant is in force and the name still points to the build it was queued for
mayExecute(p, digest) == build = digest /\ (parent[p].granted => grant)

\* dispatchJob and the checks of executeContractCommand, which start the steps from the first
dispatchJob(p) ==
    /\ parent[p].status = "pending" /\ acquire(TRUE)
    /\ IF mayExecute(p, parent[p].build)
         THEN parent' = [parent EXCEPT ![p].status = "running", ![p].at = 1, ![p].doing = "start"]
         ELSE Fail(p, "refused")
    /\ UNCHANGED <<child, row, build, grant, clock, restarts>>

Running(p, doing) == parent[p].status = "running" /\ parent[p].doing = doing

StepOf(p) == parent[p].steps[parent[p].at]

\* the expiry of the claim, an argument of the proof: what the caller chose, else the clock plus a fixed lifetime
claimValidUntil(p) == IF parent[p].given THEN 0 ELSE clock

\* what the arguments of the step depend on; an anchor carries no expiry
stampOf(p) == IF StepOf(p) = "prove" THEN claimValidUntil(p) ELSE 0

\* the build a step is queued for: the parent's, even when the name has moved on
digestOfStep(p) == parent[p].build

\* Mutant: only a step job that is still under way is found.
dedupLive(p) ==
    LET c == child[p][StepOf(p)]
    IN  IF c.status \in {"pending", "running"} THEN "found" ELSE "none"

\* dedupExisting: the step job of this key, a conflict when its payload differs, or none
dedupExisting(p) ==
    LET c == child[p][StepOf(p)]
    IN  IF c.status = "none" THEN "none" ELSE IF <<c.stamp, c.build>> = <<stampOf(p), digestOfStep(p)>> THEN "found" ELSE "conflict"

\* startJob: the new row of the step, with what its payload's fingerprint tells apart
startJob(p) ==
    [child EXCEPT ![p][StepOf(p)] = [@ EXCEPT !.status = "pending", !.stamp = stampOf(p), !.build = digestOfStep(p), !.tx = "none"]]

\* runChildCommand: finds the step job of an earlier run or queues it
runChildCommand(p) ==
    /\ Running(p, "start")
    /\ CASE dedupExisting(p) = "conflict" -> Fail(p, "conflict") /\ UNCHANGED child
         [] dedupExisting(p) = "found" -> parent' = [parent EXCEPT ![p].doing = "wait"] /\ UNCHANGED child
         [] OTHER -> /\ parent' = [parent EXCEPT ![p].doing = "wait"]
                     /\ child' = startJob(p)
    /\ UNCHANGED <<row, build, grant, clock, restarts>>

\* an earlier step succeeded, may be on chain, or could not be read
hasCompletedChild(p, unread) ==
    unread \/ \E s \in Steps : child[p][s].status \in {"succeeded", "parked"} \/ child[p][s].tx # "none"

\* the step could not be queued because the database stayed locked
admissionBusy(p) ==
    /\ Running(p, "start") /\ dedupExisting(p) = "none"
    /\ \E unread \in BOOLEAN : IF hasCompletedChild(p, unread) THEN Park(p) ELSE Fail(p, "busy")
    /\ UNCHANGED <<child, row, build, grant, clock, restarts>>

\* the wait of runChildCommand ends with the step
childEnded(p) ==
    /\ Running(p, "wait")
    /\ LET c == child[p][StepOf(p)]
       IN  \/ c.status = "parked" /\ Park(p)
           \/ c.status = "failed" /\ Fail(p, "child")
           \/ /\ c.status = "succeeded"
              /\ parent' = [parent EXCEPT ![p].at = IF @ < Len(parent[p].steps) THEN @ + 1 ELSE @,
                                          ![p].doing = IF parent[p].at < Len(parent[p].steps) THEN "start" ELSE "record"]
    /\ UNCHANGED <<child, row, build, grant, clock, restarts>>

\* the wait ends with its deadline while the step is still open
childWaitTimesOut(p) ==
    /\ Running(p, "wait") /\ child[p][StepOf(p)].status \in {"pending", "running", "sent"}
    /\ Park(p)
    /\ UNCHANGED <<child, row, build, grant, clock, restarts>>

\* Mutant: the workflow goes on although the row could not be written.
recordProvenMaybe(p) ==
    /\ Running(p, "record")
    /\ row' \in {row, [row EXCEPT ![p] = "proven"]}
    /\ parent' = [parent EXCEPT ![p].doing = "finish"]
    /\ UNCHANGED <<child, build, grant, clock, restarts>>

\* recordProven: one statement for every row; a write that keeps failing parks the parent
recordProven(p) ==
    /\ Running(p, "record")
    /\ \/ row' = [row EXCEPT ![p] = "proven"] /\ parent' = [parent EXCEPT ![p].doing = "finish"]
       \/ Park(p) /\ UNCHANGED row
    /\ UNCHANGED <<child, build, grant, clock, restarts>>

\* markSucceeded, or RESULT_PERSIST_FAILED when the result cannot be written
markSucceeded(p) ==
    /\ Running(p, "finish")
    /\ \/ parent' = [parent EXCEPT ![p].status = "succeeded", ![p].doing = "none"]
       \/ Fail(p, "persist")
    /\ UNCHANGED <<child, row, build, grant, clock, restarts>>

\* a parked parent is queued again once every step job succeeded, and fails with a failed one
reconcileBackgroundJobs(p) ==
    /\ parent[p].status = "parked"
    /\ LET states == {child[p][s].status : s \in {t \in Steps : child[p][t].status # "none"}}
       IN  \/ states = {"succeeded"} /\ parent' = [parent EXCEPT ![p].status = "pending"]
           \/ "failed" \in states /\ Fail(p, "child")
    /\ UNCHANGED <<child, row, build, grant, clock, restarts>>

-----------------------------------------------------------------------------
(* The steps                                                                *)

SetChild(p, s, c) == child' = [child EXCEPT ![p][s] = c] /\ UNCHANGED <<parent, row, build, grant, clock, restarts>>

executeStep(p, s) == LET c == child[p][s] IN
    \/ c.status = "pending" /\ acquire(FALSE) /\ SetChild(p, s, [c EXCEPT !.status = "running"])
    \* the checks when the step runs, or proving, fail before anything is sent
    \/ c.status = "running" /\ SetChild(p, s, [c EXCEPT !.status = "failed"])
    \* the transaction is announced and sent
    \/ c.status = "running" /\ mayExecute(p, c.build) /\ SetChild(p, s, [c EXCEPT !.status = "sent", !.tx = "sent"])
    \/ c.status = "sent" /\ c.tx = "landed" /\ SetChild(p, s, [c EXCEPT !.status = "succeeded"])
    \* the outcome of the send stays unknown
    \/ c.status = "sent" /\ SetChild(p, s, [c EXCEPT !.status = "parked"])

\* the chain takes a sent transaction
landTx(p, s) ==
    /\ child[p][s].tx = "sent"
    /\ SetChild(p, s, [child[p][s] EXCEPT !.tx = "landed", !.landed = @ + 1])

\* the confirmer settles a parked step: landed, or expired without having been included
settleStep(p, s) == LET c == child[p][s] IN
    /\ c.status = "parked"
    /\ SetChild(p, s, IF c.tx = "landed" THEN [c EXCEPT !.status = "succeeded"] ELSE [c EXCEPT !.status = "failed", !.tx = "expired"])

-----------------------------------------------------------------------------
(* The surroundings                                                         *)

\* registerContract points the name at another build
registerContract ==
    /\ build < MaxBuilds /\ build' = build + 1
    /\ UNCHANGED <<parent, child, row, grant, clock, restarts>>

revokeAgentGrant == grant /\ grant' = FALSE /\ UNCHANGED <<parent, child, row, build, clock, restarts>>

Tick == clock < MaxClock /\ clock' = clock + 1 /\ UNCHANGED <<parent, child, row, build, grant, restarts>>

\* recoverInterruptedJobs, then dropPendingJobsForClosedSessions for the sessions the restart closed
recoverInterruptedJobs ==
    /\ restarts < MaxRestarts /\ restarts' = restarts + 1
    /\ \E closed \in SUBSET Parents :
         /\ parent' = [p \in Parents |->
              IF parent[p].status \in {"pending", "running"}
                THEN [parent[p] EXCEPT !.status = IF p \in closed THEN "failed" ELSE "pending", !.code = IF p \in closed THEN "session" ELSE @, !.doing = "none"]
                ELSE parent[p]]
         /\ child' = [p \in Parents |-> [s \in Steps |->
              CASE child[p][s].status \in {"pending", "running"} -> [child[p][s] EXCEPT !.status = IF p \in closed THEN "failed" ELSE "pending"]
                [] child[p][s].status = "sent" -> [child[p][s] EXCEPT !.status = "parked"]
                [] OTHER -> child[p][s]]]
    /\ UNCHANGED <<row, build, grant, clock>>

WorkflowNext ==
    \/ \E p \in Parents : \/ startJobWithRows(p) \/ dispatchJob(p) \/ runChildCommand(p) \/ admissionBusy(p) \/ childEnded(p)
                          \/ childWaitTimesOut(p) \/ recordProven(p) \/ markSucceeded(p) \/ reconcileBackgroundJobs(p)
                          \/ \E s \in Steps : executeStep(p, s) \/ landTx(p, s) \/ settleStep(p, s)
    \/ registerContract \/ revokeAgentGrant \/ Tick \/ recoverInterruptedJobs

WorkflowSpec == WorkflowInit /\ [][WorkflowNext]_workflowVars

-----------------------------------------------------------------------------
\* Whatever parks, restarts and re-runs a workflow goes through, each of its steps lands on chain at most once.
StepLandsOnce == \A p \in Parents, s \in Steps : child[p][s].landed <= 1

\* A succeeded workflow recorded its proof, and every step of it is on chain.
SucceededIsProven ==
    \A p \in Parents : /\ parent[p].status = "succeeded" => row[p] = "proven"
                       /\ row[p] = "proven" => \A i \in DOMAIN parent[p].steps : child[p][parent[p].steps[i]].tx = "landed"
=============================================================================
