------------------------------ MODULE SdkClient ------------------------------
(***************************************************************************)
(* A call through the SDK (src/sdk/client.mjs) and its server's side: the   *)
(* request, sent again when a reused connection turned out closed, the      *)
(* server's admission of both copies (background-jobs.ts), and waitForJob's *)
(* polls, which the server holds open (utils/long-poll.ts) while the job    *)
(* runs. A request or its answer may be lost, and answers may be late.      *)
(***************************************************************************)
EXTENDS Integers, Sequences, FiniteSets

CONSTANTS
    Callers,
    MaxCopies,   \* bound: requests a caller sends
    MaxWaiters,  \* WaiterPool.max
    WaitTimeout, PollGrace,
    MaxNow       \* bound: the clock

VARIABLES
    sdk,     \* each caller: act's and waitForJob's locals, and what the caller got
    copies,  \* each caller's requests as the server has them
    sdkJobs, \* BackgroundJobs
    polls,   \* getJobStatus of each caller, and jobWaiters; orphans: held for a client that has gone
    clock

sdkVars == <<sdk, copies, sdkJobs, polls, clock>>

Settled == {"succeeded", "failed", "reconciliation_required"}
Statuses == {"pending"} \cup Settled  \* pending: or running, external_execution, submitted
Answers == [to : {"wait"}] \cup [to : {"busy"}] \cup [to : {"job"}, job : Nat \ {0}]

SdkTypeOK ==
    /\ sdk \in [Callers -> [step : {"idle", "posting", "polling", "asking", "done"}, key : BOOLEAN, resent : BOOLEAN,
                            job : Nat, longPoll : BOOLEAN, deadline : Nat, firstPollFailure : -1..MaxNow, heard : 0..MaxNow,
                            result : Settled \cup {"none", "retryable", "refused", "unreachable", "slow"}]]
    /\ \A c \in Callers : \A n \in DOMAIN copies[c] : copies[c][n] \in [stage : {"sent", "checked", "answered", "lost"}, answer : Answers]
    /\ \A j \in DOMAIN sdkJobs : sdkJobs[j] \in [of : Callers, status : Statuses]
    /\ polls \in [at : [Callers -> {"none", "asked", "held"} \cup Statuses], count : 0..MaxWaiters, orphans : 0..MaxWaiters]
    /\ clock \in 0..MaxNow

SdkInit ==
    /\ \E keyed \in [Callers -> BOOLEAN], long \in BOOLEAN :
          sdk = [c \in Callers |-> [step |-> "idle", key |-> keyed[c], resent |-> FALSE, job |-> 0, longPoll |-> long,
                                    deadline |-> 0, firstPollFailure |-> -1, heard |-> 0, result |-> "none"]]
    /\ copies = [c \in Callers |-> <<>>]
    /\ sdkJobs = <<>>
    /\ polls = [at |-> [c \in Callers |-> "none"], count |-> 0, orphans |-> 0]
    /\ clock = 0

-----------------------------------------------------------------------------
(* The request and its copies.                                             *)

Sent(requests, c) == [requests EXCEPT ![c] = Append(@, [stage |-> "sent", answer |-> [to |-> "wait"]])]
Mine(c) == copies[c][Len(copies[c])]
EndCall(c, result) == [sdk EXCEPT ![c].step = "done", ![c].result = result]

\* A call; after an error that may be retried the caller calls again unchanged, if its request has a key.
act(c) ==
    /\ sdk[c].step = "idle" \/ (sdk[c].result = "retryable" /\ sdk[c].key)
    /\ Len(copies[c]) < MaxCopies
    /\ sdk' = [sdk EXCEPT ![c].step = "posting", ![c].resent = FALSE, ![c].result = "none"]
    /\ copies' = Sent(copies, c)
    /\ UNCHANGED <<sdkJobs, polls, clock>>

isSafeToRepeat(c) == sdk[c].key

\* The connection fails, whether or not the request got through; only a stale connection's request is sent again, once.
\* Another failure is an error that isRetryable accepts.
fetchFails(c) ==
    /\ sdk[c].step = "posting" /\ Mine(c).stage # "lost"
    /\ \E arrived \in BOOLEAN, stale \in BOOLEAN :
          LET left == IF Mine(c).stage = "sent" /\ ~arrived THEN [copies EXCEPT ![c][Len(copies[c])].stage = "lost"] ELSE copies
              again == stale /\ isSafeToRepeat(c) /\ ~sdk[c].resent
          IN  /\ again => Len(copies[c]) < MaxCopies
              /\ copies' = IF again THEN Sent(left, c) ELSE left
              /\ sdk' = IF again THEN [sdk EXCEPT ![c].resent = TRUE] ELSE EndCall(c, "retryable")
    /\ UNCHANGED <<sdkJobs, polls, clock>>

JobsOf(c) == {j \in DOMAIN sdkJobs : sdkJobs[j].of = c}
Answer(c, n, answer) == copies' = [copies EXCEPT ![c][n] = [stage |-> "answered", answer |-> answer]]
dedupExisting(c) == [to |-> "job", job |-> CHOOSE j \in JobsOf(c) : \A i \in JobsOf(c) : i <= j]

\* startJob: the quick check, only for a request with a key
quickCheck(c, n) ==
    /\ copies[c][n].stage = "sent"
    /\ IF sdk[c].key /\ JobsOf(c) # {} THEN Answer(c, n, dedupExisting(c))
       ELSE copies' = [copies EXCEPT ![c][n].stage = "checked"]
    /\ UNCHANGED <<sdk, sdkJobs, polls, clock>>

\* startJob: the insert. The unique key gives the job another copy inserted; a database that stays busy gives nothing.
insertJob(c, n) ==
    /\ copies[c][n].stage = "checked"
    /\ \/ /\ Answer(c, n, [to |-> "busy"])
          /\ UNCHANGED sdkJobs
       \/ /\ sdk[c].key /\ JobsOf(c) # {}
          /\ Answer(c, n, dedupExisting(c))
          /\ UNCHANGED sdkJobs
       \/ /\ ~sdk[c].key \/ JobsOf(c) = {}
          /\ sdkJobs' = Append(sdkJobs, [of |-> c, status |-> "pending"])
          /\ Answer(c, n, [to |-> "job", job |-> Len(sdkJobs) + 1])
    /\ UNCHANGED <<sdk, polls, clock>>

\* act reads the answer and starts to wait; JOB_ADMISSION_BUSY may be retried
readAnswer(c) ==
    /\ sdk[c].step = "posting" /\ Mine(c).stage = "answered"
    /\ sdk' = IF Mine(c).answer.to = "busy" THEN EndCall(c, "retryable")
              ELSE [sdk EXCEPT ![c].step = "polling", ![c].job = Mine(c).answer.job, ![c].deadline = clock + WaitTimeout,
                               ![c].firstPollFailure = -1, ![c].heard = clock]
    /\ UNCHANGED <<copies, sdkJobs, polls, clock>>

-----------------------------------------------------------------------------
(* The job and the polls.                                                  *)

\* The job runs to an outcome; a parked one is reconciled later.
jobMoves(j) ==
    /\ \E s \in CASE sdkJobs[j].status = "pending" -> Settled
                  [] sdkJobs[j].status = "reconciliation_required" -> {"succeeded", "failed"}
                  [] OTHER -> {} :
          sdkJobs' = [sdkJobs EXCEPT ![j].status = s]
    /\ UNCHANGED <<sdk, copies, polls, clock>>

poll(c) ==
    /\ sdk[c].step = "polling"
    /\ sdk' = [sdk EXCEPT ![c].step = "asking"]
    /\ polls' = [polls EXCEPT !.at[c] = "asked"]
    /\ UNCHANGED <<copies, sdkJobs, clock>>

StatusFor(c) == sdkJobs[sdk[c].job].status

\* getJobStatus: with waitMs a job that is not settled is held, unless too many are
getJobStatus(c) ==
    /\ polls.at[c] = "asked"
    /\ polls' = IF sdk[c].longPoll /\ clock < sdk[c].deadline /\ StatusFor(c) \notin Settled /\ polls.count < MaxWaiters
                THEN [polls EXCEPT !.at[c] = "held", !.count = @ + 1]
                ELSE [polls EXCEPT !.at[c] = StatusFor(c)]
    /\ UNCHANGED <<sdk, copies, sdkJobs, clock>>

\* holdUntil: the re-read that finds the job settled, or the time is up
holdUntil(c) ==
    /\ polls.at[c] = "held"
    /\ polls' = [polls EXCEPT !.at[c] = StatusFor(c), !.count = @ - 1]
    /\ UNCHANGED <<sdk, copies, sdkJobs, clock>>

\* holdUntil sees that its client has gone
clientGone ==
    /\ polls.orphans > 0
    /\ polls' = [polls EXCEPT !.orphans = @ - 1, !.count = @ - 1]
    /\ UNCHANGED <<sdk, copies, sdkJobs, clock>>

\* waitForJob reads the status
readStatus(c) ==
    /\ sdk[c].step = "asking" /\ polls.at[c] \in Statuses
    /\ sdk' = IF polls.at[c] \in Settled THEN EndCall(c, polls.at[c])
              ELSE IF clock > sdk[c].deadline THEN EndCall(c, "slow")
              ELSE [sdk EXCEPT ![c].step = "polling", ![c].firstPollFailure = -1, ![c].heard = clock]
    /\ polls' = [polls EXCEPT !.at[c] = "none"]
    /\ UNCHANGED <<copies, sdkJobs, clock>>

Left(c) == [polls EXCEPT !.at[c] = "none", !.orphans = IF polls.at[c] = "held" THEN @ + 1 ELSE @]
firstFailure(c) == IF sdk[c].firstPollFailure = -1 THEN clock ELSE sdk[c].firstPollFailure

\* waitForJob: the poll fails for a while; it goes on within the grace and the deadline
pollFails(c) ==
    /\ sdk[c].step = "asking"
    /\ sdk' = IF clock - firstFailure(c) > PollGrace \/ clock > sdk[c].deadline THEN EndCall(c, "unreachable")
              ELSE [sdk EXCEPT ![c].step = "polling", ![c].firstPollFailure = firstFailure(c)]
    /\ polls' = Left(c)
    /\ UNCHANGED <<copies, sdkJobs, clock>>

\* waitForJob: the server refuses the poll; one that does not know waitMs is asked without it from then on
pollRefused(c) ==
    /\ sdk[c].step = "asking" /\ polls.at[c] = "asked"
    /\ \/ sdk' = EndCall(c, "refused")
       \/ /\ sdk[c].longPoll /\ clock < sdk[c].deadline
          /\ sdk' = [d \in Callers |-> [sdk[d] EXCEPT !.longPoll = FALSE, !.step = IF d = c THEN "polling" ELSE @]]
    /\ polls' = Left(c)
    /\ UNCHANGED <<copies, sdkJobs, clock>>

\* only a wait looks at the clock
Tick ==
    /\ clock < MaxNow /\ \E c \in Callers : sdk[c].step \in {"polling", "asking"}
    /\ clock' = clock + 1
    /\ UNCHANGED <<sdk, copies, sdkJobs, polls>>

SdkNext ==
    \/ \E c \in Callers : \/ act(c) \/ fetchFails(c) \/ readAnswer(c) \/ poll(c) \/ getJobStatus(c) \/ holdUntil(c)
                          \/ readStatus(c) \/ pollFails(c) \/ pollRefused(c)
                          \/ \E n \in DOMAIN copies[c] : quickCheck(c, n) \/ insertJob(c, n)
    \/ \E j \in DOMAIN sdkJobs : jobMoves(j)
    \/ clientGone \/ Tick

SdkSpec == SdkInit /\ [][SdkNext]_sdkVars

-----------------------------------------------------------------------------
(* Properties.                                                             *)

\* One call starts one job, whatever connection failed when and however often the request was sent again.
CallRunsOnce == \A c \in Callers : Cardinality(JobsOf(c)) <= 1

\* What the caller is told is what became of its own job: an outcome is final unless the job was parked.
OutcomeIsTheJobs ==
    \A c \in Callers : sdk[c].result \in Settled =>
        /\ sdkJobs[sdk[c].job].of = c
        /\ sdk[c].result # "reconciliation_required" => sdk[c].result = StatusFor(c)
        /\ StatusFor(c) \in Settled

\* The SDK gives up on failing polls only when none was answered for longer than the grace, or the deadline has passed.
GraceIsKept ==
    \A c \in Callers : sdk[c].result = "unreachable" => clock - sdk[c].heard > PollGrace \/ clock > sdk[c].deadline

\* Every held poll is counted, those whose client has gone until that is noticed.
WaitersCounted == polls.count = polls.orphans + Cardinality({c \in Callers : polls.at[c] = "held"})
=============================================================================
