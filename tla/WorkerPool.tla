------------------------------ MODULE WorkerPool ------------------------------
(***************************************************************************)
(* Calls of the main thread to one wallet worker slot                       *)
(* (midnight/wallet-worker-client.ts, worker/rpc.ts, worker/rotation.ts):   *)
(* the worker crashes, rotates after too many contract versions, or is      *)
(* stopped. Replies come on a port of the call, announcements and the exit  *)
(* on the worker's own, so the two overtake each other.                     *)
(***************************************************************************)
EXTENDS Integers, Sequences, FiniteSets

CONSTANTS
    Reads, Submits,  \* calls; a submitting call may send a transaction
    MaxGenerations,  \* NIGHTGATE_WORKER_MAX_GENERATIONS
    MaxWorkers       \* bound: threads the slot starts

VARIABLES
    slot,    \* WorkerSlot: the threads it knows by number, 0 for none
    thread,  \* rotationState of each thread, and whether it runs
    toMain,  \* messages of each thread on its own port, its exit last
    call,    \* rpc() of each call on the main thread
    running, \* calls a thread runs: pairs of thread and call
    begun,   \* history: the threads that began a call
    stop     \* stopWorkerSlot

poolVars == <<slot, thread, toMain, call, running, begun, stop>>

Calls == Reads \cup Submits
Workers == 1..MaxWorkers

PoolTypeOK ==
    /\ slot \in [worker : 0..MaxWorkers, spawned : 0..MaxWorkers, drainingWorker : 0..MaxWorkers, rotationAnnouncedBy : 0..MaxWorkers, stoppingWorker : 0..MaxWorkers, started : BOOLEAN]
    /\ thread \in [Workers -> [up : BOOLEAN, imported : Nat, pending : BOOLEAN, draining : BOOLEAN, finalizing : BOOLEAN]]
    /\ toMain \in [Workers -> Seq({"rotating", "rotation-done", "exit"})]
    /\ call \in [Calls -> [step : {"idle", "wait", "drain", "post", "sent", "begun", "answered", "refused", "done"}, attempt : 0..1, on : 0..MaxWorkers, result : {"none", "ok", "error"}]]
    /\ running \subseteq Workers \X Calls
    /\ begun \in [Calls -> SUBSET Workers]
    /\ stop \in {"no", "asked", "waits", "flushed", "done"}

PoolInit ==
    /\ slot = [worker |-> 1, spawned |-> 1, drainingWorker |-> 0, rotationAnnouncedBy |-> 0, stoppingWorker |-> 0, started |-> TRUE]
    /\ thread = [w \in Workers |-> [up |-> w = 1, imported |-> 0, pending |-> FALSE, draining |-> FALSE, finalizing |-> FALSE]]
    /\ toMain = [w \in Workers |-> <<>>]
    /\ call = [c \in Calls |-> [step |-> "idle", attempt |-> 0, on |-> 0, result |-> "none"]]
    /\ running = {} /\ begun = [c \in Calls |-> {}] /\ stop = "no"

Pending(c) == call[c].step \in {"sent", "begun", "answered", "refused"}
Settled(c, result) == [call EXCEPT ![c].step = "done", ![c].result = result]

-----------------------------------------------------------------------------
(* The main thread: rpc().                                                 *)

rpc(c) ==
    /\ call[c].step = "idle"
    /\ call' = [call EXCEPT ![c].step = "wait"]
    /\ UNCHANGED <<slot, thread, toMain, running, begun, stop>>

\* a call waits for the exit of the worker that drains when it comes, and for no later one
waitForDrainingWorker(c) ==
    /\ \/ /\ call[c].step = "wait"
          /\ call' = [call EXCEPT ![c].step = IF slot.drainingWorker = 0 THEN "post" ELSE "drain", ![c].on = slot.drainingWorker]
       \/ /\ call[c].step = "drain" /\ slot.drainingWorker # call[c].on
          /\ call' = [call EXCEPT ![c].step = "post", ![c].on = 0]
    /\ UNCHANGED <<slot, thread, toMain, running, begun, stop>>

Terminated(w) ==
    /\ thread' = [thread EXCEPT ![w].up = FALSE]
    /\ toMain' = [toMain EXCEPT ![w] = Append(@, "exit")]
    /\ running' = {r \in running : r[1] # w}

\* the ceiling of a drain: the worker is ended with its running calls
drainExceeded(c) ==
    /\ call[c].step = "drain" /\ slot.drainingWorker = call[c].on /\ thread[call[c].on].up
    /\ Terminated(call[c].on)
    /\ UNCHANGED <<slot, call, begun, stop>>

\* a slot whose worker is gone starts the next one, unless it was stopped on purpose
rpcOnce(c) ==
    /\ call[c].step = "post"
    /\ \/ slot.worker # 0 /\ call' = [call EXCEPT ![c].step = "sent", ![c].on = slot.worker] /\ UNCHANGED <<slot, thread>>
       \/ slot.worker = 0 /\ ~slot.started /\ call' = Settled(c, "error") /\ UNCHANGED <<slot, thread>>
       \/ /\ slot.worker = 0 /\ slot.started /\ slot.spawned < MaxWorkers
          /\ LET w == slot.spawned + 1
             IN  /\ slot' = [slot EXCEPT !.worker = w, !.spawned = w]
                 /\ thread' = [thread EXCEPT ![w].up = TRUE]
                 /\ call' = [call EXCEPT ![c].step = "sent", ![c].on = w]
    /\ UNCHANGED <<toMain, running, begun, stop>>

\* a refusal may overtake the announcement of the rotation; the call then waits for that worker and goes once more
receiveReply(c) ==
    /\ \/ call[c].step = "answered" /\ call' = Settled(c, "ok") /\ UNCHANGED slot
       \/ call[c].step = "refused" /\ call[c].attempt = 1 /\ call' = Settled(c, "error") /\ UNCHANGED slot
       \/ /\ call[c].step = "refused" /\ call[c].attempt = 0
          /\ slot' = IF slot.drainingWorker = 0 THEN [slot EXCEPT !.drainingWorker = slot.worker] ELSE slot
          /\ call' = [call EXCEPT ![c].step = "wait", ![c].attempt = 1]
    /\ UNCHANGED <<thread, toMain, running, begun, stop>>

\* the caller gives up; the worker may go on with the call
timesOut(c) ==
    /\ Pending(c)
    /\ call' = Settled(c, "error")
    /\ UNCHANGED <<slot, thread, toMain, running, begun, stop>>

\* Mutant: every call is tried again after a planned restart.
RetryAny(c, rotated) ==
    IF rotated /\ call[c].attempt = 0 THEN [call[c] EXCEPT !.step = "wait", !.attempt = 1]
    ELSE [call[c] EXCEPT !.step = "done", !.result = "error"]

\* only a read is tried again on the next worker, and only after a planned restart
AfterExit(c, rotated) ==
    IF rotated /\ c \in Reads /\ call[c].attempt = 0 THEN [call[c] EXCEPT !.step = "wait", !.attempt = 1]
    ELSE [call[c] EXCEPT !.step = "done", !.result = "error"]

\* messages of a worker, in order; its exit rejects every pending call of the slot
workerMessage(w) ==
    /\ toMain[w] # <<>>
    /\ LET msg == Head(toMain[w])
           rotated == slot.stoppingWorker # w /\ slot.rotationAnnouncedBy = w
           Cleared(f) == IF slot[f] = w THEN 0 ELSE slot[f]
       IN  \/ /\ msg \in {"rotating", "rotation-done"}
              /\ slot' = [slot EXCEPT !.rotationAnnouncedBy = w, !.drainingWorker = w]
              /\ UNCHANGED <<call, stop>>
              /\ IF msg = "rotation-done" /\ thread[w].up
                 THEN /\ thread' = [thread EXCEPT ![w].up = FALSE]
                      /\ toMain' = [toMain EXCEPT ![w] = Append(Tail(@), "exit")]
                      /\ running' = {r \in running : r[1] # w}
                 ELSE toMain' = [toMain EXCEPT ![w] = Tail(@)] /\ UNCHANGED <<thread, running>>
           \/ /\ msg = "exit"
              /\ toMain' = [toMain EXCEPT ![w] = Tail(@)]
              /\ slot' = [slot EXCEPT !.worker = Cleared("worker"), !.drainingWorker = Cleared("drainingWorker"),
                                      !.rotationAnnouncedBy = Cleared("rotationAnnouncedBy"), !.stoppingWorker = Cleared("stoppingWorker")]
              /\ call' = [c \in Calls |-> IF Pending(c) THEN AfterExit(c, rotated) ELSE call[c]]
              /\ stop' = IF stop \in {"asked", "waits", "flushed"} THEN "done" ELSE stop
              /\ UNCHANGED <<thread, running>>
    /\ UNCHANGED begun

-----------------------------------------------------------------------------
(* The worker thread: dispatch and rotation.                               *)

Inflight(w, r) == Cardinality({p \in r : p[1] = w /\ p[2] \in Submits})

\* Mutant: the submit that ends is still counted as running.
rotateTooEarly(w, t, r) ==
    IF ~t.pending THEN t ELSE [t EXCEPT !.draining = TRUE, !.finalizing = @ \/ Inflight(w, running) = 0]

\* admission closes with the announcement; the end waits for the running submits only
rotateIfDue(w, t, r) ==
    IF ~t.pending THEN t ELSE [t EXCEPT !.draining = TRUE, !.finalizing = @ \/ Inflight(w, r) = 0]
Announces(w, t) == IF t.pending /\ ~t.draining THEN Append(toMain[w], "rotating") ELSE toMain[w]

dispatch(c) ==
    LET w == call[c].on IN
    /\ call[c].step = "sent" /\ thread[w].up
    /\ \/ thread[w].draining /\ call' = [call EXCEPT ![c].step = "refused"] /\ UNCHANGED <<running, begun>>
       \/ /\ ~thread[w].draining
          /\ call' = [call EXCEPT ![c].step = "begun"]
          /\ running' = running \cup {<<w, c>>}
          /\ begun' = [begun EXCEPT ![c] = @ \cup {w}]
    /\ UNCHANGED <<slot, thread, toMain, stop>>

\* a submit may have loaded another contract version
noteGenerationImported(t, c) ==
    LET n == IF c \in Submits THEN t.imported + 1 ELSE t.imported IN [t EXCEPT !.imported = n, !.pending = @ \/ n >= MaxGenerations]

finishes(w, c) ==
    /\ <<w, c>> \in running /\ thread[w].up
    /\ running' = running \ {<<w, c>>}
    /\ LET t == noteGenerationImported(thread[w], c)
       IN  /\ thread' = [thread EXCEPT ![w] = rotateIfDue(w, t, running \ {<<w, c>>})]
           /\ toMain' = [toMain EXCEPT ![w] = Announces(w, t)]
    /\ call' = IF call[c].step = "begun" /\ call[c].on = w THEN [call EXCEPT ![c].step = "answered"] ELSE call
    /\ UNCHANGED <<slot, begun, stop>>

\* every wallet is saved and unloaded, then the worker asks to be ended
evictAllFacades(w) ==
    /\ thread[w].up /\ thread[w].finalizing /\ ~\E i \in DOMAIN toMain[w] : toMain[w][i] = "rotation-done"
    /\ toMain' = [toMain EXCEPT ![w] = Append(@, "rotation-done")]
    /\ UNCHANGED <<slot, thread, call, running, begun, stop>>

crash(w) ==
    /\ thread[w].up
    /\ Terminated(w)
    /\ UNCHANGED <<slot, call, begun, stop>>

-----------------------------------------------------------------------------
(* Stopping.                                                               *)

\* no call starts the worker again; one that is rotating refuses and saves its wallets itself
stopWalletWorker ==
    /\ stop = "no" /\ slot.started
    /\ slot' = [slot EXCEPT !.started = FALSE]
    /\ stop' = IF slot.worker = 0 THEN "done" ELSE "asked"
    /\ UNCHANGED <<thread, toMain, call, running, begun>>

\* the shutdown call closes admission, and answers when the submits are done or waited for long enough
shutdown ==
    LET w == slot.worker IN
    /\ stop = "asked" /\ thread[w].up
    /\ \/ thread[w].draining /\ stop' = "waits" /\ UNCHANGED thread
          /\ slot' = IF slot.drainingWorker = 0 THEN [slot EXCEPT !.drainingWorker = w] ELSE slot
       \/ ~thread[w].draining /\ stop' = "flushed" /\ thread' = [thread EXCEPT ![w].draining = TRUE] /\ UNCHANGED slot
    /\ UNCHANGED <<toMain, call, running, begun>>

stopWorkerSlot ==
    LET w == slot.worker IN
    /\ stop \in {"asked", "waits", "flushed"} /\ w # 0
    /\ slot' = [slot EXCEPT !.worker = 0, !.stoppingWorker = w]
    /\ stop' = "done"
    /\ IF thread[w].up THEN Terminated(w) ELSE UNCHANGED <<thread, toMain, running>>
    /\ UNCHANGED <<call, begun>>

\* what goes on by itself
PoolProgress ==
    \/ \E c \in Calls : waitForDrainingWorker(c) \/ rpcOnce(c) \/ receiveReply(c) \/ dispatch(c)
    \/ \E w \in Workers : workerMessage(w) \/ evictAllFacades(w) \/ \E c \in Calls : finishes(w, c)
    \/ shutdown \/ stopWorkerSlot

PoolNext ==
    \/ PoolProgress
    \/ \E c \in Calls : rpc(c) \/ drainExceeded(c) \/ timesOut(c)
    \/ \E w \in Workers : crash(w)
    \/ stopWalletWorker

PoolSpec == PoolInit /\ [][PoolNext]_poolVars

-----------------------------------------------------------------------------
(* Properties.                                                             *)

\* "A submitting call is never repeated": whatever crashes, rotations, refusals and timeouts it meets, a
\* submit begins on one thread at most, so its transaction is not built twice.
SubmitBegunOnce == \A c \in Submits : Cardinality(begun[c]) <= 1

\* Nobody waits for an answer or an exit that cannot come: without a timeout or a crash every call that was
\* made still ends, however the refusals, announcements, exits and the stop overtake each other.
NoCallForgotten ==
    ~ENABLED PoolProgress =>
        \A c \in Calls : call[c].step \in {"idle", "done"} \/ (call[c].step = "post" /\ slot.spawned = MaxWorkers)

=============================================================================
