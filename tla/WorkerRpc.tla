------------------------------ MODULE WorkerRpc ------------------------------
(***************************************************************************)
(* Calls to a helper thread (midnight/worker-rpc/client.ts, dispatch.ts).   *)
(* The decode worker's calls have their timeout from when they are sent;    *)
(* the dust verifier's from when the thread begins them, and a call past    *)
(* its budget ends the thread. What a thread posts on a call's port and its *)
(* exit overtake each other.                                                *)
(***************************************************************************)
EXTENDS Integers, FiniteSets

CONSTANTS
    Calls,
    budgetFromStart, terminateOnTimeout,  \* WorkerRpcClientOptions
    MaxThreads                            \* bound: threads started

VARIABLES
    owner,   \* WorkerRpcClient: the threads it knows by number, 0 for none; asked: stop() at shutdown
    helper,  \* each thread; "gone" or, before it was ready, "ending": over, its exit event not seen
    rpcCall, \* PendingRpc of each call; port: what the thread posted and nobody has read
    seen     \* history: calls each thread began, threads that crashed, and whether two ended threads overlapped

rpcVars == <<owner, helper, rpcCall, seen>>

Threads == 1..MaxThreads
NoCall == [step |-> "idle", on |-> 0, started |-> FALSE, resent |-> FALSE, port |-> {}, result |-> "none"]

RpcTypeOK ==
    /\ owner \in [client : 0..MaxThreads, stopping : 0..MaxThreads, restarting : 0..MaxThreads, spawned : 0..MaxThreads, asked : BOOLEAN]
    /\ helper \in [Threads -> {"unused", "starting", "ending", "up", "gone", "exited"}]
    /\ rpcCall \in [Calls -> [step : {"idle", "waits", "sent", "done", "dropped"}, on : 0..MaxThreads, started : BOOLEAN, resent : BOOLEAN,
                              port : SUBSET {"started", "reply"}, result : {"none", "ok", "late", "gone", "port", "unready"}]]
    /\ seen \in [began : SUBSET (Threads \X Calls), crashed : SUBSET Threads, overlapped : BOOLEAN]

RpcInit ==
    /\ owner = [client |-> 0, stopping |-> 0, restarting |-> 0, spawned |-> 0, asked |-> FALSE]
    /\ helper = [w \in Threads |-> "unused"]
    /\ rpcCall = [c \in Calls |-> NoCall]
    /\ seen = [began |-> {}, crashed |-> {}, overlapped |-> FALSE]

Settled(c, result) == [rpcCall[c] EXCEPT !.step = "done", !.started = FALSE, !.port = {}, !.result = result]

\* The calls in `moved` go to the client's thread; without one they start the next.
start(moved, known, threads, calls) ==
    LET spawns == moved # {} /\ known.client = 0
        w == IF spawns THEN known.spawned + 1 ELSE known.client
    IN  /\ spawns => known.spawned < MaxThreads
        /\ owner' = IF spawns THEN [known EXCEPT !.client = w, !.spawned = w] ELSE known
        /\ helper' = IF spawns THEN [threads EXCEPT ![w] = "starting"] ELSE threads
        /\ rpcCall' = [c \in Calls |->
              IF c \in moved THEN [calls[c] EXCEPT !.step = IF ~spawns /\ threads[w] \in {"up", "gone"} THEN "sent" ELSE "waits", !.on = w]
              ELSE calls[c]]

rpc(c) ==
    /\ rpcCall[c].step = "idle"
    /\ start({c}, owner, helper, rpcCall)
    /\ UNCHANGED seen

\* A ready thread gets the calls that wait for it. If it was stopped meanwhile they go to the client's thread, or fail to be sent.
ready(w) ==
    /\ helper[w] \in {"starting", "ending"}
    /\ helper' = [helper EXCEPT ![w] = IF @ = "starting" THEN "up" ELSE "gone"]
    /\ rpcCall' = [c \in Calls |-> IF rpcCall[c].step # "waits" \/ rpcCall[c].on # w THEN rpcCall[c]
                                   ELSE [rpcCall[c] EXCEPT !.step = IF owner.client = 0 THEN "dropped" ELSE "sent", !.on = owner.client]]
    /\ UNCHANGED <<owner, seen>>

\* createDispatcher: the thread says that it begins, runs the method and answers
begin(c) ==
    LET w == rpcCall[c].on
    IN  /\ rpcCall[c].step = "sent" /\ helper[w] = "up" /\ <<w, c>> \notin seen.began
        /\ rpcCall' = [rpcCall EXCEPT ![c].port = @ \cup {"started"}]
        /\ seen' = [seen EXCEPT !.began = @ \cup {<<w, c>>}]
        /\ UNCHANGED <<owner, helper>>

finish(c) ==
    LET w == rpcCall[c].on
    IN  /\ rpcCall[c].step = "sent" /\ helper[w] = "up" /\ <<w, c>> \in seen.began
        /\ rpcCall' = [rpcCall EXCEPT ![c].port = @ \cup {"reply"}]
        /\ UNCHANGED <<owner, helper, seen>>

portMessage(c) ==
    /\ rpcCall[c].step = "sent"
    /\ \/ /\ "started" \in rpcCall[c].port
          /\ rpcCall' = [rpcCall EXCEPT ![c].started = TRUE, ![c].port = @ \ {"started"}]
       \/ /\ rpcCall[c].port = {"reply"}
          /\ rpcCall' = [rpcCall EXCEPT ![c] = Settled(c, "ok")]
    /\ UNCHANGED <<owner, helper, seen>>

\* what cannot be cloned was never sent, or cannot be read
portFails(c) ==
    /\ rpcCall[c].step = "sent" /\ (<<rpcCall[c].on, c>> \in seen.began => "reply" \in rpcCall[c].port)
    /\ rpcCall' = [rpcCall EXCEPT ![c] = Settled(c, "port")]
    /\ UNCHANGED <<owner, helper, seen>>

armed(c) == rpcCall[c].step = "sent" /\ (budgetFromStart => rpcCall[c].started)

\* a thread told to end, or ended by itself
Ended(w) == [helper EXCEPT ![w] = IF @ = "up" THEN "gone" ELSE IF @ = "starting" THEN "ending" ELSE @]

timeout(c) ==
    LET w == rpcCall[c].on
        ends == terminateOnTimeout /\ owner.client = w
    IN  /\ armed(c)
        /\ rpcCall' = [rpcCall EXCEPT ![c] = Settled(c, "late")]
        /\ owner' = IF ends THEN [owner EXCEPT !.client = 0, !.stopping = w, !.restarting = w] ELSE owner
        /\ helper' = IF ends THEN Ended(w) ELSE helper
        /\ seen' = [seen EXCEPT !.overlapped = @ \/ (ends /\ owner.restarting # 0)]

\* stop() at shutdown
shutdown ==
    /\ ~owner.asked
    /\ LET w == owner.client
       IN  /\ owner' = [owner EXCEPT !.asked = TRUE, !.client = 0, !.stopping = IF w # 0 THEN w ELSE @]
           /\ helper' = IF w # 0 THEN Ended(w) ELSE helper
    /\ UNCHANGED <<rpcCall, seen>>

crash(w) ==
    /\ helper[w] \in {"starting", "up"}
    /\ helper' = Ended(w)
    /\ seen' = [seen EXCEPT !.crashed = @ \cup {w}]
    /\ UNCHANGED <<owner, rpcCall>>

\* Calls the thread held: after a timeout those not begun go once to the next thread, the others fail.
settlePendingOf(w, restarting) ==
    LET held == {c \in Calls : rpcCall[c].step = "sent" /\ rpcCall[c].on = w}
        moved == {c \in held : restarting /\ ~rpcCall[c].started /\ ~rpcCall[c].resent}
    IN  [moved |-> moved, failed |-> held \ moved]

exit(w) ==
    LET Cleared(f) == IF owner[f] = w THEN 0 ELSE owner[f]
        known == [owner EXCEPT !.client = Cleared("client"), !.stopping = Cleared("stopping"), !.restarting = Cleared("restarting")]
        settled == settlePendingOf(w, owner.restarting = w)
        unready == {c \in Calls : rpcCall[c].step = "waits" /\ rpcCall[c].on = w}
    IN  /\ helper[w] \in {"gone", "ending"}
        /\ start(settled.moved, known, [helper EXCEPT ![w] = "exited"],
                 [c \in Calls |-> IF c \in settled.moved THEN [rpcCall[c] EXCEPT !.resent = TRUE, !.port = {}]
                                  ELSE IF c \in settled.failed THEN Settled(c, "gone")
                                  ELSE IF c \in unready THEN Settled(c, "unready")
                                  ELSE rpcCall[c]])
        /\ UNCHANGED seen

RpcNext ==
    \/ \E c \in Calls : rpc(c) \/ begin(c) \/ finish(c) \/ portMessage(c) \/ portFails(c) \/ timeout(c)
    \/ \E w \in Threads : ready(w) \/ crash(w) \/ exit(w)
    \/ shutdown

RpcSpec == RpcInit /\ [][RpcNext]_rpcVars

-----------------------------------------------------------------------------
(* Properties.                                                             *)

\* Every call that is not settled is held by a thread whose exit is still to be seen, and will settle it; the verifier's calls
\* have no other way out before they begin. A call is dropped only if stop() came between the start of a thread and its ready.
RpcIsHeld ==
    \A c \in Calls : /\ rpcCall[c].step = "waits" => helper[rpcCall[c].on] \in {"starting", "ending"}
                     /\ rpcCall[c].step = "sent" => helper[rpcCall[c].on] \notin {"unused", "exited"}
                     /\ rpcCall[c].step = "dropped" => owner.asked

\* A call that fails with its thread, never having begun and never moved, had a thread that crashed or was stopped at shutdown:
\* the timeout of another call costs it nothing, unless the next thread was ended too before the first one's exit was seen.
WaitingCallMovesOn ==
    \A c \in Calls : rpcCall[c].result = "gone" /\ ~rpcCall[c].resent /\ <<rpcCall[c].on, c>> \notin seen.began
                     => rpcCall[c].on \in seen.crashed \/ owner.asked \/ seen.overlapped
=============================================================================
