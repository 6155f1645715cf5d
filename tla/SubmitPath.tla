------------------------------ MODULE SubmitPath ------------------------------
(***************************************************************************)
(* How the worker sends a transaction (midnight/worker/submit.ts and        *)
(* phased-submit.ts): build and reserve the dust, announce, take a pooled   *)
(* client, connect, send, watch, look it up on the indexer, resend the same *)
(* bytes, and put the dust back when nothing can have reached the node. The *)
(* node may get a send long after the worker stopped waiting for it.        *)
(***************************************************************************)
EXTENDS Integers, FiniteSets

CONSTANTS
    Txs,         \* transactions, each of a wallet of its own
    Clients,     \* SUBMIT_CLIENT_POOL_MAX clients
    Retries      \* NIGHTGATE_SUBMIT_TRANSPORT_RETRIES

VARIABLES
    submit,  \* submitOnDedicatedClient of each transaction
    dust,    \* the fee the build reserved: "kept" or put back from the snapshot
    pool,    \* submitClientPools: what each client does
    wire,    \* sends the node has not seen yet: the attempt numbers
    node     \* what the node did with the transaction

submitVars == <<submit, dust, pool, wire, node>>

Results == {"none", "ok", "build", "intent", "not-sent", "rejected", "pool-invalid", "ambiguous", "unknown", "not-applied"}
Steps == {"idle", "announce", "client", "connect", "sent", "watch", "probe", "visible", "done"}
NoClient == "none"

SubmitTypeOK ==
    /\ submit \in [Txs -> [step : Steps, attempt : 0..(Retries + 1), resends : 0..Retries, maybeSent : BOOLEAN, armed : BOOLEAN,
                           client : Clients \cup {NoClient}, answer : {"none", "status", "refused"}, why : {"", "watch", "transport", "refused"},
                           result : Results]]
    /\ dust \in [Txs -> {"free", "reserved", "restored"}]
    /\ pool \in [Clients -> {"none", "settling", "free", "busy", "closing"}]
    /\ wire \in [Txs -> SUBSET (0..(Retries + 1))]
    /\ node \in [Txs -> {"unknown", "pool", "applied", "failed", "dropped"}]

SubmitInit ==
    /\ submit = [t \in Txs |-> [step |-> "idle", attempt |-> 0, resends |-> 0, maybeSent |-> FALSE, armed |-> FALSE,
                                client |-> NoClient, answer |-> "none", why |-> "", result |-> "none"]]
    /\ dust = [t \in Txs |-> "free"]
    /\ pool = [c \in Clients |-> "none"]
    /\ wire = [t \in Txs |-> {}]
    /\ node = [t \in Txs |-> "unknown"]

-----------------------------------------------------------------------------
(* Building and announcing.                                                *)

\* the snapshot may fail, and then the dust of this transaction is not protected; a failed proof frees the recipe
balanceTx(t) ==
    /\ submit[t].step = "idle"
    /\ \/ \E armed \in BOOLEAN : submit' = [submit EXCEPT ![t].step = "announce", ![t].armed = armed] /\ dust' = [dust EXCEPT ![t] = "reserved"]
       \/ submit' = [submit EXCEPT ![t].step = "done", ![t].result = "build"] /\ UNCHANGED dust
    /\ UNCHANGED <<pool, wire, node>>

\* restoreDustFromSnapshot, where a snapshot was taken
Restored(t) == IF submit[t].armed THEN [dust EXCEPT ![t] = "restored"] ELSE dust

\* nothing is sent without the confirmation of the main thread
announceSubmitIntent(t) ==
    /\ submit[t].step = "announce"
    /\ \/ submit' = [submit EXCEPT ![t].step = "client"] /\ UNCHANGED dust
       \/ submit' = [submit EXCEPT ![t].step = "done", ![t].result = "intent"] /\ dust' = Restored(t)
    /\ UNCHANGED <<pool, wire, node>>

-----------------------------------------------------------------------------
(* The pooled clients.                                                     *)

Waiting == {t \in Txs : submit[t].step = "client"}
FreeClients == {c \in Clients : pool[c] \in {"settling", "free"}}

\* a client is made only when the free ones cannot serve all who wait, and settles before its first use
createClient ==
    /\ Cardinality(FreeClients) < Cardinality(Waiting)
    /\ ~\E c \in Clients : pool[c] = "free"
    /\ \E c \in Clients : pool[c] = "none" /\ pool' = [pool EXCEPT ![c] = "settling"]
    /\ UNCHANGED <<submit, dust, wire, node>>

clientSettles(c) ==
    /\ pool[c] \in {"settling", "closing"}
    /\ pool' = [pool EXCEPT ![c] = IF @ = "settling" THEN "free" ELSE "none"]
    /\ UNCHANGED <<submit, dust, wire, node>>

withDedicatedSubmitClient(t) ==
    /\ submit[t].step = "client"
    /\ \E c \in Clients : /\ pool[c] = "free"
                          /\ pool' = [pool EXCEPT ![c] = "busy"]
                          /\ submit' = [submit EXCEPT ![t].step = "connect", ![t].client = c, ![t].answer = "none"]
    /\ UNCHANGED <<dust, wire, node>>

\* a client whose attempt timed out still listens, so it leaves the pool; any other one settles and is used again
Released(t, timedOut) == [pool EXCEPT ![submit[t].client] = IF timedOut THEN "closing" ELSE "settling"]

-----------------------------------------------------------------------------
(* The node, which sees a send at any time or never (external).            *)

nodeReceives(t, a) ==
    /\ a \in wire[t]
    /\ wire' = [wire EXCEPT ![t] = @ \ {a}]
    /\ \/ node[t] = "unknown" /\ node' = [node EXCEPT ![t] = "pool"]
          /\ submit' = IF submit[t].step = "sent" /\ submit[t].attempt = a THEN [submit EXCEPT ![t].answer = "status"] ELSE submit
       \/ UNCHANGED node
          /\ submit' = IF submit[t].step = "sent" /\ submit[t].attempt = a THEN [submit EXCEPT ![t].answer = "refused"] ELSE submit
    /\ UNCHANGED <<dust, pool>>

nodeLoses(t, a) ==
    /\ a \in wire[t] /\ ~(submit[t].step = "sent" /\ submit[t].attempt = a)
    /\ wire' = [wire EXCEPT ![t] = @ \ {a}]
    /\ UNCHANGED <<submit, dust, pool, node>>

nodeDecides(t) ==
    /\ node[t] = "pool"
    /\ \E out \in {"applied", "failed", "dropped"} : node' = [node EXCEPT ![t] = out]
    /\ UNCHANGED <<submit, dust, pool, wire>>

InBlock(t) == node[t] \in {"applied", "failed"}

-----------------------------------------------------------------------------
(* One attempt: connect, request, watch.                                   *)

\* the end of a submit: only a transaction that surely never reached the node gets its dust back
submitWithDustGuard(t, result) ==
    /\ submit' = [submit EXCEPT ![t].step = "done", ![t].result = result, ![t].client = NoClient, ![t].armed = FALSE]
    /\ dust' = IF result \in {"not-sent", "rejected"} THEN Restored(t) ELSE dust

Resend(t) == submit' = [submit EXCEPT ![t].step = "client", ![t].client = NoClient, ![t].attempt = @ + 1, ![t].resends = @ + 1]

\* nothing was sent by this attempt
connectFails(t) ==
    /\ submit[t].step = "connect"
    /\ pool' = Released(t, TRUE)
    /\ \/ submit[t].resends < Retries /\ Resend(t) /\ UNCHANGED dust
       \/ submit[t].resends = Retries /\ submitWithDustGuard(t, IF submit[t].maybeSent THEN "unknown" ELSE "not-sent")
    /\ UNCHANGED <<wire, node>>

send(t) ==
    /\ submit[t].step = "connect"
    /\ wire' = [wire EXCEPT ![t] = @ \cup {submit[t].attempt}]
    /\ submit' = [submit EXCEPT ![t].step = "sent"]
    /\ UNCHANGED <<dust, pool, node>>

firstStatus(t) ==
    /\ submit[t].step = "sent" /\ submit[t].answer = "status"
    /\ submit' = [submit EXCEPT ![t].step = "watch"]
    /\ UNCHANGED <<dust, pool, wire, node>>

\* the request, the watch or the backstop times out: the indexer is asked, and nothing is sent again
timesOut(t) ==
    /\ submit[t].step \in {"sent", "watch"}
    /\ pool' = Released(t, TRUE)
    /\ submit' = [submit EXCEPT ![t].step = "probe", ![t].client = NoClient, ![t].why = "watch"]
    /\ UNCHANGED <<dust, wire, node>>

\* a first attempt that died on the client's own closing socket may have left before
closingSocket(t) ==
    /\ submit[t].step = "sent" /\ submit[t].attempt = 0
    /\ pool' = Released(t, FALSE)
    /\ \/ submit[t].resends < Retries
          /\ submit' = [submit EXCEPT ![t].step = "client", ![t].client = NoClient, ![t].attempt = @ + 1, ![t].resends = @ + 1, ![t].maybeSent = TRUE]
          /\ UNCHANGED dust
       \/ submit[t].resends = Retries /\ submitWithDustGuard(t, "unknown")
    /\ UNCHANGED <<wire, node>>

transportFails(t) ==
    /\ submit[t].step \in {"sent", "watch"}
    /\ pool' = Released(t, FALSE)
    /\ submit' = [submit EXCEPT ![t].step = "probe", ![t].client = NoClient, ![t].why = "transport"]
    /\ UNCHANGED <<dust, wire, node>>

\* refused before the pool, or dropped from it while watched; after a resend the indexer is asked first
nodeRefuses(t) ==
    /\ \/ submit[t].step = "sent" /\ submit[t].answer = "refused"
       \/ submit[t].step = "watch" /\ node[t] = "dropped"
    /\ pool' = Released(t, FALSE)
    /\ \/ submit[t].resends > 0
          /\ submit' = [submit EXCEPT ![t].step = "probe", ![t].client = NoClient, ![t].why = "refused"]
          /\ UNCHANGED dust
       \/ submit[t].resends = 0 /\ submitWithDustGuard(t, IF submit[t].step = "watch" THEN "pool-invalid" ELSE "rejected")
    /\ UNCHANGED <<wire, node>>

inBlock(t) ==
    /\ submit[t].step = "watch" /\ InBlock(t)
    /\ pool' = Released(t, FALSE)
    /\ submit' = [submit EXCEPT ![t].step = "visible", ![t].client = NoClient]
    /\ UNCHANGED <<dust, wire, node>>

-----------------------------------------------------------------------------
(* Asking the indexer, which may not have the block yet.                   *)

\* landed: a block whose call failed is no success
Found(t) == InBlock(t) /\ submitWithDustGuard(t, IF node[t] = "applied" THEN "ok" ELSE "not-applied") /\ UNCHANGED <<pool, wire, node>>

waitLandedOnIndexer(t) == submit[t].step = "probe" /\ Found(t)

\* Mutant: a resend forgets that an earlier one may have arrived.
notOnIndexerForgets(t) ==
    /\ submit[t].step = "probe"
    /\ \/ submit[t].why = "watch" /\ submitWithDustGuard(t, "ambiguous")
       \/ submit[t].why = "transport" /\ submit[t].resends = Retries /\ submitWithDustGuard(t, "unknown")
       \/ /\ submit[t].why = "transport" /\ submit[t].resends < Retries
          /\ submit' = [submit EXCEPT ![t].step = "client", ![t].attempt = @ + 1, ![t].resends = @ + 1]
          /\ UNCHANGED dust
       \/ submit[t].why = "refused" /\ submitWithDustGuard(t, IF submit[t].answer = "status" THEN "pool-invalid" ELSE "rejected")
    /\ UNCHANGED <<pool, wire, node>>

notOnIndexer(t) ==
    /\ submit[t].step = "probe"
    /\ \/ submit[t].why = "watch" /\ submitWithDustGuard(t, "ambiguous")
       \/ submit[t].why = "transport" /\ submit[t].resends = Retries /\ submitWithDustGuard(t, "unknown")
       \/ /\ submit[t].why = "transport" /\ submit[t].resends < Retries
          /\ submit' = [submit EXCEPT ![t].step = "client", ![t].attempt = @ + 1, ![t].resends = @ + 1, ![t].maybeSent = TRUE]
          /\ UNCHANGED dust
       \/ submit[t].why = "refused" /\ submitWithDustGuard(t, IF submit[t].maybeSent THEN "unknown"
                                                             ELSE IF submit[t].answer = "status" THEN "pool-invalid" ELSE "rejected")
    /\ UNCHANGED <<pool, wire, node>>

\* a transaction the indexer does not show in time is reported landed; one that did not apply after an
\* earlier send is looked up once more
waitIndexerVisible(t) ==
    /\ submit[t].step = "visible"
    /\ \/ submitWithDustGuard(t, "ok") /\ UNCHANGED <<pool, wire, node>>
       \/ node[t] = "applied" /\ Found(t)
       \/ node[t] = "failed" /\ submit[t].resends = 0 /\ Found(t)
       \/ /\ node[t] = "failed" /\ submit[t].resends > 0
          /\ submit' = [submit EXCEPT ![t].step = "probe", ![t].why = "refused"]
          /\ UNCHANGED <<dust, pool, wire, node>>

SubmitNext ==
    \/ createClient \/ \E c \in Clients : clientSettles(c)
    \/ \E t \in Txs : \/ balanceTx(t) \/ announceSubmitIntent(t) \/ withDedicatedSubmitClient(t)
                      \/ connectFails(t) \/ send(t) \/ firstStatus(t) \/ timesOut(t) \/ closingSocket(t)
                      \/ transportFails(t) \/ nodeRefuses(t) \/ inBlock(t)
                      \/ waitLandedOnIndexer(t) \/ notOnIndexer(t) \/ waitIndexerVisible(t) \/ nodeDecides(t)
                      \/ \E a \in wire[t] : nodeReceives(t, a) \/ nodeLoses(t, a)

SubmitSpec == SubmitInit /\ [][SubmitNext]_submitVars

-----------------------------------------------------------------------------
(* Properties.                                                             *)

\* "Restores the saved dust state only when the tx surely never reached the mempool": once the dust is
\* back in the wallet the node neither has the transaction nor can still get one of its sends, so the
\* same dust is never spent a second time, whatever attempts were lost, late or refused.
DustBackMeansUnsent ==
    \A t \in Txs : dust[t] = "restored" => node[t] = "unknown" /\ wire[t] = {}

\* What a submit reports is so: a success is in a block, a call that did not apply is in a block, and a
\* final refusal (which lets the caller build again) leaves nothing of the transaction behind.
AnswerIsTrue ==
    \A t \in Txs :
        /\ submit[t].result = "ok" => InBlock(t)
        /\ submit[t].result = "not-applied" => node[t] = "failed"
        /\ submit[t].result \in {"build", "intent", "not-sent", "rejected"} => node[t] = "unknown" /\ wire[t] = {}

=============================================================================
