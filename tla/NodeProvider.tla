----------------------------- MODULE NodeProvider -----------------------------
(***************************************************************************)
(* The client of the node's WebSocket (providers/MidnightNodeProvider.ts): *)
(* connecting, the heartbeat, reconnecting after a loss, requests with a   *)
(* time limit, and the subscription of finalized heads, whose first heads  *)
(* may arrive before the answer that names the subscription.               *)
(*                                                                         *)
(* The handlers of every socket share the provider's fields. A socket      *)
(* reports its end by a close event, some time after it was closed.        *)
(***************************************************************************)
EXTENDS Integers, Sequences, FiniteSets

CONSTANTS
    Requests,      \* plain requests; "subscribe" is one of its own
    MaxSockets,    \* bound: sockets
    MaxSubs,       \* bound: subscriptions the node gives
    MaxHeads,      \* bound: heads the node sends per subscription
    MaxCalls,      \* bound: frames the client sends
    MaxReconnectAttempts,   \* maxReconnectAttempts
    OrphansPerId,  \* ORPHAN_NOTIFICATIONS_PER_ID
    OrphanIds      \* ORPHAN_SUBSCRIPTIONS_MAX

VARIABLES
    prov,     \* ws, connected, reconnecting, reconnectAttempts, abandonment signalled, reconnectTimer, heartbeat, alive
    sock,     \* each socket: its state, and whether connect's promise is awaited by the start or by the reconnect timer
    wire,     \* messages of the node on their way, per socket
    pending,  \* pendingRequests
    subs,     \* subscriptions
    orphans,  \* orphanNotifications: sequence of [id, heads], oldest id first
    node,     \* subscriptions of the node: socket and heads sent
    calls,    \* frames the client has sent
    got,      \* heads the callback of each subscription was given
    stopped   \* disconnect was called

nodeVars == <<prov, sock, wire, pending, subs, orphans, node, calls, got, stopped>>

Sockets == 1..MaxSockets
Subs == 1..MaxSubs
Calls == Requests \cup {"subscribe"}
Unused == {s \in Sockets : sock[s].state = "none"}

NodeInit ==
    /\ prov = [ws |-> 1, connected |-> FALSE, reconnecting |-> FALSE, attempts |-> 0, signalled |-> FALSE,
               timer |-> FALSE, heartbeat |-> 0, alive |-> TRUE]
    /\ sock = [s \in Sockets |-> IF s = 1 THEN [state |-> "connecting", by |-> "start"] ELSE [state |-> "none", by |-> "none"]]
    /\ wire = [s \in Sockets |-> <<>>]
    /\ pending = {} /\ subs = {} /\ orphans = <<>>
    /\ node = [i \in Subs |-> [socket |-> 0, sent |-> 0]]
    /\ got = [i \in Subs |-> <<>>]
    /\ calls = 0 /\ stopped = FALSE

NodeTypeOK ==
    /\ prov.ws \in 0..MaxSockets /\ prov.heartbeat \in 0..MaxSockets /\ prov.attempts \in 0..(MaxReconnectAttempts + 1)
    /\ \A s \in Sockets : sock[s].state \in {"none", "connecting", "open", "silent", "closing", "closed"}
    /\ pending \subseteq Calls /\ subs \subseteq Subs /\ stopped \in BOOLEAN

------------------------------------------------------------------------------
(* The connection.                                                          *)

Fresh == Cardinality(Sockets \ Unused) + 1

\* "open" of socket s
opens(s) ==
    /\ sock[s].state = "connecting"
    /\ sock' = [sock EXCEPT ![s] = [state |-> "open", by |-> "none"]]
    /\ prov' = [prov EXCEPT !.connected = TRUE, !.reconnecting = FALSE, !.attempts = 0, !.signalled = FALSE,
                            !.heartbeat = s, !.alive = TRUE]
    /\ UNCHANGED <<wire, pending, subs, orphans, node, calls, got, stopped>>

\* the node or the network closes the socket, or drops it without a word
loses(s) ==
    /\ \E to \in {"closing", "silent"} :
          /\ sock[s].state \in IF to = "silent" THEN {"open"} ELSE {"connecting", "open"}
          /\ sock' = [sock EXCEPT ![s].state = to]
    /\ wire' = [wire EXCEPT ![s] = <<>>]
    /\ UNCHANGED <<prov, pending, subs, orphans, node, calls, got, stopped>>

\* Mutant: the provider gives up at the limit.
attemptLimited(p) ==
    IF p.reconnecting \/ p.attempts >= MaxReconnectAttempts THEN [p EXCEPT !.signalled = TRUE]
    ELSE [p EXCEPT !.reconnecting = TRUE, !.timer = TRUE, !.attempts = @ + 1]

\* the next attempt, reported as abandoned once per outage
attemptReconnect(p) ==
    IF p.reconnecting THEN p
    ELSE [p EXCEPT !.signalled = @ \/ p.attempts >= MaxReconnectAttempts, !.reconnecting = TRUE, !.timer = TRUE,
                   !.attempts = IF p.attempts > MaxReconnectAttempts THEN @ ELSE @ + 1]

\* "close" of socket s: the promise of connect is rejected, or an established connection is lost
closed(s) ==
    LET was == prov.connected
        down == [prov EXCEPT !.connected = FALSE, !.heartbeat = 0]
    IN  /\ sock[s].state = "closing"
        /\ sock' = [sock EXCEPT ![s] = [state |-> "closed", by |-> IF sock[s].by = "start" /\ ~was THEN "failed" ELSE "none"]]
        /\ pending' = {} /\ subs' = {} /\ orphans' = <<>>
        /\ wire' = [wire EXCEPT ![s] = <<>>]
        /\ prov' = CASE was -> attemptReconnect(down)
                     [] ~was /\ sock[s].by = "reconnect" -> attemptReconnect([down EXCEPT !.reconnecting = FALSE])
                     [] OTHER -> down
        /\ UNCHANGED <<node, calls, got, stopped>>

\* the timer of attemptReconnect calls connect
reconnect ==
    /\ prov.timer /\ Unused # {}
    /\ prov' = [prov EXCEPT !.timer = FALSE, !.ws = Fresh]
    /\ sock' = [sock EXCEPT ![Fresh] = [state |-> "connecting", by |-> "reconnect"]]
    /\ UNCHANGED <<wire, pending, subs, orphans, node, calls, got, stopped>>

\* one interval of startHeartbeat: a socket that stayed silent is terminated, another one is asked
heartbeat ==
    /\ prov.heartbeat # 0
    /\ IF prov.alive
       THEN prov' = [prov EXCEPT !.alive = FALSE] /\ UNCHANGED sock
       ELSE /\ prov' = [prov EXCEPT !.heartbeat = 0]
            /\ sock' = [sock EXCEPT ![prov.heartbeat].state = IF @ \in {"open", "silent"} THEN "closing" ELSE @]
    /\ UNCHANGED <<wire, pending, subs, orphans, node, calls, got, stopped>>

pong ==
    /\ prov.heartbeat # 0 /\ ~prov.alive /\ sock[prov.heartbeat].state = "open"
    /\ prov' = [prov EXCEPT !.alive = TRUE]
    /\ UNCHANGED <<sock, wire, pending, subs, orphans, node, calls, got, stopped>>

\* by stopCrawler, or by startCrawler when the first connect failed
disconnect ==
    /\ ~stopped /\ stopped' = TRUE
    /\ prov' = [prov EXCEPT !.reconnecting = FALSE, !.heartbeat = 0, !.timer = FALSE, !.ws = 0, !.connected = FALSE]
    /\ sock' = IF prov.ws # 0 /\ sock[prov.ws].state \in {"connecting", "open", "silent"}
               THEN [sock EXCEPT ![prov.ws].state = "closing"] ELSE sock
    /\ pending' = {} /\ subs' = {} /\ orphans' = <<>>
    /\ UNCHANGED <<wire, node, calls, got>>

------------------------------------------------------------------------------
(* Requests and notifications.                                              *)

\* rpc and rpcBatch: only on a connection, all in one frame
rpc(ids) ==
    /\ prov.ws # 0 /\ prov.connected /\ ids # {} /\ ids \cap pending = {}
    /\ pending' = pending \cup ids
    /\ wire' = IF sock[prov.ws].state = "open"
               THEN [wire EXCEPT ![prov.ws] = Append(@, [kind |-> "asked", ids |-> ids])] ELSE wire
    /\ calls < MaxCalls /\ calls' = calls + 1
    /\ UNCHANGED <<prov, sock, subs, orphans, node, got, stopped>>

\* the time limit of a request
timesOut(id) ==
    /\ id \in pending
    /\ pending' = pending \ {id}
    /\ UNCHANGED <<prov, sock, wire, subs, orphans, node, calls, got, stopped>>

Asked(s) == {k \in DOMAIN wire[s] : wire[s][k].kind = "asked"}
Without(q, k) == [i \in 1..(Len(q) - 1) |-> IF i < k THEN q[i] ELSE q[i + 1]]
NewSubs == {i \in Subs : node[i].socket = 0 /\ \A k \in Subs : k < i => node[k].socket # 0}

\* the node takes a frame up, in any order with what it sends; a new subscription may send before its answer
nodeAnswers(s) ==
    /\ sock[s].state = "open"
    /\ \E k \in Asked(s) :
          LET ids == wire[s][k].ids  rest == Without(wire[s], k) IN
          \/ /\ "subscribe" \notin ids
             /\ wire' = [wire EXCEPT ![s] = Append(rest, [kind |-> "answer", ids |-> ids, sub |-> 0])]
             /\ UNCHANGED node
          \/ /\ "subscribe" \in ids
             /\ \E i \in NewSubs, early \in 0..MaxHeads :
                   /\ node' = [node EXCEPT ![i] = [socket |-> s, sent |-> early]]
                   /\ wire' = [wire EXCEPT ![s] = rest \o [h \in 1..early |-> [kind |-> "head", sub |-> i, head |-> h]]
                                                      \o <<[kind |-> "answer", ids |-> ids, sub |-> i]>>]
    /\ UNCHANGED <<prov, sock, pending, subs, orphans, calls, got, stopped>>

nodeNotifies(i) ==
    /\ node[i].socket # 0 /\ sock[node[i].socket].state = "open" /\ node[i].sent < MaxHeads
    /\ node' = [node EXCEPT ![i].sent = @ + 1]
    /\ wire' = [wire EXCEPT ![node[i].socket] = Append(@, [kind |-> "head", sub |-> i, head |-> node[i].sent + 1])]
    /\ UNCHANGED <<prov, sock, pending, subs, orphans, calls, got, stopped>>

Buffered(i) == SelectSeq(orphans, LAMBDA o : o.id = i)
Others(i) == SelectSeq(orphans, LAMBDA o : o.id # i)

\* keeps the newest heads of each id, and the newest ids
bufferOrphan(i, h) ==
    IF Buffered(i) # <<>>
    THEN [k \in DOMAIN orphans |->
            IF orphans[k].id # i THEN orphans[k]
            ELSE LET hs == Append(orphans[k].heads, h)
                 IN  [id |-> i, heads |-> IF Len(hs) > OrphansPerId THEN Tail(hs) ELSE hs]]
    ELSE Append(IF Len(orphans) >= OrphanIds THEN Tail(orphans) ELSE orphans, [id |-> i, heads |-> <<h>>])

handleSingleMessage(s) ==
    /\ sock[s].state = "open" /\ wire[s] # <<>> /\ Head(wire[s]).kind # "asked"
    /\ wire' = [wire EXCEPT ![s] = Tail(@)]
    /\ prov' = [prov EXCEPT !.alive = TRUE]
    /\ LET m == Head(wire[s]) IN
       \/ /\ m.kind = "head"
          /\ IF m.sub \in subs
             THEN got' = [got EXCEPT ![m.sub] = Append(@, m.head)] /\ UNCHANGED orphans
             ELSE orphans' = bufferOrphan(m.sub, m.head) /\ UNCHANGED got
          /\ UNCHANGED <<pending, subs>>
       \/ /\ m.kind = "answer"
          /\ pending' = pending \ m.ids
          \* subscribeFinalizedHeads and registerSubscription; an answer after the time limit is dropped
          /\ IF "subscribe" \in m.ids \cap pending
             THEN /\ subs' = subs \cup {m.sub}
                  /\ orphans' = Others(m.sub)
                  /\ got' = [got EXCEPT ![m.sub] = @ \o (IF Buffered(m.sub) = <<>> THEN <<>> ELSE Buffered(m.sub)[1].heads)]
             ELSE UNCHANGED <<subs, orphans, got>>
    /\ UNCHANGED <<sock, node, calls, stopped>>

\* the callback and what is buffered go at once, whatever the node answers
unsubscribeFinalizedHeads(i) ==
    /\ i \in subs
    /\ subs' = subs \ {i} /\ orphans' = Others(i)
    /\ UNCHANGED <<prov, sock, wire, pending, node, calls, got, stopped>>

NodeNext ==
    \/ \E s \in Sockets : opens(s) \/ loses(s) \/ closed(s) \/ nodeAnswers(s) \/ handleSingleMessage(s)
    \/ reconnect \/ heartbeat \/ pong \/ disconnect
    \/ (\E ids \in SUBSET Requests : rpc(ids)) \/ rpc({"subscribe"})
    \/ \E id \in Calls : timesOut(id)
    \/ \E i \in Subs : nodeNotifies(i) \/ unsubscribeFinalizedHeads(i)

NodeSpec == NodeInit /\ [][NodeNext]_nodeVars

------------------------------------------------------------------------------
(* Properties.                                                              *)

\* An outage never ends the reconnecting: unless disconnect was called or the very first connect
\* failed, a provider without a connection has a timer running or a socket that will open or close,
\* also past the attempt limit (attemptReconnect, connect).
OutageHasNextAttempt ==
    \/ stopped \/ prov.connected \/ prov.timer
    \/ \E s \in Sockets : sock[s].by = "failed" \/ sock[s].state \in {"connecting", "closing"}

\* The callback of a subscription is given the node's heads from the first one on, each once and in
\* order, although the first ones may arrive before the subscription is known and an earlier answer
\* may have come too late (bufferOrphan, registerSubscription).
HeadsInOrder ==
    OrphansPerId >= MaxHeads => \A i \in Subs : got[i] = [k \in 1..Len(got[i]) |-> k]

==============================================================================
