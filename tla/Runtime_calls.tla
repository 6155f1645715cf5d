----------------------------- MODULE Runtime_calls ----------------------------
(***************************************************************************)
(* Theorems about the parts of MC_Runtime that take calls, for any         *)
(* constants.                                                              *)
(*                                                                         *)
(* The wallet worker: a submit that may still be sent has begun on no      *)
(* thread (CallKnows). It is not sent again once it has begun, and it is   *)
(* refused only before.                                                    *)
(*                                                                         *)
(* The submit path: the argument is about one transaction at a time. What  *)
(* the worker knows of it (TxKnows) is enough to tell when nothing of it   *)
(* can be at the node or on its way there.                                 *)
(*                                                                         *)
(* The SDK: the copies of a call's request name one job at most (OneJob),  *)
(* what the call knows of its job is so (KnowsJob), and polls that fail    *)
(* are given up only after their grace (KnowsTime).                        *)
(***************************************************************************)
EXTENDS MC_Runtime, FiniteSetTheorems, SequenceTheorems, TLAPS

-----------------------------------------------------------------------------
(* Calls to the wallet worker.                                             *)

ThreadCalls == ThreadReads \cup ThreadSubmits
ThreadIds == 1..ThreadWorkers
SlotIds == 0..ThreadWorkers
SlotRecord == [worker : SlotIds, spawned : SlotIds, drainingWorker : SlotIds, rotationAnnouncedBy : SlotIds, stoppingWorker : SlotIds,
               started : BOOLEAN]
ThreadRecord == [up : BOOLEAN, imported : Nat, pending : BOOLEAN, draining : BOOLEAN, finalizing : BOOLEAN]
ThreadPosts == {"rotating", "rotation-done", "exit"}
CallSteps == {"idle", "wait", "drain", "post", "sent", "begun", "answered", "refused", "done"}
CallResults == {"none", "ok", "error"}
CallTries == 0..1
CallRecord == [step : CallSteps, attempt : CallTries, on : SlotIds, result : CallResults]
StopSteps == {"no", "asked", "waits", "flushed", "done"}

ThreadShape ==
    /\ slot \in SlotRecord /\ thread \in [ThreadIds -> ThreadRecord] /\ toMain \in [ThreadIds -> Seq(ThreadPosts)]
    /\ call \in [ThreadCalls -> CallRecord] /\ running \subseteq ThreadIds \X ThreadCalls /\ stop \in StopSteps
    /\ begun \in [ThreadCalls -> SUBSET ThreadIds]

\* A submit that may still be sent has begun nowhere, and one that was sent is at a thread of the slot.
MayBeSent == {"idle", "wait", "drain", "post", "sent", "refused"}
CallKnows(c) ==
    /\ call[c].step \in {"sent", "begun", "answered", "refused"} => call[c].on # 0
    /\ c \in ThreadSubmits /\ call[c].step \in MayBeSent => begun[c] = {}
    /\ c \in ThreadSubmits => \A v, w \in begun[c] : v = w

WInv == ThreadShape /\ \A c \in ThreadCalls : CallKnows(c)

LEMMA WInvInit == ASSUME Threads!PoolInit PROVE WInv
  <1>1. slot \in SlotRecord
    <2>1. 1 \in SlotIds /\ 0 \in SlotIds
      BY ThreadAssumption DEF SlotIds
    <2> QED
      BY <2>1 DEF Threads!PoolInit, SlotRecord
  <1>2. thread \in [ThreadIds -> ThreadRecord]
    BY DEF Threads!PoolInit, Threads!Workers, ThreadIds, ThreadRecord
  <1>3. toMain \in [ThreadIds -> Seq(ThreadPosts)] /\ running \subseteq ThreadIds \X ThreadCalls /\ stop \in StopSteps
    BY DEF Threads!PoolInit, Threads!Workers, ThreadIds, StopSteps
  <1>4. call \in [ThreadCalls -> CallRecord] /\ \A c \in ThreadCalls : call[c].step = "idle"
    <2>1. 0 \in SlotIds /\ 0 \in CallTries
      BY ThreadAssumption DEF SlotIds, CallTries
    <2>2. call = [c \in ThreadCalls |-> [step |-> "idle", attempt |-> 0, on |-> 0, result |-> "none"]]
      BY DEF Threads!PoolInit, Threads!Calls, ThreadCalls
    <2>3. [step |-> "idle", attempt |-> 0, on |-> 0, result |-> "none"] \in CallRecord
      BY <2>1 DEF CallRecord, CallSteps, CallResults
    <2> QED
      BY <2>2, <2>3
  <1>5. begun = [c \in ThreadCalls |-> {}]
    BY DEF Threads!PoolInit, Threads!Calls, ThreadCalls
  <1> QED
    BY <1>1, <1>2, <1>3, <1>4, <1>5 DEF WInv, ThreadShape, CallKnows

\* a call goes on without a thread that begins it
LEMMA CallStepped ==
  ASSUME ThreadShape, NEW c \in ThreadCalls, CallKnows(c), NEW k \in CallRecord, call'[c] = k, begun'[c] = begun[c],
         k.step \in {"sent", "begun", "answered", "refused"} => k.on # 0,
         k.step \in MayBeSent /\ c \in ThreadSubmits => call[c].step \in MayBeSent
  PROVE  CallKnows(c)'
  BY DEF CallKnows

LEMMA CallSet ==
  ASSUME WInv, NEW c \in ThreadCalls, NEW k \in CallRecord, call' = [call EXCEPT ![c] = k], begun' = begun,
         slot' \in SlotRecord, thread' \in [ThreadIds -> ThreadRecord], toMain' \in [ThreadIds -> Seq(ThreadPosts)],
         running' \subseteq ThreadIds \X ThreadCalls, stop' \in StopSteps,
         k.step \in {"sent", "begun", "answered", "refused"} => k.on # 0,
         k.step \in MayBeSent => call[c].step \in MayBeSent
  PROVE  WInv'
  <1>1. ThreadShape /\ call \in [ThreadCalls -> CallRecord] /\ begun \in [ThreadCalls -> SUBSET ThreadIds]
    BY DEF WInv, ThreadShape
  <1>2. ThreadShape'
    BY <1>1 DEF ThreadShape
  <1>3. ASSUME NEW d \in ThreadCalls PROVE CallKnows(d)'
    <2>1. CASE d = c
      BY <1>1, <2>1, CallStepped DEF WInv
    <2>2. CASE d # c
      <3>1. call'[d] = call[d]
        BY <1>1, <2>2
      <3> QED
        BY <3>1 DEF WInv, CallKnows
    <2> QED
      BY <2>1, <2>2
  <1> QED
    BY <1>2, <1>3 DEF WInv

\* the calls stay as they are
LEMMA CallsStay ==
  ASSUME WInv, call' = call, begun' = begun, slot' \in SlotRecord, thread' \in [ThreadIds -> ThreadRecord],
         toMain' \in [ThreadIds -> Seq(ThreadPosts)], running' \subseteq ThreadIds \X ThreadCalls, stop' \in StopSteps
  PROVE  WInv'
  BY DEF WInv, ThreadShape, CallKnows

\* a call that is settled, or moved to another step
LEMMA SettledIs ==
  ASSUME call \in [ThreadCalls -> CallRecord], NEW c \in ThreadCalls, NEW r \in CallResults
  PROVE  \E k \in CallRecord : Threads!Settled(c, r) = [call EXCEPT ![c] = k] /\ k.step = "done"
  <1> DEFINE k == [call[c] EXCEPT !.step = "done", !.result = r]
  <1>1. Threads!Settled(c, r) = [call EXCEPT ![c] = k]
    BY DEF Threads!Settled
  <1>2. k \in CallRecord /\ k.step = "done"
    <2>1. "done" \in CallSteps
      BY DEF CallSteps
    <2>2. call[c] \in CallRecord
      OBVIOUS
    <2> QED
      BY <2>1, <2>2 DEF CallRecord
  <1> HIDE DEF k
  <1> QED
    BY <1>1, <1>2

LEMMA SteppedIs ==
  ASSUME NEW k \in CallRecord, NEW s \in CallSteps
  PROVE  /\ [k EXCEPT !.step = s] \in CallRecord /\ [k EXCEPT !.step = s].step = s /\ [k EXCEPT !.step = s].on = k.on
  BY DEF CallRecord

LEMMA TerminatedIs ==
  ASSUME ThreadShape, NEW w, Threads!Terminated(w)
  PROVE  thread' \in [ThreadIds -> ThreadRecord] /\ toMain' \in [ThreadIds -> Seq(ThreadPosts)] /\ running' \subseteq ThreadIds \X ThreadCalls
  <1>1. thread \in [ThreadIds -> ThreadRecord] /\ toMain \in [ThreadIds -> Seq(ThreadPosts)] /\ running \subseteq ThreadIds \X ThreadCalls
    BY DEF ThreadShape
  <1>2. running' \subseteq ThreadIds \X ThreadCalls
    BY <1>1 DEF Threads!Terminated
  <1>3. CASE w \in ThreadIds
    <2>1. thread' = [thread EXCEPT ![w] = [thread[w] EXCEPT !.up = FALSE]] /\ toMain' = [toMain EXCEPT ![w] = Append(toMain[w], "exit")]
      BY DEF Threads!Terminated
    <2>2. [thread[w] EXCEPT !.up = FALSE] \in ThreadRecord
      BY <1>1, <1>3 DEF ThreadRecord
    <2>3. Append(toMain[w], "exit") \in Seq(ThreadPosts)
      BY <1>1, <1>3 DEF ThreadPosts
    <2> QED
      BY <1>1, <1>2, <2>1, <2>2, <2>3
  <1>4. CASE w \notin ThreadIds
    BY <1>1, <1>2, <1>4 DEF Threads!Terminated
  <1> QED
    BY <1>3, <1>4

-----------------------------------------------------------------------------
LEMMA CallMoved ==
  ASSUME WInv, NEW c \in ThreadCalls,
         Threads!rpc(c) \/ Threads!waitForDrainingWorker(c) \/ Threads!timesOut(c)
  PROVE  WInv'
  <1>1. /\ ThreadShape /\ call \in [ThreadCalls -> CallRecord] /\ slot \in SlotRecord /\ call[c] \in CallRecord /\ slot.drainingWorker \in SlotIds
        /\ 0 \in SlotIds
    BY ThreadAssumption DEF WInv, ThreadShape, SlotRecord, SlotIds
  <1>2. /\ begun' = begun /\ slot' \in SlotRecord /\ thread' \in [ThreadIds -> ThreadRecord] /\ toMain' \in [ThreadIds -> Seq(ThreadPosts)]
        /\ running' \subseteq ThreadIds \X ThreadCalls /\ stop' \in StopSteps
    BY <1>1 DEF Threads!rpc, Threads!waitForDrainingWorker, Threads!timesOut, ThreadShape
  <1>3. \E k \in CallRecord : /\ call' = [call EXCEPT ![c] = k] /\ k.step \in {"wait", "drain", "post", "done"}
                              /\ k.step \in MayBeSent => call[c].step \in MayBeSent
    <2>1. CASE Threads!rpc(c)
      <3> DEFINE s == "wait"
                 k == [call[c] EXCEPT !.step = s]
      <3>1. call' = [call EXCEPT ![c] = k] /\ call[c].step \in MayBeSent
        BY <2>1 DEF Threads!rpc, MayBeSent
      <3>2. s \in CallSteps /\ s \in {"wait", "drain", "post", "done"}
        BY DEF CallSteps
      <3> HIDE DEF s
      <3>3. k \in CallRecord /\ k.step = s
        BY <1>1, <3>2, SteppedIs
      <3> HIDE DEF k
      <3> QED
        BY <3>1, <3>2, <3>3
    <2>2. CASE Threads!waitForDrainingWorker(c)
      <3>1. PICK s \in {"post", "drain"}, n \in SlotIds : call' = [call EXCEPT ![c].step = s, ![c].on = n]
        BY <1>1, <2>2 DEF Threads!waitForDrainingWorker
      <3> DEFINE k == [call[c] EXCEPT !.step = s, !.on = n]
      <3>2. call' = [call EXCEPT ![c] = k] /\ call[c].step \in MayBeSent
        BY <3>1, <2>2 DEF Threads!waitForDrainingWorker, MayBeSent
      <3>3. k \in CallRecord /\ k.step = s
        <4>1. s \in CallSteps
          BY DEF CallSteps
        <4> QED
          BY <4>1, <1>1 DEF CallRecord
      <3> HIDE DEF k
      <3> QED
        BY <3>2, <3>3
    <2>3. CASE Threads!timesOut(c)
      <3>1. call' = Threads!Settled(c, "error") /\ "error" \in CallResults /\ "done" \notin MayBeSent
        BY <2>3 DEF Threads!timesOut, CallResults, MayBeSent
      <3> QED
        BY <1>1, <3>1, SettledIs
    <2> QED
      BY <2>1, <2>2, <2>3
  <1> QED
    BY <1>2, <1>3, CallSet

LEMMA CallMovedOn ==
  ASSUME WInv, NEW c \in ThreadCalls, Threads!drainExceeded(c) \/ Threads!rpcOnce(c) \/ Threads!receiveReply(c)
  PROVE  WInv'
  <1>1. /\ ThreadShape /\ call \in [ThreadCalls -> CallRecord] /\ slot \in SlotRecord /\ call[c] \in CallRecord /\ slot.worker \in SlotIds
        /\ CallKnows(c) /\ thread \in [ThreadIds -> ThreadRecord]
    BY DEF WInv, ThreadShape, SlotRecord
  <1>2. begun' = begun
    BY DEF Threads!drainExceeded, Threads!rpcOnce, Threads!receiveReply
  <1>3. CASE Threads!drainExceeded(c)
    <2>1. Threads!Terminated(call[c].on) /\ slot' = slot /\ call' = call /\ stop' = stop
      BY <1>3 DEF Threads!drainExceeded
    <2> QED
      BY <1>1, <1>2, <2>1, TerminatedIs, CallsStay DEF ThreadShape
  <1>4. CASE Threads!rpcOnce(c)
    <2>1. toMain' = toMain /\ running' = running /\ stop' = stop /\ call[c].step = "post" /\ "post" \in MayBeSent
      BY <1>4 DEF Threads!rpcOnce, MayBeSent
    <2>2. ASSUME NEW w \in SlotIds \ {0}, call' = [call EXCEPT ![c].step = "sent", ![c].on = w],
                 slot' \in SlotRecord, thread' \in [ThreadIds -> ThreadRecord]
          PROVE  WInv'
      <3> DEFINE k == [call[c] EXCEPT !.step = "sent", !.on = w]
      <3>1. call' = [call EXCEPT ![c] = k]
        BY <2>2
      <3>2. k \in CallRecord /\ k.step = "sent" /\ k.on = w
        <4>1. "sent" \in CallSteps
          BY DEF CallSteps
        <4> QED
          BY <1>1, <4>1 DEF CallRecord
      <3> HIDE DEF k
      <3> QED
        <4>1. slot' \in SlotRecord /\ thread' \in [ThreadIds -> ThreadRecord] /\ k.on # 0
          BY <2>2, <3>2
        <4>2. toMain' \in [ThreadIds -> Seq(ThreadPosts)] /\ running' \subseteq ThreadIds \X ThreadCalls /\ stop' \in StopSteps
          BY <1>1, <2>1 DEF ThreadShape
        <4>3. call[c].step \in MayBeSent
          BY <2>1
        <4> QED
          BY <1>2, <3>1, <3>2, <4>1, <4>2, <4>3, CallSet
    <2>3. CASE slot.worker # 0 /\ call' = [call EXCEPT ![c].step = "sent", ![c].on = slot.worker] /\ UNCHANGED <<slot, thread>>
      BY <1>1, <2>2, <2>3
    <2>4. CASE call' = Threads!Settled(c, "error") /\ UNCHANGED <<slot, thread>>
      <3>1. "error" \in CallResults /\ "done" \notin MayBeSent /\ "done" \notin {"sent", "begun", "answered", "refused"}
        BY DEF CallResults, MayBeSent
      <3>2. PICK k \in CallRecord : call' = [call EXCEPT ![c] = k] /\ k.step = "done"
        BY <1>1, <2>4, <3>1, SettledIs
      <3> QED
        BY <1>1, <1>2, <2>1, <2>4, <3>1, <3>2, CallSet DEF ThreadShape
    <2>5. CASE slot.worker = 0 /\ slot.started /\ slot.spawned < ThreadWorkers /\ ~(call' = Threads!Settled(c, "error") /\ UNCHANGED <<slot, thread>>)
      <3> DEFINE w == slot.spawned + 1
      <3>1. /\ slot' = [slot EXCEPT !.worker = w, !.spawned = w] /\ thread' = [thread EXCEPT ![w].up = TRUE]
            /\ call' = [call EXCEPT ![c].step = "sent", ![c].on = w]
        BY <1>4, <2>5 DEF Threads!rpcOnce
      <3>2. w \in SlotIds \ {0} /\ w \in ThreadIds
        BY <1>1, <2>5, ThreadAssumption DEF SlotRecord, SlotIds, ThreadIds
      <3> HIDE DEF w
      <3>3. slot' \in SlotRecord
        BY <1>1, <3>1, <3>2 DEF SlotRecord
      <3>4. thread' \in [ThreadIds -> ThreadRecord]
        <4>1. thread' = [thread EXCEPT ![w] = [thread[w] EXCEPT !.up = TRUE]]
          BY <3>1
        <4>2. [thread[w] EXCEPT !.up = TRUE] \in ThreadRecord
          BY <1>1, <3>2 DEF ThreadRecord
        <4> QED
          BY <1>1, <4>1, <4>2
      <3> QED
        BY <2>2, <3>1, <3>2, <3>3, <3>4
    <2> QED
      BY <1>4, <2>3, <2>4, <2>5 DEF Threads!rpcOnce
  <1>5. CASE Threads!receiveReply(c)
    <2>1. toMain' = toMain /\ running' = running /\ stop' = stop /\ thread' = thread
      BY <1>5 DEF Threads!receiveReply
    <2>2. ASSUME NEW r \in {"ok", "error"}, call' = Threads!Settled(c, r) /\ slot' = slot PROVE WInv'
      <3>1. r \in CallResults /\ "done" \notin MayBeSent /\ "done" \notin {"sent", "begun", "answered", "refused"}
        BY DEF CallResults, MayBeSent
      <3>2. PICK k \in CallRecord : call' = [call EXCEPT ![c] = k] /\ k.step = "done"
        BY <1>1, <2>2, <3>1, SettledIs
      <3> QED
        BY <1>1, <1>2, <2>1, <2>2, <3>1, <3>2, CallSet DEF ThreadShape
    <2>3. CASE /\ call[c].step = "refused" /\ slot' = IF slot.drainingWorker = 0 THEN [slot EXCEPT !.drainingWorker = slot.worker] ELSE slot
               /\ call' = [call EXCEPT ![c].step = "wait", ![c].attempt = 1]
      <3> DEFINE n == 1
                 k == [call[c] EXCEPT !.step = "wait", !.attempt = n]
      <3>1. call' = [call EXCEPT ![c] = k]
        BY <2>3
      <3>2. n \in CallTries /\ "wait" \in CallSteps
        BY DEF CallTries, CallSteps
      <3> HIDE DEF n
      <3>3. k \in CallRecord /\ k.step = "wait"
        BY <1>1, <3>2 DEF CallRecord
      <3>4. slot' \in SlotRecord
        BY <1>1, <2>3 DEF SlotRecord
      <3>5. call[c].step \in MayBeSent
        BY <2>3 DEF MayBeSent
      <3> HIDE DEF k
      <3> QED
        BY <1>1, <1>2, <2>1, <3>1, <3>3, <3>4, <3>5, CallSet DEF ThreadShape
    <2> QED
      BY <1>5, <2>2, <2>3 DEF Threads!receiveReply
  <1> QED
    BY <1>3, <1>4, <1>5

\* what becomes of the calls when the thread of the slot is gone
LEMMA AfterExitIs ==
  ASSUME WInv, NEW c \in ThreadCalls, NEW rotated \in BOOLEAN, Threads!Pending(c)
  PROVE  \E k \in CallRecord : /\ Threads!AfterExit(c, rotated) = k /\ k.step \in {"wait", "done"}
                               /\ c \in ThreadSubmits => k.step = "done"
  <1>1. call[c] \in CallRecord
    BY DEF WInv, ThreadShape
  <1>2. CASE rotated /\ c \in ThreadReads /\ call[c].attempt = 0
    <2> DEFINE n == 1
               k == [call[c] EXCEPT !.step = "wait", !.attempt = n]
    <2>1. Threads!AfterExit(c, rotated) = k
      BY <1>2 DEF Threads!AfterExit
    <2>2. n \in CallTries /\ "wait" \in CallSteps
      BY DEF CallTries, CallSteps
    <2> HIDE DEF n
    <2>3. k \in CallRecord /\ k.step = "wait"
      BY <1>1, <2>2 DEF CallRecord
    <2> HIDE DEF k
    <2> QED
      BY <1>2, <2>1, <2>3, ThreadAssumption
  <1>3. CASE ~(rotated /\ c \in ThreadReads /\ call[c].attempt = 0)
    <2> DEFINE r == "error"
               k == [call[c] EXCEPT !.step = "done", !.result = r]
    <2>1. Threads!AfterExit(c, rotated) = k
      BY <1>3 DEF Threads!AfterExit
    <2>2. r \in CallResults /\ "done" \in CallSteps
      BY DEF CallResults, CallSteps
    <2> HIDE DEF r
    <2>3. k \in CallRecord /\ k.step = "done"
      BY <1>1, <2>2 DEF CallRecord
    <2> HIDE DEF k
    <2> QED
      BY <2>1, <2>3
  <1> QED
    BY <1>2, <1>3

LEMMA TailIs ==
  ASSUME NEW s \in Seq(ThreadPosts), s # <<>>
  PROVE  Tail(s) \in Seq(ThreadPosts) /\ Append(Tail(s), "exit") \in Seq(ThreadPosts)
  BY DEF ThreadPosts

LEMMA WorkerMessageKeeps ==
  ASSUME WInv, NEW w \in ThreadIds, Threads!workerMessage(w)
  PROVE  WInv'
  <1>1. /\ ThreadShape /\ call \in [ThreadCalls -> CallRecord] /\ slot \in SlotRecord /\ thread \in [ThreadIds -> ThreadRecord]
        /\ toMain \in [ThreadIds -> Seq(ThreadPosts)] /\ running \subseteq ThreadIds \X ThreadCalls /\ toMain[w] # <<>>
        /\ begun' = begun /\ stop \in StopSteps /\ w \in SlotIds /\ 0 \in SlotIds
    BY ThreadAssumption DEF WInv, ThreadShape, Threads!workerMessage, SlotIds, ThreadIds
  <1>2. Tail(toMain[w]) \in Seq(ThreadPosts) /\ Append(Tail(toMain[w]), "exit") \in Seq(ThreadPosts)
    BY <1>1, TailIs
  <1>3. CASE /\ slot' = [slot EXCEPT !.rotationAnnouncedBy = w, !.drainingWorker = w]
             /\ UNCHANGED <<call, stop>>
             /\ IF Head(toMain[w]) = "rotation-done" /\ thread[w].up
                THEN /\ thread' = [thread EXCEPT ![w].up = FALSE]
                     /\ toMain' = [toMain EXCEPT ![w] = Append(Tail(@), "exit")]
                     /\ running' = {r \in running : r[1] # w}
                ELSE toMain' = [toMain EXCEPT ![w] = Tail(@)] /\ UNCHANGED <<thread, running>>
    <2>1. slot' \in SlotRecord
      BY <1>1, <1>3 DEF SlotRecord
    <2>2. toMain' \in [ThreadIds -> Seq(ThreadPosts)]
      BY <1>1, <1>2, <1>3
    <2>3. running' \subseteq ThreadIds \X ThreadCalls
      BY <1>1, <1>3
    <2>4. thread' \in [ThreadIds -> ThreadRecord]
      <3>1. CASE thread' = thread
        BY <1>1, <3>1
      <3>2. CASE thread' = [thread EXCEPT ![w].up = FALSE]
        <4>1. thread' = [thread EXCEPT ![w] = [thread[w] EXCEPT !.up = FALSE]]
          BY <3>2
        <4>2. [thread[w] EXCEPT !.up = FALSE] \in ThreadRecord
          BY <1>1 DEF ThreadRecord
        <4> QED
          BY <1>1, <4>1, <4>2
      <3> QED
        BY <1>3, <3>1, <3>2
    <2>5. call' = call /\ stop' = stop
      BY <1>3
    <2> QED
      BY <1>1, <2>1, <2>2, <2>3, <2>4, <2>5, CallsStay
  <1> DEFINE rotated == slot.stoppingWorker # w /\ slot.rotationAnnouncedBy = w
             Cleared(f) == IF slot[f] = w THEN 0 ELSE slot[f]
  <1>4. CASE /\ toMain' = [toMain EXCEPT ![w] = Tail(@)]
             /\ slot' = [slot EXCEPT !.worker = Cleared("worker"), !.drainingWorker = Cleared("drainingWorker"),
                                      !.rotationAnnouncedBy = Cleared("rotationAnnouncedBy"), !.stoppingWorker = Cleared("stoppingWorker")]
             /\ call' = [c \in Threads!Calls |-> IF Threads!Pending(c) THEN Threads!AfterExit(c, rotated) ELSE call[c]]
             /\ stop' = IF stop \in {"asked", "waits", "flushed"} THEN "done" ELSE stop
             /\ UNCHANGED <<thread, running>>
    <2>1. slot' \in SlotRecord
      <3> DEFINE a == Cleared("worker")
                 b == Cleared("drainingWorker")
                 e == Cleared("rotationAnnouncedBy")
                 f == Cleared("stoppingWorker")
      <3>1. a \in SlotIds /\ b \in SlotIds /\ e \in SlotIds /\ f \in SlotIds
        <4>1. slot["worker"] \in SlotIds /\ slot["drainingWorker"] \in SlotIds /\ slot["rotationAnnouncedBy"] \in SlotIds
              /\ slot["stoppingWorker"] \in SlotIds
          BY <1>1 DEF SlotRecord
        <4> QED
          BY <1>1, <4>1
      <3>2. slot' = [slot EXCEPT !.worker = a, !.drainingWorker = b, !.rotationAnnouncedBy = e, !.stoppingWorker = f]
        BY <1>4
      <3> HIDE DEF a, b, e, f
      <3> QED
        BY <1>1, <3>1, <3>2 DEF SlotRecord
    <2>2. toMain' \in [ThreadIds -> Seq(ThreadPosts)]
      BY <1>1, <1>2, <1>4
    <2>3. thread' = thread /\ running' = running
      BY <1>4
    <2>4. stop' \in StopSteps
      BY <1>1, <1>4 DEF StopSteps
    <2>5. rotated \in BOOLEAN
      OBVIOUS
    <2>6. ASSUME NEW c \in ThreadCalls PROVE call'[c] \in CallRecord /\ CallKnows(c)'
      <3>1. CallKnows(c)
        BY DEF WInv
      <3>2. call'[c] = IF Threads!Pending(c) THEN Threads!AfterExit(c, rotated) ELSE call[c]
        BY <1>4 DEF Threads!Calls, ThreadCalls
      <3>3. CASE Threads!Pending(c)
        <4> HIDE DEF rotated
        <4>1. PICK k \in CallRecord : call'[c] = k /\ k.step \in {"wait", "done"} /\ (c \in ThreadSubmits => k.step = "done")
          BY <2>5, <3>2, <3>3, AfterExitIs
        <4> QED
          BY <1>1, <3>1, <4>1 DEF CallKnows, MayBeSent
      <3>4. CASE ~Threads!Pending(c)
        BY <1>1, <3>1, <3>2, <3>4 DEF CallKnows
      <3> QED
        BY <3>3, <3>4
    <2>7. call' \in [ThreadCalls -> CallRecord]
      <3>1. call' = [c \in ThreadCalls |-> call'[c]]
        BY <1>4 DEF Threads!Calls, ThreadCalls
      <3> QED
        BY <2>6, <3>1
    <2> QED
      BY <1>1, <2>1, <2>2, <2>3, <2>4, <2>6, <2>7 DEF WInv, ThreadShape
  <1> QED
    BY <1>3, <1>4 DEF Threads!workerMessage

LEMMA DispatchKeeps ==
  ASSUME WInv, NEW c \in ThreadCalls, Threads!dispatch(c)
  PROVE  WInv'
  <1>1. /\ ThreadShape /\ call \in [ThreadCalls -> CallRecord] /\ call[c] \in CallRecord /\ CallKnows(c)
        /\ begun \in [ThreadCalls -> SUBSET ThreadIds] /\ running \subseteq ThreadIds \X ThreadCalls
    BY DEF WInv, ThreadShape
  <1>2. /\ slot' = slot /\ thread' = thread /\ toMain' = toMain /\ stop' = stop /\ call[c].step = "sent"
    BY DEF Threads!dispatch
  <1>3. call[c].on \in ThreadIds
    BY <1>1, <1>2, ThreadAssumption DEF CallKnows, CallRecord, SlotIds, ThreadIds
  <1>4. CASE call' = [call EXCEPT ![c].step = "refused"] /\ UNCHANGED <<running, begun>>
    <2> DEFINE s == "refused"
               k == [call[c] EXCEPT !.step = s]
    <2>1. call' = [call EXCEPT ![c] = k] /\ begun' = begun /\ running' = running
      BY <1>4
    <2>2. s \in CallSteps /\ s = "refused"
      BY DEF CallSteps
    <2> HIDE DEF s
    <2>3. k \in CallRecord /\ k.step = s /\ k.on = call[c].on
      BY <1>1, <2>2, SteppedIs
    <2> HIDE DEF k
    <2>4. call[c].step \in MayBeSent /\ k.on # 0
      BY <1>1, <1>2, <2>3 DEF MayBeSent, CallKnows
    <2> QED
      BY <1>1, <1>2, <2>1, <2>3, <2>4, CallSet DEF ThreadShape
  <1>5. CASE /\ call' = [call EXCEPT ![c].step = "begun"] /\ running' = running \cup {<<call[c].on, c>>}
             /\ begun' = [begun EXCEPT ![c] = @ \cup {call[c].on}]
    <2> DEFINE s == "begun"
               k == [call[c] EXCEPT !.step = s]
    <2>1. call' = [call EXCEPT ![c] = k]
      BY <1>5
    <2>2. s \in CallSteps /\ s = "begun"
      BY DEF CallSteps
    <2> HIDE DEF s
    <2>3. k \in CallRecord /\ k.step = s /\ k.on = call[c].on
      BY <1>1, <2>2, SteppedIs
    <2> HIDE DEF k
    <2>4. call' \in [ThreadCalls -> CallRecord]
      BY <1>1, <2>1, <2>3
    <2>5. running' \subseteq ThreadIds \X ThreadCalls
      BY <1>1, <1>3, <1>5
    <2>6. begun' \in [ThreadCalls -> SUBSET ThreadIds]
      BY <1>1, <1>3, <1>5
    <2>7. ThreadShape'
      BY <1>1, <1>2, <2>4, <2>5, <2>6 DEF ThreadShape
    <2>8. ASSUME NEW d \in ThreadCalls PROVE CallKnows(d)'
      <3>1. CASE d = c
        <4>1. call'[c] = k /\ begun'[c] = begun[c] \cup {call[c].on}
          BY <1>1, <1>5, <2>1
        <4>2. k.step \notin MayBeSent /\ k.on # 0
          BY <1>1, <1>2, <2>2, <2>3 DEF MayBeSent, CallKnows
        <4>3. c \in ThreadSubmits => begun[c] = {}
          BY <1>1, <1>2 DEF MayBeSent, CallKnows
        <4> QED
          BY <3>1, <4>1, <4>2, <4>3 DEF CallKnows
      <3>2. CASE d # c
        <4>1. call'[d] = call[d] /\ begun'[d] = begun[d]
          BY <1>1, <1>5, <3>2
        <4> QED
          BY <4>1 DEF WInv, CallKnows
      <3> QED
        BY <3>1, <3>2
    <2> QED
      BY <2>7, <2>8 DEF WInv
  <1> QED
    BY <1>4, <1>5 DEF Threads!dispatch

LEMMA FinishesKeeps ==
  ASSUME WInv, NEW w \in ThreadIds, NEW c \in ThreadCalls, Threads!finishes(w, c)
  PROVE  WInv'
  <1>1. /\ ThreadShape /\ call \in [ThreadCalls -> CallRecord] /\ call[c] \in CallRecord /\ CallKnows(c)
        /\ thread \in [ThreadIds -> ThreadRecord] /\ thread[w] \in ThreadRecord /\ toMain \in [ThreadIds -> Seq(ThreadPosts)]
        /\ running \subseteq ThreadIds \X ThreadCalls
    BY DEF WInv, ThreadShape
  <1> DEFINE t == Threads!noteGenerationImported(thread[w], c)
             u == Threads!rotateIfDue(w, t, running \ {<<w, c>>})
             m == Threads!Announces(w, t)
  <1>2. /\ slot' = slot /\ begun' = begun /\ stop' = stop /\ running' = running \ {<<w, c>>}
        /\ thread' = [thread EXCEPT ![w] = u] /\ toMain' = [toMain EXCEPT ![w] = m]
    BY DEF Threads!finishes
  <1>3. t \in ThreadRecord
    <2> DEFINE n == IF c \in ThreadSubmits THEN thread[w].imported + 1 ELSE thread[w].imported
               p == thread[w].pending \/ n >= ThreadVersions
    <2>1. t = [thread[w] EXCEPT !.imported = n, !.pending = p]
      BY DEF Threads!noteGenerationImported
    <2>2. n \in Nat /\ p \in BOOLEAN
      BY <1>1 DEF ThreadRecord
    <2> HIDE DEF n, p, t
    <2> QED
      BY <1>1, <2>1, <2>2 DEF ThreadRecord
  <1>4. u \in ThreadRecord
    <2> DEFINE f == t.finalizing \/ Threads!Inflight(w, running \ {<<w, c>>}) = 0
    <2>1. u = t \/ u = [t EXCEPT !.draining = TRUE, !.finalizing = f]
      BY DEF Threads!rotateIfDue
    <2>2. f \in BOOLEAN
      <3>1. t.finalizing \in BOOLEAN
        BY <1>3 DEF ThreadRecord
      <3> HIDE DEF t
      <3> QED
        BY <3>1
    <2> HIDE DEF f, t, u
    <2> QED
      BY <1>3, <2>1, <2>2 DEF ThreadRecord
  <1>5. m \in Seq(ThreadPosts)
    BY <1>1 DEF Threads!Announces, ThreadPosts
  <1> HIDE DEF t, u, m
  <1>6. /\ thread' \in [ThreadIds -> ThreadRecord] /\ toMain' \in [ThreadIds -> Seq(ThreadPosts)] /\ running' \subseteq ThreadIds \X ThreadCalls
    BY <1>1, <1>2, <1>4, <1>5
  <1>7. slot' \in SlotRecord /\ stop' \in StopSteps
    BY <1>1, <1>2 DEF ThreadShape
  <1>8. CASE call' = call
    BY <1>2, <1>6, <1>7, <1>8, CallsStay
  <1>9. CASE call[c].step = "begun" /\ call' = [call EXCEPT ![c].step = "answered"]
    <2> DEFINE s == "answered"
               k == [call[c] EXCEPT !.step = s]
    <2>1. call' = [call EXCEPT ![c] = k]
      BY <1>9
    <2>2. s \in CallSteps /\ s = "answered"
      BY DEF CallSteps
    <2> HIDE DEF s
    <2>3. k \in CallRecord /\ k.step = s /\ k.on = call[c].on
      BY <1>1, <2>2, SteppedIs
    <2> HIDE DEF k
    <2>4. k.on # 0 /\ k.step \notin MayBeSent
      BY <1>1, <1>9, <2>2, <2>3 DEF MayBeSent, CallKnows
    <2> QED
      BY <1>2, <1>6, <1>7, <2>1, <2>3, <2>4, CallSet
  <1> QED
    BY <1>8, <1>9 DEF Threads!finishes

LEMMA WorkerStopKeeps ==
  ASSUME WInv, (\E w \in ThreadIds : Threads!evictAllFacades(w) \/ Threads!crash(w)) \/ Threads!stopWalletWorker
               \/ Threads!shutdown \/ Threads!stopWorkerSlot
  PROVE  WInv'
  <1>1. /\ ThreadShape /\ slot \in SlotRecord /\ thread \in [ThreadIds -> ThreadRecord] /\ toMain \in [ThreadIds -> Seq(ThreadPosts)]
        /\ running \subseteq ThreadIds \X ThreadCalls /\ stop \in StopSteps /\ slot.worker \in SlotIds /\ 0 \in SlotIds
    BY ThreadAssumption DEF WInv, ThreadShape, SlotRecord, SlotIds
  <1>2. call' = call /\ begun' = begun
    BY DEF Threads!evictAllFacades, Threads!crash, Threads!stopWalletWorker, Threads!shutdown, Threads!stopWorkerSlot
  <1>3. ASSUME NEW w \in ThreadIds, Threads!evictAllFacades(w) PROVE WInv'
    <2>1. /\ slot' = slot /\ thread' = thread /\ running' = running /\ stop' = stop
          /\ toMain' = [toMain EXCEPT ![w] = Append(toMain[w], "rotation-done")]
      BY <1>3 DEF Threads!evictAllFacades
    <2>2. Append(toMain[w], "rotation-done") \in Seq(ThreadPosts)
      BY <1>1 DEF ThreadPosts
    <2>3. toMain' \in [ThreadIds -> Seq(ThreadPosts)]
      BY <1>1, <2>1, <2>2
    <2> QED
      BY <1>1, <1>2, <2>1, <2>3, CallsStay
  <1>4. ASSUME NEW w \in ThreadIds, Threads!crash(w) PROVE WInv'
    <2>1. Threads!Terminated(w) /\ slot' = slot /\ stop' = stop
      BY <1>4 DEF Threads!crash
    <2> QED
      BY <1>1, <1>2, <2>1, TerminatedIs, CallsStay
  <1>5. CASE Threads!stopWalletWorker
    <2>1. /\ slot' = [slot EXCEPT !.started = FALSE] /\ thread' = thread /\ toMain' = toMain /\ running' = running
          /\ stop' \in {"done", "asked"}
      BY <1>5 DEF Threads!stopWalletWorker
    <2>2. slot' \in SlotRecord /\ stop' \in StopSteps
      BY <1>1, <2>1 DEF SlotRecord, StopSteps
    <2> QED
      BY <1>1, <1>2, <2>1, <2>2, CallsStay
  <1>6. CASE Threads!shutdown
    <2> DEFINE w == slot.worker
    <2>1. /\ toMain' = toMain /\ running' = running /\ stop' \in {"waits", "flushed"}
          /\ slot' = slot \/ slot' = [slot EXCEPT !.drainingWorker = w]
          /\ thread' = thread \/ thread' = [thread EXCEPT ![w].draining = TRUE]
      BY <1>6 DEF Threads!shutdown
    <2>2. w \in SlotIds
      BY <1>1
    <2> HIDE DEF w
    <2>3. slot' \in SlotRecord /\ stop' \in StopSteps
      BY <1>1, <2>1, <2>2 DEF SlotRecord, StopSteps
    <2>4. thread' \in [ThreadIds -> ThreadRecord]
      <3>1. CASE thread' = thread
        BY <1>1, <3>1
      <3>2. CASE w \in ThreadIds /\ thread' = [thread EXCEPT ![w].draining = TRUE]
        <4>1. thread' = [thread EXCEPT ![w] = [thread[w] EXCEPT !.draining = TRUE]]
          BY <3>2
        <4>2. [thread[w] EXCEPT !.draining = TRUE] \in ThreadRecord
          BY <1>1, <3>2 DEF ThreadRecord
        <4> QED
          BY <1>1, <3>2, <4>1, <4>2
      <3>3. CASE w \notin ThreadIds /\ thread' = [thread EXCEPT ![w].draining = TRUE]
        BY <1>1, <3>3
      <3> QED
        BY <2>1, <3>1, <3>2, <3>3
    <2> QED
      BY <1>1, <1>2, <2>1, <2>3, <2>4, CallsStay
  <1>7. CASE Threads!stopWorkerSlot
    <2> DEFINE w == slot.worker
    <2>1. /\ slot' = [slot EXCEPT !.worker = 0, !.stoppingWorker = w] /\ stop' = "done"
          /\ Threads!Terminated(w) \/ UNCHANGED <<thread, toMain, running>>
      BY <1>7 DEF Threads!stopWorkerSlot
    <2>2. slot' \in SlotRecord /\ stop' \in StopSteps
      <3> DEFINE n == 0
      <3>1. slot' = [slot EXCEPT !.worker = n, !.stoppingWorker = w] /\ n \in SlotIds /\ w \in SlotIds
        BY <1>1, <2>1
      <3> HIDE DEF n, w
      <3>2. slot' \in SlotRecord
        BY <1>1, <3>1 DEF SlotRecord
      <3> QED
        BY <2>1, <3>2 DEF StopSteps
    <2> QED
      BY <1>1, <1>2, <2>1, <2>2, TerminatedIs, CallsStay
  <1> QED
    BY <1>3, <1>4, <1>5, <1>6, <1>7

LEMMA WInvNext == ASSUME WInv, [Threads!PoolNext]_threadVars PROVE WInv'
  <1>1. CASE UNCHANGED threadVars
    BY <1>1, CallsStay DEF threadVars, WInv, ThreadShape
  <1>2. CASE Threads!PoolNext
    <2>1. Threads!Calls = ThreadCalls /\ Threads!Workers = ThreadIds
      BY DEF Threads!Calls, Threads!Workers, ThreadCalls, ThreadIds
    <2>2. ASSUME NEW c \in ThreadCalls,
                 \/ Threads!waitForDrainingWorker(c) \/ Threads!rpcOnce(c) \/ Threads!receiveReply(c) \/ Threads!dispatch(c)
                 \/ Threads!rpc(c) \/ Threads!drainExceeded(c) \/ Threads!timesOut(c)
          PROVE  WInv'
      BY <2>2, CallMoved, CallMovedOn, DispatchKeeps
    <2>3. ASSUME NEW w \in ThreadIds,
                 Threads!workerMessage(w) \/ Threads!evictAllFacades(w) \/ Threads!crash(w) \/ \E c \in ThreadCalls : Threads!finishes(w, c)
          PROVE  WInv'
      BY <2>3, WorkerMessageKeeps, WorkerStopKeeps, FinishesKeeps
    <2>4. ASSUME Threads!stopWalletWorker \/ Threads!shutdown \/ Threads!stopWorkerSlot PROVE WInv'
      BY <2>4, WorkerStopKeeps
    <2> QED
      BY <1>2, <2>1, <2>2, <2>3, <2>4 DEF Threads!PoolNext, Threads!PoolProgress
  <1> QED
    BY <1>1, <1>2

LEMMA WInvImplies == WInv => Threads!PoolTypeOK /\ Threads!SubmitBegunOnce
  <1> SUFFICES ASSUME WInv PROVE Threads!PoolTypeOK /\ Threads!SubmitBegunOnce
    OBVIOUS
  <1>1. Threads!PoolTypeOK
    BY DEF WInv, ThreadShape, Threads!PoolTypeOK, Threads!Calls, Threads!Workers, ThreadCalls, ThreadIds, SlotRecord, SlotIds,
           ThreadRecord, ThreadPosts, CallRecord, CallSteps, CallTries, CallResults, StopSteps
  <1>2. \A S : Threads!Cardinality(S) = Cardinality(S)
    BY DEF Threads!Cardinality, Cardinality
  <1>3. ASSUME NEW c \in ThreadSubmits PROVE Threads!Cardinality(begun[c]) <= 1
    <2>1. \A v, w \in begun[c] : v = w
      BY DEF WInv, CallKnows, ThreadCalls
    <2>2. begun[c] = {} \/ \E w : begun[c] = {w}
      BY <2>1
    <2>3. \A w : Cardinality({w}) = 1
      BY FS_Singleton
    <2>4. Cardinality({}) = 0
      BY FS_EmptySet
    <2>5. Cardinality(begun[c]) \in {0, 1}
      BY <2>2, <2>3, <2>4
    <2>6. Threads!Cardinality(begun[c]) = Cardinality(begun[c])
      BY <1>2
    <2> QED
      BY <2>5, <2>6
  <1> QED
    BY <1>1, <1>3 DEF Threads!SubmitBegunOnce

-----------------------------------------------------------------------------
(* Calls through the SDK.                                                  *)

SdkSteps == {"idle", "posting", "polling", "asking", "done"}
SdkResults == Sdk!Settled \cup {"none", "retryable", "refused", "unreachable", "slow"}
SdkCall == [step : SdkSteps, key : BOOLEAN, resent : BOOLEAN, job : Nat, longPoll : BOOLEAN, deadline : Nat, firstPollFailure : Int,
            heard : Nat, result : SdkResults]
CopyStages == {"sent", "checked", "answered", "lost"}
SdkCopy == [stage : CopyStages, answer : Sdk!Answers]
SdkJob == [of : SdkCallers, status : Sdk!Statuses]
PollAts == {"none", "asked", "held"} \cup Sdk!Statuses
SdkPolls == [at : [SdkCallers -> PollAts], count : Nat, orphans : Nat]

SdkShape ==
    /\ sdk \in [SdkCallers -> SdkCall] /\ copies \in [SdkCallers -> Seq(SdkCopy)] /\ sdkJobs \in Seq(SdkJob)
    /\ polls \in SdkPolls /\ clock \in Nat /\ clock <= SdkMaxNow

IsJobOf(c, j) == j \in 1..Len(sdkJobs) /\ sdkJobs[j].of = c

\* a request that names a job names the call's
CopyOk(jobs, c, k) ==
    (k.answer.to = "job" => k.answer.job \in 1..Len(jobs) /\ jobs[k.answer.job].of = c) /\ (k.stage = "answered" => k.answer.to # "wait")

\* A call has one job at most, and its requests are answered with that one. Without a key it sends one request, which is
\* answered when the job is there.
OneJob(c) ==
    /\ \A i, j \in Nat : IsJobOf(c, i) /\ IsJobOf(c, j) => i = j
    /\ \A n \in 1..Len(copies[c]) : CopyOk(sdkJobs, c, copies[c][n])
    /\ sdk[c].step = "idle" <=> Len(copies[c]) = 0
    /\ Len(copies[c]) = 0 => \A j \in Nat : ~IsJobOf(c, j)
    /\ ~sdk[c].key => /\ Len(copies[c]) <= 1
                      /\ (\E j \in Nat : IsJobOf(c, j)) => \A n \in 1..Len(copies[c]) : copies[c][n].stage = "answered"

\* an outcome that was read is the job's, or the job was parked then
IsOutcome(s, j) == sdkJobs[j].status \in Sdk!Settled /\ (s # "reconciliation_required" => s = sdkJobs[j].status)

\* What a call knows of its job.
KnowsJob(c) ==
    /\ sdk[c].step \in {"polling", "asking"} \/ sdk[c].result \in Sdk!Settled => IsJobOf(c, sdk[c].job)
    /\ sdk[c].result # "none" => sdk[c].step = "done"
    /\ polls.at[c] # "none" => sdk[c].step = "asking"
    /\ polls.at[c] \in Sdk!Settled => IsOutcome(polls.at[c], sdk[c].job)
    /\ sdk[c].result \in Sdk!Settled => IsOutcome(sdk[c].result, sdk[c].job)

\* Its first failed poll is not before the last one that was answered.
KnowsTime(c) ==
    /\ sdk[c].heard <= clock /\ sdk[c].firstPollFailure <= clock
    /\ sdk[c].firstPollFailure = -1 \/ sdk[c].firstPollFailure >= sdk[c].heard
    /\ sdk[c].result = "unreachable" => clock - sdk[c].heard > SdkGrace \/ clock > sdk[c].deadline

Held == {c \in SdkCallers : polls.at[c] = "held"}
HeldCounted == polls.count = polls.orphans + Cardinality(Held) /\ polls.count <= SdkWaiters

CInv == SdkShape /\ HeldCounted /\ \A c \in SdkCallers : OneJob(c) /\ KnowsJob(c) /\ KnowsTime(c)

LEMMA CInvInit == ASSUME Sdk!SdkInit PROVE CInv
  <1>. USE SdkAssumption
  <1>1. PICK keyed \in [SdkCallers -> BOOLEAN], long \in BOOLEAN :
          sdk = [c \in SdkCallers |-> [step |-> "idle", key |-> keyed[c], resent |-> FALSE, job |-> 0, longPoll |-> long,
                                    deadline |-> 0, firstPollFailure |-> -1, heard |-> 0, result |-> "none"]]
    BY DEF Sdk!SdkInit
  <1>2. SdkShape
    <2>1. sdk \in [SdkCallers -> SdkCall]
      BY <1>1 DEF SdkCall, SdkSteps, SdkResults
    <2>2. copies \in [SdkCallers -> Seq(SdkCopy)] /\ sdkJobs \in Seq(SdkJob) /\ clock \in Nat /\ clock <= SdkMaxNow
      BY DEF Sdk!SdkInit
    <2>3. polls \in SdkPolls
      BY DEF Sdk!SdkInit, SdkPolls, PollAts
    <2> QED
      BY <2>1, <2>2, <2>3 DEF SdkShape
  <1>3. HeldCounted
    <2>1. Held = {}
      BY DEF Sdk!SdkInit, Held
    <2>2. polls.count = 0 /\ polls.orphans = 0
      BY DEF Sdk!SdkInit
    <2> QED
      BY <2>1, <2>2, FS_EmptySet DEF HeldCounted
  <1>4. ASSUME NEW c \in SdkCallers PROVE OneJob(c) /\ KnowsJob(c) /\ KnowsTime(c)
    <2>1. Len(copies[c]) = 0 /\ Len(sdkJobs) = 0 /\ polls.at[c] = "none" /\ clock = 0
      BY DEF Sdk!SdkInit
    <2>2. sdk[c].step = "idle" /\ sdk[c].result = "none" /\ sdk[c].heard = 0 /\ sdk[c].firstPollFailure = -1
      BY <1>1
    <2> QED
      BY <2>1, <2>2 DEF OneJob, KnowsJob, KnowsTime, IsJobOf, Sdk!Settled
  <1> QED
    BY <1>2, <1>3, <1>4 DEF CInv

LEMMA OneJobStays ==
  ASSUME NEW c, OneJob(c), \A j : IsJobOf(c, j)' <=> IsJobOf(c, j), copies'[c] = copies[c],
         sdk'[c].key = sdk[c].key, sdk'[c].step = "idle" <=> sdk[c].step = "idle"
  PROVE  OneJob(c)'
  <1>1. \A k : CopyOk(sdkJobs, c, k) => CopyOk(sdkJobs', c, k)
    BY DEF CopyOk, IsJobOf
  <1> QED
    BY <1>1 DEF OneJob

LEMMA KnowsJobStays ==
  ASSUME NEW c, KnowsJob(c), IsJobOf(c, sdk[c].job) => IsJobOf(c, sdk[c].job)',
         \A s \in Sdk!Settled : IsOutcome(s, sdk[c].job) => IsOutcome(s, sdk[c].job)',
         sdk'[c] = sdk[c], polls'.at[c] = polls.at[c]
  PROVE  KnowsJob(c)'
  BY DEF KnowsJob

LEMMA KnowsTimeStays ==
  ASSUME NEW c, KnowsTime(c), sdk'[c] = sdk[c], clock' = clock
  PROVE  KnowsTime(c)'
  BY DEF KnowsTime

LEMMA OutcomeStays ==
  ASSUME NEW s, NEW j, IsOutcome(s, j), sdkJobs' = sdkJobs
  PROVE  IsOutcome(s, j)'
  BY DEF IsOutcome

LEMMA JobsStay ==
  ASSUME sdkJobs' = sdkJobs, NEW c, NEW j
  PROVE  IsJobOf(c, j)' <=> IsJobOf(c, j)
  BY DEF IsJobOf

\* another call keeps what it knows when the jobs are as they were
LEMMA OthersKeep ==
  ASSUME SdkShape, NEW c \in SdkCallers, OneJob(c), KnowsJob(c), KnowsTime(c), sdkJobs' = sdkJobs, sdk'[c] = sdk[c],
         copies'[c] = copies[c], polls'.at[c] = polls.at[c], clock' = clock
  PROVE  OneJob(c)' /\ KnowsJob(c)' /\ KnowsTime(c)'
  <1>1. \A j : IsJobOf(c, j)' <=> IsJobOf(c, j)
    BY DEF IsJobOf
  <1>2. \A s, j : IsOutcome(s, j) => IsOutcome(s, j)'
    BY DEF IsOutcome
  <1> QED
    BY <1>1, <1>2, OneJobStays, KnowsJobStays, KnowsTimeStays

LEMMA HeldSame ==
  ASSUME HeldCounted, polls'.count = polls.count, polls'.orphans = polls.orphans,
         \A c \in SdkCallers : polls'.at[c] = "held" <=> polls.at[c] = "held"
  PROVE  HeldCounted'
  <1>1. Held' = Held
    BY DEF Held
  <1> QED
    BY <1>1 DEF HeldCounted

LEMMA HeldFinite == IsFiniteSet(Held) /\ Cardinality(Held) \in Nat
  <1>1. Held \subseteq SdkCallers
    BY DEF Held
  <1> QED
    BY <1>1, SdkAssumption, FS_Subset, FS_CardinalityType

LEMMA HeldJoins ==
  ASSUME SdkShape, HeldCounted, NEW c \in SdkCallers, polls.at[c] # "held", polls.count < SdkWaiters,
         polls' = [polls EXCEPT !.at[c] = "held", !.count = @ + 1]
  PROVE  HeldCounted'
  <1>1. polls \in SdkPolls
    BY DEF SdkShape
  <1>2. Held' = Held \cup {c}
    BY <1>1 DEF Held, SdkPolls
  <1>3. c \notin Held
    BY DEF Held
  <1>4. Cardinality(Held') = Cardinality(Held) + 1
    BY <1>2, <1>3, HeldFinite, FS_AddElement
  <1>5. polls'.count = polls.count + 1 /\ polls'.orphans = polls.orphans /\ polls.count \in Nat /\ polls.orphans \in Nat
    BY <1>1 DEF SdkPolls
  <1> QED
    BY <1>4, <1>5, HeldFinite, SdkAssumption DEF HeldCounted

LEMMA HeldLeaves ==
  ASSUME SdkShape, HeldCounted, NEW c \in SdkCallers, polls.at[c] = "held", NEW s, s # "held",
         polls'.at = [polls.at EXCEPT ![c] = s], polls'.count - polls'.orphans = polls.count - polls.orphans - 1,
         polls'.count \in Nat, polls'.orphans \in Nat, polls'.count <= polls.count
  PROVE  HeldCounted'
  <1>1. polls \in SdkPolls
    BY DEF SdkShape
  <1>2. Held' = Held \ {c}
    BY <1>1 DEF Held, SdkPolls
  <1>3. c \in Held
    BY DEF Held
  <1>4. Cardinality(Held') = Cardinality(Held) - 1
    BY <1>2, <1>3, HeldFinite, FS_RemoveElement
  <1>5. polls.count \in Nat /\ polls.orphans \in Nat
    BY <1>1 DEF SdkPolls
  <1>6. polls.count = polls.orphans + Cardinality(Held) /\ polls.count <= SdkWaiters
    BY DEF HeldCounted
  <1>7. polls'.count = polls'.orphans + Cardinality(Held')
    BY <1>4, <1>5, <1>6, HeldFinite
  <1>8. polls'.count <= SdkWaiters
    BY <1>5, <1>6, SdkAssumption
  <1> QED
    BY <1>7, <1>8 DEF HeldCounted

-----------------------------------------------------------------------------
\* the copies of a call
LEMMA AnswersAre ==
  /\ [to |-> "wait"] \in Sdk!Answers /\ [to |-> "busy"] \in Sdk!Answers
  /\ \A j \in Nat \ {0} : [to |-> "job", job |-> j] \in Sdk!Answers
  BY DEF Sdk!Answers

LEMMA CopiesAre ==
  /\ [stage |-> "sent", answer |-> [to |-> "wait"]] \in SdkCopy
  /\ \A k \in SdkCopy, s \in CopyStages : [k EXCEPT !.stage = s] \in SdkCopy
  /\ \A a \in Sdk!Answers : [stage |-> "answered", answer |-> a] \in SdkCopy
  <1>1. [stage |-> "sent", answer |-> [to |-> "wait"]] \in SdkCopy
    BY AnswersAre DEF SdkCopy, CopyStages
  <1>2. \A k \in SdkCopy, s \in CopyStages : [k EXCEPT !.stage = s] \in SdkCopy
    BY DEF SdkCopy
  <1>3. \A a \in Sdk!Answers : [stage |-> "answered", answer |-> a] \in SdkCopy
    BY DEF SdkCopy, CopyStages
  <1> QED
    BY <1>1, <1>2, <1>3

\* a request is sent
LEMMA SendsCopy ==
  ASSUME SdkShape, NEW c \in SdkCallers, NEW requests \in [SdkCallers -> Seq(SdkCopy)], copies' = Sdk!Sent(requests, c)
  PROVE  /\ copies' \in [SdkCallers -> Seq(SdkCopy)]
         /\ Len(copies'[c]) = Len(requests[c]) + 1
         /\ copies'[c][Len(requests[c]) + 1] = [stage |-> "sent", answer |-> [to |-> "wait"]]
         /\ \A n \in 1..Len(requests[c]) : copies'[c][n] = requests[c][n]
         /\ \A d \in SdkCallers \ {c} : copies'[d] = requests[d]
  <1> DEFINE k == [stage |-> "sent", answer |-> [to |-> "wait"]]
  <1>1. k \in SdkCopy
    BY CopiesAre
  <1> HIDE DEF k
  <1>2. copies' = [requests EXCEPT ![c] = Append(requests[c], k)]
    BY DEF Sdk!Sent, k
  <1>3. requests[c] \in Seq(SdkCopy)
    OBVIOUS
  <1>4. Append(requests[c], k) \in Seq(SdkCopy)
    BY <1>1, <1>3
  <1>5. copies'[c] = Append(requests[c], k)
    BY <1>2
  <1>6. copies' \in [SdkCallers -> Seq(SdkCopy)]
    BY <1>2, <1>4
  <1>7. \A d \in SdkCallers \ {c} : copies'[d] = requests[d]
    BY <1>2
  <1>8. /\ Len(copies'[c]) = Len(requests[c]) + 1 /\ copies'[c][Len(requests[c]) + 1] = k
        /\ \A n \in 1..Len(requests[c]) : copies'[c][n] = requests[c][n]
    BY <1>1, <1>3, <1>5
  <1> QED
    BY <1>6, <1>7, <1>8 DEF k

LEMMA ActKeeps ==
  ASSUME CInv, NEW c \in SdkCallers, Sdk!act(c)
  PROVE  CInv'
  <1>1. sdk \in [SdkCallers -> SdkCall] /\ copies \in [SdkCallers -> Seq(SdkCopy)] /\ sdkJobs \in Seq(SdkJob) /\ polls \in SdkPolls
    BY DEF CInv, SdkShape
  <1>2. sdkJobs' = sdkJobs /\ polls' = polls /\ clock' = clock
    BY DEF Sdk!act
  <1>3. SdkShape
    BY DEF CInv
  <1>4. /\ copies' \in [SdkCallers -> Seq(SdkCopy)]
        /\ Len(copies'[c]) = Len(copies[c]) + 1
        /\ copies'[c][Len(copies[c]) + 1] = [stage |-> "sent", answer |-> [to |-> "wait"]]
        /\ \A n \in 1..Len(copies[c]) : copies'[c][n] = copies[c][n]
        /\ \A d \in SdkCallers \ {c} : copies'[d] = copies[d]
    BY <1>1, <1>3, SendsCopy DEF Sdk!act
  <1>5. sdk' = [sdk EXCEPT ![c] = [sdk[c] EXCEPT !.step = "posting", !.resent = FALSE, !.result = "none"]]
    BY <1>1 DEF Sdk!act
  <1>6. [sdk[c] EXCEPT !.step = "posting", !.resent = FALSE, !.result = "none"] \in SdkCall
    BY <1>1 DEF SdkCall, SdkSteps, SdkResults
  <1>7. SdkShape'
    BY <1>1, <1>2, <1>4, <1>5, <1>6, <1>3 DEF SdkShape
  <1>8. HeldCounted'
    BY <1>2, HeldSame DEF CInv
  <1>9. ASSUME NEW d \in SdkCallers PROVE OneJob(d)' /\ KnowsJob(d)' /\ KnowsTime(d)'
    <2>1. OneJob(d) /\ KnowsJob(d) /\ KnowsTime(d)
      BY DEF CInv
    <2>2. CASE d # c
      BY <1>2, <1>3, <1>4, <1>5, <1>1, <2>1, <2>2, OthersKeep
    <2>3. CASE d = c
      <3>1. /\ sdk'[c].step = "posting" /\ sdk'[c].result = "none" /\ sdk'[c].key = sdk[c].key /\ sdk'[c].heard = sdk[c].heard
            /\ sdk'[c].firstPollFailure = sdk[c].firstPollFailure
        BY <1>1, <1>5 DEF SdkCall
      <3>2. sdk[c].step = "idle" \/ (sdk[c].result = "retryable" /\ sdk[c].key)
        BY DEF Sdk!act
      <3>3. Len(copies[c]) \in Nat /\ sdk[c].key \in BOOLEAN
        BY <1>1 DEF SdkCall
      <3>4. OneJob(c)'
        <4>1. \A j : IsJobOf(c, j)' <=> IsJobOf(c, j)
          BY <1>2 DEF IsJobOf
        <4>2. \A k : CopyOk(sdkJobs, c, k) => CopyOk(sdkJobs', c, k)
          BY <4>1 DEF CopyOk, IsJobOf
        <4>3. ASSUME NEW n \in 1..Len(copies'[c]) PROVE CopyOk(sdkJobs', c, copies'[c][n])
          <5>1. CASE n \in 1..Len(copies[c])
            BY <5>1, <1>4, <2>1, <2>3, <4>2 DEF OneJob
          <5>2. CASE n = Len(copies[c]) + 1
            BY <5>2, <1>4 DEF CopyOk, IsJobOf
          <5> QED
            BY <5>1, <5>2, <1>4, <3>3
        <4>4. \A i, j \in Nat : IsJobOf(c, i) /\ IsJobOf(c, j) => i = j
          BY <2>1, <2>3 DEF OneJob
        <4>5. ~sdk[c].key => Len(copies[c]) = 0 /\ \A j \in Nat : ~IsJobOf(c, j)
          BY <2>1, <2>3, <3>2, <3>3 DEF OneJob
        <4>6. \A i, j \in Nat : IsJobOf(c, i)' /\ IsJobOf(c, j)' => i = j
          BY <4>1, <4>4
        <4>7. sdk'[c].key = sdk[c].key /\ (~sdk[c].key => \A j \in Nat : ~IsJobOf(c, j)')
          BY <3>1, <4>1, <4>5
        <4> QED
          BY <3>1, <3>3, <1>4, <4>3, <4>5, <4>6, <4>7 DEF OneJob
      <3>5. KnowsJob(c)'
        <4>1. polls.at[c] = "none"
          BY <2>1, <2>3, <3>2, <1>1 DEF KnowsJob, SdkCall, OneJob
        <4> QED
          BY <3>1, <4>1, <1>2 DEF KnowsJob, Sdk!Settled
      <3>6. KnowsTime(c)'
        BY <3>1, <1>2, <2>1, <2>3 DEF KnowsTime
      <3> QED
        BY <3>4, <3>5, <3>6, <2>3
    <2> QED
      BY <2>2, <2>3
  <1> QED
    BY <1>7, <1>8, <1>9 DEF CInv

\* one copy of a call changes
LEMMA CopyChanges ==
  ASSUME NEW requests \in [SdkCallers -> Seq(SdkCopy)], NEW c \in SdkCallers, NEW n \in 1..Len(requests[c]), NEW k \in SdkCopy,
         NEW left, left = [requests EXCEPT ![c][n] = k]
  PROVE  /\ left \in [SdkCallers -> Seq(SdkCopy)] /\ Len(left[c]) = Len(requests[c]) /\ left[c][n] = k
         /\ \A m \in 1..Len(requests[c]) : m # n => left[c][m] = requests[c][m]
         /\ \A d \in SdkCallers \ {c} : left[d] = requests[d]
  <1>1. requests[c] \in Seq(SdkCopy)
    OBVIOUS
  <1>2. left = [requests EXCEPT ![c] = [requests[c] EXCEPT ![n] = k]]
    OBVIOUS
  <1>3. [requests[c] EXCEPT ![n] = k] \in Seq(SdkCopy) /\ Len([requests[c] EXCEPT ![n] = k]) = Len(requests[c])
    BY <1>1, ExceptSeq
  <1> DEFINE s == [requests[c] EXCEPT ![n] = k]
  <1>4. s[n] = k /\ \A m \in 1..Len(requests[c]) : m # n => s[m] = requests[c][m]
    BY <1>1, ExceptSeq
  <1> HIDE DEF s
  <1>5. left = [requests EXCEPT ![c] = s] /\ s \in Seq(SdkCopy) /\ Len(s) = Len(requests[c])
    BY <1>2, <1>3 DEF s
  <1> QED
    BY <1>4, <1>5

LEMMA CopyAnswered ==
  ASSUME CInv, NEW c \in SdkCallers, NEW n \in 1..Len(copies[c]), NEW k \in SdkCopy, copies' = [copies EXCEPT ![c][n] = k],
         sdkJobs' = sdkJobs, sdk' = sdk, polls' = polls, clock' = clock,
         CopyOk(sdkJobs, c, k), k.stage = "answered" \/ sdk[c].key \/ \A j \in Nat : ~IsJobOf(c, j)
  PROVE  CInv'
  <1>1. sdk \in [SdkCallers -> SdkCall] /\ copies \in [SdkCallers -> Seq(SdkCopy)] /\ SdkShape
    BY DEF CInv, SdkShape
  <1> DEFINE left == copies'
  <1>2. left = [copies EXCEPT ![c][n] = k]
    OBVIOUS
  <1> HIDE DEF left
  <1>3. /\ left \in [SdkCallers -> Seq(SdkCopy)] /\ Len(left[c]) = Len(copies[c]) /\ left[c][n] = k
        /\ \A m \in 1..Len(copies[c]) : m # n => left[c][m] = copies[c][m]
        /\ \A d \in SdkCallers \ {c} : left[d] = copies[d]
    BY <1>1, <1>2, CopyChanges
  <1>4. copies' = left
    BY DEF left
  <1>5. SdkShape'
    BY <1>1, <1>3, <1>4 DEF SdkShape
  <1>6. HeldCounted'
    BY HeldSame DEF CInv
  <1>7. ASSUME NEW d \in SdkCallers PROVE OneJob(d)' /\ KnowsJob(d)' /\ KnowsTime(d)'
    <2>1. OneJob(d) /\ KnowsJob(d) /\ KnowsTime(d)
      BY DEF CInv
    <2>2. CASE d # c
      BY <1>1, <1>3, <1>4, <2>1, <2>2, OthersKeep
    <2>3. CASE d = c
      <3>1. \A j : IsJobOf(c, j)' <=> IsJobOf(c, j)
        BY DEF IsJobOf
      <3>2. ASSUME NEW m \in 1..Len(left[c]) PROVE CopyOk(sdkJobs', c, left[c][m])
        <4>1. CopyOk(sdkJobs, c, left[c][m])
          BY <1>3, <2>1, <2>3 DEF OneJob
        <4> QED
          BY <3>1, <4>1 DEF CopyOk, IsJobOf
      <3>3. ~sdk[c].key /\ (\E j \in Nat : IsJobOf(c, j)) => \A m \in 1..Len(left[c]) : left[c][m].stage = "answered"
        BY <1>3, <2>1, <2>3, <1>1 DEF OneJob, SdkCall
      <3>4. OneJob(c)'
        BY <3>1, <3>2, <3>3, <1>3, <1>4, <2>1, <2>3 DEF OneJob
      <3>5. KnowsJob(c)' /\ KnowsTime(c)'
        <4>1. \A s, j : IsOutcome(s, j) => IsOutcome(s, j)'
          BY DEF IsOutcome
        <4> QED
          BY <2>1, <2>3, <3>1, <4>1, KnowsJobStays, KnowsTimeStays
      <3> QED
        BY <3>4, <3>5, <2>3
    <2> QED
      BY <2>2, <2>3
  <1> QED
    BY <1>5, <1>6, <1>7 DEF CInv

LEMMA FetchFailsKeeps ==
  ASSUME CInv, NEW c \in SdkCallers, Sdk!fetchFails(c)
  PROVE  CInv'
  <1>1. /\ sdk \in [SdkCallers -> SdkCall] /\ copies \in [SdkCallers -> Seq(SdkCopy)] /\ SdkShape
        /\ OneJob(c) /\ KnowsJob(c) /\ KnowsTime(c) /\ sdk[c] \in SdkCall
    BY DEF CInv, SdkShape
  <1>2. sdkJobs' = sdkJobs /\ polls' = polls /\ clock' = clock /\ sdk[c].step = "posting"
    BY DEF Sdk!fetchFails
  <1>3. PICK arrived \in BOOLEAN, stale \in BOOLEAN :
          LET left == IF Sdk!Mine(c).stage = "sent" /\ ~arrived THEN [copies EXCEPT ![c][Len(copies[c])].stage = "lost"] ELSE copies
              again == stale /\ Sdk!isSafeToRepeat(c) /\ ~sdk[c].resent
          IN  /\ again => Len(copies[c]) < SdkCopies
              /\ copies' = IF again THEN Sdk!Sent(left, c) ELSE left
              /\ sdk' = IF again THEN [sdk EXCEPT ![c].resent = TRUE] ELSE Sdk!EndCall(c, "retryable")
    BY DEF Sdk!fetchFails
  <1> DEFINE left == IF Sdk!Mine(c).stage = "sent" /\ ~arrived THEN [copies EXCEPT ![c][Len(copies[c])].stage = "lost"] ELSE copies
             again == stale /\ sdk[c].key /\ ~sdk[c].resent
  <1>4. /\ copies' = IF again THEN Sdk!Sent(left, c) ELSE left
        /\ sdk' = IF again THEN [sdk EXCEPT ![c].resent = TRUE] ELSE Sdk!EndCall(c, "retryable")
    BY <1>3 DEF Sdk!isSafeToRepeat
  <1>5. /\ left \in [SdkCallers -> Seq(SdkCopy)] /\ Len(left[c]) = Len(copies[c])
        /\ \A m \in 1..Len(copies[c]) : /\ left[c][m].answer = copies[c][m].answer
                                        /\ copies[c][m].stage = "answered" <=> left[c][m].stage = "answered"
        /\ \A d \in SdkCallers \ {c} : left[d] = copies[d]
    <2>1. CASE Sdk!Mine(c).stage = "sent" /\ ~arrived /\ Len(copies[c]) > 0
      <3> DEFINE n == Len(copies[c])
                 k == [copies[c][n] EXCEPT !.stage = "lost"]
      <3>1. left = [copies EXCEPT ![c][n] = k]
        BY <2>1
      <3>2. n \in 1..Len(copies[c]) /\ copies[c][n] \in SdkCopy /\ copies[c][n].stage = "sent"
        BY <2>1, <1>1 DEF Sdk!Mine
      <3>3. k \in SdkCopy /\ k.answer = copies[c][n].answer /\ k.stage = "lost"
        BY <3>2, CopiesAre DEF CopyStages, SdkCopy
      <3> HIDE DEF k, n, left
      <3>4. /\ left \in [SdkCallers -> Seq(SdkCopy)] /\ Len(left[c]) = Len(copies[c]) /\ left[c][n] = k
            /\ \A m \in 1..Len(copies[c]) : m # n => left[c][m] = copies[c][m]
            /\ \A d \in SdkCallers \ {c} : left[d] = copies[d]
        BY <1>1, <3>1, <3>2, <3>3, CopyChanges
      <3> QED
        BY <3>2, <3>3, <3>4
    <2>2. CASE ~(Sdk!Mine(c).stage = "sent" /\ ~arrived)
      BY <2>2, <1>1
    <2>3. CASE Len(copies[c]) = 0 /\ Sdk!Mine(c).stage = "sent" /\ ~arrived
      <3>1. copies[c] = <<>>
        BY <1>1, <2>3
      <3>2. left = [copies EXCEPT ![c] = [copies[c] EXCEPT ![0] = [copies[c][0] EXCEPT !.stage = "lost"]]]
        BY <2>3
      <3>3. [copies[c] EXCEPT ![0] = [copies[c][0] EXCEPT !.stage = "lost"]] = copies[c]
        BY <1>1, <2>3
      <3> HIDE DEF left
      <3>4. left = [copies EXCEPT ![c] = copies[c]]
        BY <3>2, <3>3
      <3>5. left = copies
        BY <3>4, <1>1
      <3> QED
        BY <3>5, <1>1
    <2>4. Len(copies[c]) \in Nat
      BY <1>1
    <2> QED
      BY <2>1, <2>2, <2>3, <2>4
  <1> HIDE DEF left
  <1>6. \A j : IsJobOf(c, j)' <=> IsJobOf(c, j)
    BY <1>2 DEF IsJobOf
  <1>7. \A s, j : IsOutcome(s, j) => IsOutcome(s, j)'
    BY <1>2 DEF IsOutcome
  <1>8. HeldCounted'
    BY <1>2, HeldSame DEF CInv
  <1>9. polls.at[c] = "none"
    BY <1>1, <1>2 DEF KnowsJob
  <1>10. ASSUME NEW d \in SdkCallers, d # c, copies'[d] = copies[d], sdk'[d] = sdk[d] PROVE OneJob(d)' /\ KnowsJob(d)' /\ KnowsTime(d)'
    BY <1>10, <1>1, <1>2, OthersKeep DEF CInv
  <1>13. \A m \in 1..Len(copies[c]) : CopyOk(sdkJobs', c, left[c][m])
    <2>1. \A m \in 1..Len(copies[c]) : CopyOk(sdkJobs, c, copies[c][m])
      BY <1>1 DEF OneJob
    <2> QED
      BY <1>5, <1>6, <2>1 DEF CopyOk, IsJobOf
  <1>11. CASE again
    <2>1. copies' = Sdk!Sent(left, c) /\ sdk' = [sdk EXCEPT ![c] = [sdk[c] EXCEPT !.resent = TRUE]]
      BY <1>4, <1>11
    <2>2. /\ copies' \in [SdkCallers -> Seq(SdkCopy)]
          /\ Len(copies'[c]) = Len(left[c]) + 1
          /\ copies'[c][Len(left[c]) + 1] = [stage |-> "sent", answer |-> [to |-> "wait"]]
          /\ \A n \in 1..Len(left[c]) : copies'[c][n] = left[c][n]
          /\ \A d \in SdkCallers \ {c} : copies'[d] = left[d]
      BY <1>1, <1>5, <2>1, SendsCopy
    <2>3. /\ [sdk[c] EXCEPT !.resent = TRUE] \in SdkCall /\ sdk'[c].key /\ sdk'[c].step = "posting" /\ sdk'[c].result = sdk[c].result
          /\ sdk'[c].heard = sdk[c].heard /\ sdk'[c].firstPollFailure = sdk[c].firstPollFailure
      BY <1>1, <1>2, <1>11, <2>1 DEF SdkCall
    <2>4. SdkShape'
      BY <1>1, <1>2, <2>1, <2>2, <2>3 DEF SdkShape
    <2>5. Len(copies[c]) \in Nat
      BY <1>1
    <2>6. ASSUME NEW n \in 1..Len(copies'[c]) PROVE CopyOk(sdkJobs', c, copies'[c][n])
      <3>1. CASE n \in 1..Len(copies[c])
        BY <3>1, <1>5, <1>13, <2>2
      <3>2. CASE n = Len(copies[c]) + 1
        BY <3>2, <1>5, <2>2 DEF CopyOk, IsJobOf
      <3> QED
        BY <3>1, <3>2, <1>5, <2>2, <2>5
    <2>7. OneJob(c)'
      BY <1>1, <1>2, <1>5, <1>6, <2>2, <2>3, <2>5, <2>6 DEF OneJob
    <2>8. KnowsJob(c)' /\ KnowsTime(c)'
      <3>1. sdk[c].result = "none"
        BY <1>1, <1>2 DEF KnowsJob
      <3> QED
        BY <1>1, <1>2, <1>9, <2>3, <3>1 DEF KnowsJob, KnowsTime, Sdk!Settled
    <2> QED
      BY <1>5, <1>8, <1>10, <2>1, <2>2, <2>4, <2>7, <2>8, <1>1 DEF CInv
  <1>12. CASE ~again
    <2>1. copies' = left /\ sdk' = [sdk EXCEPT ![c] = [sdk[c] EXCEPT !.step = "done", !.result = "retryable"]]
      BY <1>4, <1>12 DEF Sdk!EndCall
    <2> DEFINE t == [sdk[c] EXCEPT !.step = "done", !.result = "retryable"]
    <2>2. "retryable" \in SdkResults
      BY DEF SdkResults
    <2>3. /\ t \in SdkCall /\ t.step = "done" /\ t.result = "retryable" /\ t.key = sdk[c].key /\ t.heard = sdk[c].heard
          /\ t.firstPollFailure = sdk[c].firstPollFailure
      <3>1. t = [sdk[c] EXCEPT !.step = "done", !.result = "retryable"]
        OBVIOUS
      <3> HIDE DEF t
      <3> QED
        BY <1>1, <2>2, <3>1 DEF SdkCall, SdkSteps
    <2> HIDE DEF t
    <2>4. sdk' = [sdk EXCEPT ![c] = t]
      BY <2>1 DEF t
    <2>5. SdkShape'
      BY <1>1, <1>2, <1>5, <2>1, <2>3, <2>4 DEF SdkShape
    <2>6. OneJob(c)'
      BY <1>1, <1>2, <1>5, <1>6, <1>13, <2>1, <2>3, <2>4 DEF OneJob
    <2>7. KnowsJob(c)' /\ KnowsTime(c)'
      BY <1>1, <1>2, <1>9, <2>3, <2>4 DEF KnowsJob, KnowsTime, Sdk!Settled
    <2> QED
      BY <1>5, <1>8, <1>10, <2>1, <2>4, <2>5, <2>6, <2>7, <1>1 DEF CInv
  <1> QED
    BY <1>11, <1>12

\* another request of the call is answered with the job it has
LEMMA DedupAnswers ==
  ASSUME CInv, NEW c \in SdkCallers, Sdk!JobsOf(c) # {}
  PROVE  /\ Sdk!dedupExisting(c) \in Sdk!Answers /\ IsJobOf(c, Sdk!dedupExisting(c).job)
         /\ Sdk!dedupExisting(c).to = "job"
  <1>1. sdkJobs \in Seq(SdkJob) /\ OneJob(c)
    BY DEF CInv, SdkShape
  <1>2. DOMAIN sdkJobs = 1..Len(sdkJobs) /\ Len(sdkJobs) \in Nat
    BY <1>1
  <1>3. PICK j : j \in Sdk!JobsOf(c)
    OBVIOUS
  <1>4. \A i \in Sdk!JobsOf(c) : i \in Nat \ {0} /\ IsJobOf(c, i)
    BY <1>2 DEF Sdk!JobsOf, IsJobOf
  <1>5. \A i \in Sdk!JobsOf(c) : i <= j
    BY <1>1, <1>3, <1>4 DEF OneJob
  <1> DEFINE k == CHOOSE k \in Sdk!JobsOf(c) : \A i \in Sdk!JobsOf(c) : i <= k
  <1>6. k \in Sdk!JobsOf(c)
    BY <1>3, <1>5
  <1>7. Sdk!dedupExisting(c) = [to |-> "job", job |-> k]
    BY DEF Sdk!dedupExisting
  <1> HIDE DEF k
  <1> QED
    BY <1>4, <1>6, <1>7, AnswersAre

LEMMA NoJobYet ==
  ASSUME CInv, NEW c \in SdkCallers, Sdk!JobsOf(c) = {}
  PROVE  \A j \in Nat : ~IsJobOf(c, j)
  <1>1. sdkJobs \in Seq(SdkJob)
    BY DEF CInv, SdkShape
  <1> QED
    BY <1>1 DEF Sdk!JobsOf, IsJobOf

LEMMA QuickCheckKeeps ==
  ASSUME CInv, NEW c \in SdkCallers, NEW n \in DOMAIN copies[c], Sdk!quickCheck(c, n)
  PROVE  CInv'
  <1>1. /\ sdk[c] \in SdkCall /\ copies[c] \in Seq(SdkCopy) /\ OneJob(c) /\ sdkJobs' = sdkJobs /\ sdk' = sdk /\ polls' = polls
        /\ clock' = clock /\ copies[c][n].stage = "sent"
    BY DEF Sdk!quickCheck, CInv, SdkShape
  <1>2. n \in 1..Len(copies[c]) /\ copies[c][n] \in SdkCopy
    BY <1>1
  <1>3. CASE sdk[c].key /\ Sdk!JobsOf(c) # {}
    <2> DEFINE k == [stage |-> "answered", answer |-> Sdk!dedupExisting(c)]
    <2>1. k \in SdkCopy /\ CopyOk(sdkJobs, c, k)
      BY <1>3, DedupAnswers, CopiesAre DEF CopyOk, IsJobOf
    <2>2. copies' = [copies EXCEPT ![c][n] = k] /\ k.stage = "answered"
      BY <1>3 DEF Sdk!quickCheck, Sdk!Answer
    <2> HIDE DEF k
    <2> QED
      BY <1>1, <1>2, <2>1, <2>2, CopyAnswered
  <1>4. CASE ~(sdk[c].key /\ Sdk!JobsOf(c) # {})
    <2> DEFINE k == [copies[c][n] EXCEPT !.stage = "checked"]
    <2>1. k \in SdkCopy /\ k.answer = copies[c][n].answer /\ k.stage = "checked"
      BY <1>2, CopiesAre DEF CopyStages, SdkCopy
    <2>2. copies' = [copies EXCEPT ![c][n] = k]
      BY <1>4 DEF Sdk!quickCheck
    <2> HIDE DEF k
    <2>3. CopyOk(sdkJobs, c, k)
      BY <1>1, <1>2, <2>1 DEF OneJob, CopyOk, IsJobOf
    <2>4. sdk[c].key \/ \A j \in Nat : ~IsJobOf(c, j)
      BY <1>1, <1>2 DEF OneJob
    <2> QED
      BY <1>1, <1>2, <2>1, <2>2, <2>3, <2>4, CopyAnswered
  <1> QED
    BY <1>3, <1>4

\* the job of a call that has none
LEMMA JobStarts ==
  ASSUME CInv, NEW c \in SdkCallers, NEW n \in DOMAIN copies[c], \A j \in Nat : ~IsJobOf(c, j),
         sdkJobs' = Append(sdkJobs, [of |-> c, status |-> "pending"]),
         Sdk!Answer(c, n, [to |-> "job", job |-> Len(sdkJobs) + 1]), sdk' = sdk, polls' = polls, clock' = clock
  PROVE  CInv'
  <1>1. /\ sdk \in [SdkCallers -> SdkCall] /\ copies \in [SdkCallers -> Seq(SdkCopy)] /\ SdkShape /\ sdkJobs \in Seq(SdkJob)
        /\ OneJob(c) /\ KnowsJob(c) /\ KnowsTime(c) /\ copies[c] \in Seq(SdkCopy) /\ Len(sdkJobs) \in Nat
    BY DEF CInv, SdkShape
  <1>2. n \in 1..Len(copies[c])
    BY <1>1
  <1> DEFINE j == Len(sdkJobs) + 1
             k == [stage |-> "answered", answer |-> [to |-> "job", job |-> j]]
             new == [of |-> c, status |-> "pending"]
             left == copies'
  <1>3. k \in SdkCopy /\ k.answer.job = j /\ k.stage = "answered" /\ k.answer.to = "job"
    <2>1. j \in Nat \ {0}
      BY <1>1
    <2> HIDE DEF j
    <2> QED
      BY <2>1, AnswersAre, CopiesAre
  <1>4. new \in SdkJob /\ new.of = c
    BY DEF SdkJob, Sdk!Statuses
  <1>5. left = [copies EXCEPT ![c][n] = k]
    BY DEF Sdk!Answer
  <1> HIDE DEF k, new, left
  <1>6. sdkJobs' = Append(sdkJobs, new)
    BY DEF new
  <1>7. /\ sdkJobs' \in Seq(SdkJob) /\ Len(sdkJobs') = j /\ sdkJobs'[j].of = c
        /\ \A i \in 1..Len(sdkJobs) : sdkJobs'[i] = sdkJobs[i]
    BY <1>1, <1>4, <1>6
  <1>8. /\ left \in [SdkCallers -> Seq(SdkCopy)] /\ Len(left[c]) = Len(copies[c]) /\ left[c][n] = k
        /\ \A m \in 1..Len(copies[c]) : m # n => left[c][m] = copies[c][m]
        /\ \A d \in SdkCallers \ {c} : left[d] = copies[d]
    BY <1>1, <1>2, <1>3, <1>5, CopyChanges
  <1>9. copies' = left
    BY DEF left
  <1>10. SdkShape'
    BY <1>1, <1>7, <1>8, <1>9 DEF SdkShape
  <1>11. HeldCounted'
    BY HeldSame DEF CInv
  <1>12. \A d \in SdkCallers : \A i : IsJobOf(d, i)' <=> IsJobOf(d, i) \/ (d = c /\ i = j)
    BY <1>1, <1>7 DEF IsJobOf
  <1>13. \A d \in SdkCallers, i \in Nat : \A s : IsJobOf(d, i) /\ IsOutcome(s, i) => IsOutcome(s, i)'
    BY <1>1, <1>7 DEF IsJobOf, IsOutcome
  <1>14. ASSUME NEW d \in SdkCallers PROVE OneJob(d)' /\ KnowsJob(d)' /\ KnowsTime(d)'
    <2>1. OneJob(d) /\ KnowsJob(d) /\ KnowsTime(d) /\ sdk[d].job \in Nat
      BY <1>1 DEF CInv, SdkCall
    <2>2. KnowsTime(d)'
      BY <2>1, KnowsTimeStays
    <2>3. KnowsJob(d)'
      <3>1. IsJobOf(d, sdk[d].job) => IsJobOf(d, sdk[d].job)'
        BY <1>12, <2>1
      <3>2. \A s : IsJobOf(d, sdk[d].job) /\ IsOutcome(s, sdk[d].job) => IsOutcome(s, sdk[d].job)'
        BY <1>13, <2>1
      <3>3. polls.at[d] \in Sdk!Settled => sdk[d].step = "asking"
        BY <2>1 DEF KnowsJob, Sdk!Settled
      <3> QED
        BY <2>1, <3>1, <3>2, <3>3 DEF KnowsJob
    <2>4. CASE d # c
      <3>1. \A i : IsJobOf(d, i)' <=> IsJobOf(d, i)
        BY <1>12, <2>4
      <3>2. copies'[d] = copies[d]
        BY <1>8, <1>9, <2>4
      <3> QED
        BY <2>1, <2>2, <2>3, <3>1, <3>2, OneJobStays
    <2>5. CASE d = c
      <3>6. \A i : ~IsJobOf(c, i)
        BY <1>1 DEF IsJobOf
      <3>1. \A i : IsJobOf(c, i)' <=> i = j
        BY <1>12, <3>6
      <3>2. ASSUME NEW m \in 1..Len(left[c]) PROVE CopyOk(sdkJobs', c, left[c][m])
        <4>1. CASE m = n
          BY <4>1, <1>3, <1>8, <3>1 DEF CopyOk, IsJobOf
        <4>2. CASE m # n
          <5>1. CopyOk(sdkJobs, c, copies[c][m]) /\ left[c][m] = copies[c][m]
            BY <4>2, <1>1, <1>8 DEF OneJob
          <5> QED
            BY <5>1, <3>6 DEF CopyOk, IsJobOf
        <4> QED
          BY <4>1, <4>2
      <3>3. ~sdk[c].key => \A m \in 1..Len(left[c]) : left[c][m].stage = "answered"
        BY <1>1, <1>2, <1>3, <1>8 DEF OneJob
      <3>4. Len(left[c]) > 0 /\ sdk[c].step # "idle" /\ j \in Nat /\ Len(copies[c]) \in Nat
        BY <1>1, <1>2, <1>8 DEF OneJob
      <3> HIDE DEF j
      <3>5. OneJob(c)'
        BY <1>1, <1>8, <1>9, <3>1, <3>2, <3>3, <3>4 DEF OneJob
      <3> QED
        BY <2>2, <2>3, <2>5, <3>5
    <2> QED
      BY <2>4, <2>5
  <1> QED
    BY <1>10, <1>11, <1>14 DEF CInv

LEMMA InsertJobKeeps ==
  ASSUME CInv, NEW c \in SdkCallers, NEW n \in DOMAIN copies[c], Sdk!insertJob(c, n)
  PROVE  CInv'
  <1>1. /\ sdk[c] \in SdkCall /\ copies[c] \in Seq(SdkCopy) /\ OneJob(c) /\ sdk' = sdk /\ polls' = polls
        /\ clock' = clock /\ copies[c][n].stage = "checked"
    BY DEF Sdk!insertJob, CInv, SdkShape
  <1>2. n \in 1..Len(copies[c]) /\ copies[c][n] \in SdkCopy
    BY <1>1
  <1>3. CASE Sdk!Answer(c, n, [to |-> "busy"]) /\ sdkJobs' = sdkJobs
    <2> DEFINE k == [stage |-> "answered", answer |-> [to |-> "busy"]]
    <2>1. k \in SdkCopy /\ CopyOk(sdkJobs, c, k) /\ k.stage = "answered"
      BY AnswersAre, CopiesAre DEF CopyOk, IsJobOf
    <2>2. copies' = [copies EXCEPT ![c][n] = k]
      BY <1>3 DEF Sdk!Answer
    <2> HIDE DEF k
    <2> QED
      BY <1>1, <1>2, <1>3, <2>1, <2>2, CopyAnswered
  <1>4. CASE sdk[c].key /\ Sdk!JobsOf(c) # {} /\ Sdk!Answer(c, n, Sdk!dedupExisting(c)) /\ sdkJobs' = sdkJobs
    <2> DEFINE k == [stage |-> "answered", answer |-> Sdk!dedupExisting(c)]
    <2>1. k \in SdkCopy /\ CopyOk(sdkJobs, c, k)
      BY <1>4, DedupAnswers, CopiesAre DEF CopyOk, IsJobOf
    <2>2. copies' = [copies EXCEPT ![c][n] = k] /\ k.stage = "answered"
      BY <1>4 DEF Sdk!Answer
    <2> HIDE DEF k
    <2> QED
      BY <1>1, <1>2, <1>4, <2>1, <2>2, CopyAnswered
  <1>5. CASE /\ ~sdk[c].key \/ Sdk!JobsOf(c) = {}
             /\ sdkJobs' = Append(sdkJobs, [of |-> c, status |-> "pending"])
             /\ Sdk!Answer(c, n, [to |-> "job", job |-> Len(sdkJobs) + 1])
    <2>1. \A j \in Nat : ~IsJobOf(c, j)
      <3>1. CASE ~sdk[c].key
        BY <1>1, <1>2, <3>1 DEF OneJob
      <3>2. CASE Sdk!JobsOf(c) = {}
        BY <3>2, NoJobYet
      <3> QED
        BY <1>5, <3>1, <3>2
    <2> QED
      BY <1>1, <1>5, <2>1, JobStarts
  <1> QED
    BY <1>3, <1>4, <1>5 DEF Sdk!insertJob

\* a step of one call that leaves requests and jobs as they are
LEMMA CallMoves ==
  ASSUME CInv, NEW c \in SdkCallers, NEW t \in SdkCall, NEW a \in PollAts, sdk' = [sdk EXCEPT ![c] = t],
         polls' \in SdkPolls, polls'.at = [polls.at EXCEPT ![c] = a], HeldCounted', copies' = copies, sdkJobs' = sdkJobs, clock' = clock,
         t.key = sdk[c].key, t.step # "idle", sdk[c].step # "idle",
         t.step \in {"polling", "asking"} \/ t.result \in Sdk!Settled => IsJobOf(c, t.job),
         t.result # "none" => t.step = "done", a # "none" => t.step = "asking",
         a \in Sdk!Settled => IsOutcome(a, t.job), t.result \in Sdk!Settled => IsOutcome(t.result, t.job),
         t.heard <= clock, t.firstPollFailure <= clock, t.firstPollFailure = -1 \/ t.firstPollFailure >= t.heard,
         t.result = "unreachable" => clock - t.heard > SdkGrace \/ clock > t.deadline
  PROVE  CInv'
  <1>1. sdk \in [SdkCallers -> SdkCall] /\ polls \in SdkPolls /\ SdkShape
    BY DEF CInv, SdkShape
  <1>2. polls.at \in [SdkCallers -> PollAts]
    BY <1>1 DEF SdkPolls
  <1>3. sdk'[c] = t /\ polls'.at[c] = a /\ \A d \in SdkCallers \ {c} : sdk'[d] = sdk[d] /\ polls'.at[d] = polls.at[d]
    BY <1>1, <1>2
  <1>4. SdkShape'
    BY <1>1 DEF SdkShape
  <1>5. ASSUME NEW d \in SdkCallers PROVE OneJob(d)' /\ KnowsJob(d)' /\ KnowsTime(d)'
    <2>1. OneJob(d) /\ KnowsJob(d) /\ KnowsTime(d)
      BY DEF CInv
    <2>2. CASE d # c
      BY <1>1, <1>3, <2>1, <2>2, OthersKeep
    <2>3. CASE d = c
      <3>1. \A j : IsJobOf(c, j)' <=> IsJobOf(c, j)
        BY DEF IsJobOf
      <3>2. \A s, j : IsOutcome(s, j) => IsOutcome(s, j)'
        BY DEF IsOutcome
      <3>4. OneJob(c)'
        BY <1>3, <2>1, <2>3, <3>1, OneJobStays
      <3>5. KnowsJob(c)' /\ KnowsTime(c)'
        BY <1>3, <3>1, <3>2 DEF KnowsJob, KnowsTime
      <3> QED
        BY <2>3, <3>4, <3>5
    <2> QED
      BY <2>2, <2>3
  <1> QED
    BY <1>4, <1>5 DEF CInv

LEMMA PollsMove ==
  ASSUME NEW p \in SdkPolls, NEW c \in SdkCallers, NEW a \in PollAts
  PROVE  /\ [p EXCEPT !.at[c] = a] \in SdkPolls /\ [p EXCEPT !.at[c] = a].at = [p.at EXCEPT ![c] = a]
         /\ [p EXCEPT !.at[c] = a].count = p.count /\ [p EXCEPT !.at[c] = a].orphans = p.orphans
         /\ p.at \in [SdkCallers -> PollAts] /\ p.count \in Nat /\ p.orphans \in Nat
  BY DEF SdkPolls

\* a poll that is not held and stays so
LEMMA NotHeldMoves ==
  ASSUME CInv, NEW c \in SdkCallers, NEW a \in PollAts, a # "held", polls.at[c] # "held", polls' = [polls EXCEPT !.at[c] = a]
  PROVE  HeldCounted' /\ polls' \in SdkPolls /\ polls'.at = [polls.at EXCEPT ![c] = a]
  <1>1. polls \in SdkPolls
    BY DEF CInv, SdkShape
  <1>2. /\ polls' \in SdkPolls /\ polls'.at = [polls.at EXCEPT ![c] = a] /\ polls'.count = polls.count /\ polls'.orphans = polls.orphans
        /\ polls.at \in [SdkCallers -> PollAts]
    BY <1>1, PollsMove
  <1>3. \A d \in SdkCallers : polls'.at[d] = "held" <=> polls.at[d] = "held"
    BY <1>2
  <1> QED
    BY <1>2, <1>3, HeldSame DEF CInv

LEMMA ReadAnswerKeeps ==
  ASSUME CInv, NEW c \in SdkCallers, Sdk!readAnswer(c)
  PROVE  CInv'
  <1>1. /\ sdk \in [SdkCallers -> SdkCall] /\ sdk[c] \in SdkCall /\ copies[c] \in Seq(SdkCopy) /\ polls \in SdkPolls /\ clock \in Nat
        /\ OneJob(c) /\ KnowsJob(c) /\ KnowsTime(c)
    BY DEF CInv, SdkShape
  <1>2. /\ copies' = copies /\ sdkJobs' = sdkJobs /\ polls' = polls /\ clock' = clock /\ sdk[c].step = "posting"
        /\ Sdk!Mine(c).stage = "answered"
    BY DEF Sdk!readAnswer
  <1>3. polls'.at = [polls.at EXCEPT ![c] = "none"] /\ "none" \in PollAts /\ polls.at[c] = "none"
    BY <1>1, <1>2 DEF KnowsJob, SdkPolls, PollAts
  <1>4. HeldCounted'
    BY <1>2, HeldSame DEF CInv
  <1>5. CASE Sdk!Mine(c).answer.to = "busy"
    <2> DEFINE t == [sdk[c] EXCEPT !.step = "done", !.result = "retryable"]
    <2>1. sdk' = [sdk EXCEPT ![c] = t]
      BY <1>5 DEF Sdk!readAnswer, Sdk!EndCall
    <2>2. /\ t \in SdkCall /\ t.step = "done" /\ t.result = "retryable" /\ t.key = sdk[c].key /\ t.heard = sdk[c].heard
          /\ t.firstPollFailure = sdk[c].firstPollFailure
      <3>1. "retryable" \in SdkResults
        BY DEF SdkResults
      <3> QED
        BY <1>1, <3>1 DEF SdkCall, SdkSteps
    <2> HIDE DEF t
    <2>3. t.result \notin Sdk!Settled /\ "none" \notin Sdk!Settled
      BY <2>2 DEF Sdk!Settled
    <2> QED
      BY <1>1, <1>2, <1>3, <1>4, <2>1, <2>2, <2>3, CallMoves DEF KnowsTime
  <1>6. CASE Sdk!Mine(c).answer.to # "busy"
    <2> DEFINE j == Sdk!Mine(c).answer.job
               late == clock + SdkTimeout
               never == -1
               t == [sdk[c] EXCEPT !.step = "polling", !.job = j, !.deadline = late, !.firstPollFailure = never, !.heard = clock]
    <2>1. sdk' = [sdk EXCEPT ![c] = t]
      BY <1>6 DEF Sdk!readAnswer
    <2>2. IsJobOf(c, j)
      <3> DEFINE n == Len(copies[c])
      <3>1. n \in 1..Len(copies[c])
        BY <1>1, <1>2 DEF OneJob
      <3>2. copies[c][n].answer.to \in {"wait", "busy", "job"} /\ copies[c][n].stage = "answered"
        <4>1. copies[c][n] \in SdkCopy
          BY <1>1, <3>1
        <4>2. copies[c][n].answer \in Sdk!Answers
          BY <4>1 DEF SdkCopy
        <4> QED
          BY <1>2, <4>2 DEF Sdk!Mine, Sdk!Answers
      <3>3. CopyOk(sdkJobs, c, copies[c][n])
        BY <1>1, <3>1 DEF OneJob
      <3> QED
        BY <1>6, <3>2, <3>3 DEF CopyOk, IsJobOf, Sdk!Mine
    <2>3. j \in Nat
      BY <2>2, <1>1 DEF IsJobOf
    <2>7. late \in Nat /\ never \in Int
      BY <1>1, SdkAssumption
    <2> HIDE DEF j, late, never
    <2>4. /\ t \in SdkCall /\ t.step = "polling" /\ t.result = sdk[c].result /\ t.key = sdk[c].key /\ t.heard = clock
          /\ t.firstPollFailure = -1 /\ t.job = j
      <3>1. "polling" \in SdkSteps
        BY DEF SdkSteps
      <3>2. t \in SdkCall
        BY <1>1, <2>3, <2>7, <3>1 DEF SdkCall
      <3>3. t.step = "polling" /\ t.result = sdk[c].result /\ t.key = sdk[c].key
        BY <1>1 DEF SdkCall
      <3>4. t.heard = clock /\ t.firstPollFailure = -1 /\ t.job = j
        BY <1>1 DEF SdkCall, never
      <3> QED
        BY <3>2, <3>3, <3>4
    <2>5. sdk[c].result = "none"
      BY <1>1, <1>2 DEF KnowsJob
    <2> HIDE DEF t
    <2>6. t.result \notin Sdk!Settled /\ "none" \notin Sdk!Settled
      BY <2>4, <2>5 DEF Sdk!Settled
    <2>8. IsJobOf(c, t.job) /\ t.heard <= clock /\ t.firstPollFailure <= clock
      BY <1>1, <2>2, <2>4
    <2> QED
      BY <1>1, <1>2, <1>3, <1>4, <2>1, <2>4, <2>5, <2>6, <2>8, CallMoves
  <1> QED
    BY <1>5, <1>6

LEMMA JobMovesKeeps ==
  ASSUME CInv, NEW j \in DOMAIN sdkJobs, Sdk!jobMoves(j)
  PROVE  CInv'
  <1>1. SdkShape /\ sdkJobs \in Seq(SdkJob) /\ j \in 1..Len(sdkJobs) /\ sdkJobs[j] \in SdkJob
    BY DEF CInv, SdkShape
  <1>2. sdk' = sdk /\ copies' = copies /\ polls' = polls /\ clock' = clock
    BY DEF Sdk!jobMoves
  <1>3. PICK s \in Sdk!Settled : /\ sdkJobs' = [sdkJobs EXCEPT ![j].status = s]
                                 /\ sdkJobs[j].status \in {"pending", "reconciliation_required"}
    BY DEF Sdk!jobMoves, Sdk!Settled
  <1> DEFINE k == [sdkJobs[j] EXCEPT !.status = s]
  <1>4. k \in SdkJob /\ k.of = sdkJobs[j].of /\ k.status = s
    BY <1>1 DEF SdkJob, Sdk!Statuses
  <1>5. sdkJobs' = [sdkJobs EXCEPT ![j] = k]
    BY <1>3
  <1> HIDE DEF k
  <1>6. sdkJobs' \in Seq(SdkJob) /\ Len(sdkJobs') = Len(sdkJobs) /\ sdkJobs'[j] = k /\ \A i \in 1..Len(sdkJobs) : i # j => sdkJobs'[i] = sdkJobs[i]
    BY <1>1, <1>4, <1>5, ExceptSeq
  <1>7. \A d, i : IsJobOf(d, i)' <=> IsJobOf(d, i)
    BY <1>4, <1>6 DEF IsJobOf
  <1>8. \A r : \A i \in 1..Len(sdkJobs) : IsOutcome(r, i) => IsOutcome(r, i)'
    <2>1. ASSUME NEW r, NEW i \in 1..Len(sdkJobs), IsOutcome(r, i), i = j PROVE IsOutcome(r, i)'
      <3>1. sdkJobs[j].status = "reconciliation_required"
        BY <1>3, <2>1 DEF IsOutcome, Sdk!Settled
      <3>2. r = "reconciliation_required"
        BY <2>1, <3>1 DEF IsOutcome
      <3> QED
        BY <1>4, <1>6, <2>1, <3>2 DEF IsOutcome
    <2>2. ASSUME NEW r, NEW i \in 1..Len(sdkJobs), IsOutcome(r, i), i # j PROVE IsOutcome(r, i)'
      BY <1>6, <2>2 DEF IsOutcome
    <2> QED
      BY <2>1, <2>2
  <1>9. SdkShape'
    BY <1>1, <1>2, <1>6 DEF SdkShape
  <1>10. HeldCounted'
    BY <1>2, HeldSame DEF CInv
  <1>11. ASSUME NEW d \in SdkCallers PROVE OneJob(d)' /\ KnowsJob(d)' /\ KnowsTime(d)'
    <2>1. OneJob(d) /\ KnowsJob(d) /\ KnowsTime(d)
      BY DEF CInv
    <2>2. OneJob(d)' /\ KnowsTime(d)'
      BY <1>2, <1>7, <2>1, OneJobStays, KnowsTimeStays
    <2>3. KnowsJob(d)'
      <3>1. polls.at[d] \in Sdk!Settled => IsJobOf(d, sdk[d].job)
        BY <2>1 DEF KnowsJob, Sdk!Settled
      <3>2. IsJobOf(d, sdk[d].job) => sdk[d].job \in 1..Len(sdkJobs)
        BY DEF IsJobOf
      <3> QED
        BY <1>2, <1>7, <1>8, <2>1, <3>1, <3>2 DEF KnowsJob
    <2> QED
      BY <2>2, <2>3
  <1> QED
    BY <1>9, <1>10, <1>11 DEF CInv

LEMMA PollKeeps ==
  ASSUME CInv, NEW c \in SdkCallers, Sdk!poll(c)
  PROVE  CInv'
  <1>1. /\ sdk \in [SdkCallers -> SdkCall] /\ sdk[c] \in SdkCall /\ polls \in SdkPolls /\ clock \in Nat
        /\ OneJob(c) /\ KnowsJob(c) /\ KnowsTime(c) /\ polls.at \in [SdkCallers -> PollAts]
    BY DEF CInv, SdkShape, SdkPolls
  <1>2. /\ copies' = copies /\ sdkJobs' = sdkJobs /\ clock' = clock /\ sdk[c].step = "polling" /\ polls' = [polls EXCEPT !.at[c] = "asked"]
    BY DEF Sdk!poll
  <1> DEFINE t == [sdk[c] EXCEPT !.step = "asking"]
  <1>3. sdk' = [sdk EXCEPT ![c] = t]
    BY DEF Sdk!poll
  <1>4. /\ t \in SdkCall /\ t.step = "asking" /\ t.result = sdk[c].result /\ t.key = sdk[c].key /\ t.heard = sdk[c].heard
        /\ t.firstPollFailure = sdk[c].firstPollFailure /\ t.job = sdk[c].job /\ t.deadline = sdk[c].deadline
    BY <1>1 DEF SdkCall, SdkSteps
  <1> HIDE DEF t
  <1>5. "asked" \in PollAts /\ "asked" \notin Sdk!Settled /\ "none" \notin Sdk!Settled
    BY DEF PollAts, Sdk!Settled
  <1>6. sdk[c].result = "none" /\ polls.at[c] = "none" /\ IsJobOf(c, sdk[c].job)
    BY <1>1, <1>2 DEF KnowsJob
  <1>7. HeldCounted' /\ polls' \in SdkPolls /\ polls'.at = [polls.at EXCEPT ![c] = "asked"]
    BY <1>2, <1>5, <1>6, NotHeldMoves
  <1>8. IsJobOf(c, t.job) /\ t.heard <= clock /\ t.firstPollFailure <= clock /\ (t.firstPollFailure = -1 \/ t.firstPollFailure >= t.heard)
    BY <1>1, <1>4, <1>6 DEF KnowsTime
  <1>9. t.result = "none"
    BY <1>4, <1>6
  <1> QED
    BY <1>1, <1>2, <1>3, <1>4, <1>5, <1>7, <1>8, <1>9, CallMoves

\* the answer to a poll: the status of the call's job
LEMMA StatusIs ==
  ASSUME CInv, NEW c \in SdkCallers, polls.at[c] # "none"
  PROVE  /\ Sdk!StatusFor(c) \in Sdk!Statuses /\ Sdk!StatusFor(c) \in PollAts /\ Sdk!StatusFor(c) \notin {"none", "held"}
         /\ Sdk!StatusFor(c) \in Sdk!Settled => IsOutcome(Sdk!StatusFor(c), sdk[c].job)
  <1>1. sdkJobs \in Seq(SdkJob) /\ IsJobOf(c, sdk[c].job)
    BY DEF CInv, SdkShape, KnowsJob
  <1>2. sdkJobs[sdk[c].job] \in SdkJob
    BY <1>1 DEF IsJobOf
  <1>3. Sdk!StatusFor(c) \in Sdk!Statuses
    BY <1>2 DEF SdkJob, Sdk!StatusFor
  <1> QED
    BY <1>3 DEF PollAts, IsOutcome, Sdk!StatusFor, Sdk!Statuses, Sdk!Settled

\* a step of a poll of a call that waits for its answer
LEMMA PollStays ==
  ASSUME CInv, NEW c \in SdkCallers, polls.at[c] # "none", NEW a \in PollAts, a \in Sdk!Settled => IsOutcome(a, sdk[c].job),
         sdk' = sdk, copies' = copies, sdkJobs' = sdkJobs, clock' = clock,
         polls' \in SdkPolls, polls'.at = [polls.at EXCEPT ![c] = a], HeldCounted'
  PROVE  CInv'
  <1>1. /\ sdk \in [SdkCallers -> SdkCall] /\ sdk[c] \in SdkCall /\ polls \in SdkPolls /\ clock \in Nat
        /\ OneJob(c) /\ KnowsJob(c) /\ KnowsTime(c) /\ polls.at \in [SdkCallers -> PollAts]
    BY DEF CInv, SdkShape, SdkPolls
  <1>2. sdk[c].step = "asking" /\ sdk' = [sdk EXCEPT ![c] = sdk[c]]
    BY <1>1 DEF KnowsJob
  <1> QED
    BY <1>1, <1>2, CallMoves DEF KnowsTime, KnowsJob

LEMMA GetJobStatusKeeps ==
  ASSUME CInv, NEW c \in SdkCallers, Sdk!getJobStatus(c)
  PROVE  CInv'
  <1>1. /\ sdk \in [SdkCallers -> SdkCall] /\ sdk[c] \in SdkCall /\ polls \in SdkPolls /\ clock \in Nat
        /\ OneJob(c) /\ KnowsJob(c) /\ KnowsTime(c) /\ polls.at \in [SdkCallers -> PollAts]
    BY DEF CInv, SdkShape, SdkPolls
  <1>2. sdk' = sdk /\ copies' = copies /\ sdkJobs' = sdkJobs /\ clock' = clock /\ polls.at[c] = "asked"
    BY DEF Sdk!getJobStatus
  <1>3. CASE polls' = [polls EXCEPT !.at[c] = "held", !.count = @ + 1] /\ polls.count < SdkWaiters
    <2>1. HeldCounted'
      BY <1>2, <1>3, HeldJoins DEF CInv
    <2>2. "held" \in PollAts /\ "held" \notin Sdk!Settled
      BY DEF PollAts, Sdk!Settled
    <2> DEFINE n == polls.count + 1
               at == [polls.at EXCEPT ![c] = "held"]
    <2>3. n \in Nat /\ at \in [SdkCallers -> PollAts]
      BY <1>1, <2>2 DEF SdkPolls
    <2>4. polls' = [polls EXCEPT !.at = at, !.count = n]
      BY <1>3
    <2> HIDE DEF n, at
    <2>5. polls' \in SdkPolls /\ polls'.at = at
      BY <1>1, <2>3, <2>4 DEF SdkPolls
    <2> QED
      BY <1>2, <2>1, <2>2, <2>5, PollStays DEF at
  <1>4. CASE polls' = [polls EXCEPT !.at[c] = Sdk!StatusFor(c)]
    <2> DEFINE s == Sdk!StatusFor(c)
    <2>1. s \in PollAts /\ s # "held" /\ (s \in Sdk!Settled => IsOutcome(s, sdk[c].job))
      BY <1>2, StatusIs
    <2>2. polls' = [polls EXCEPT !.at[c] = s]
      BY <1>4
    <2> HIDE DEF s
    <2>3. HeldCounted' /\ polls' \in SdkPolls /\ polls'.at = [polls.at EXCEPT ![c] = s]
      BY <1>2, <2>1, <2>2, NotHeldMoves
    <2> QED
      BY <1>2, <2>1, <2>3, PollStays
  <1> QED
    BY <1>3, <1>4 DEF Sdk!getJobStatus

LEMMA HoldUntilKeeps ==
  ASSUME CInv, NEW c \in SdkCallers, Sdk!holdUntil(c)
  PROVE  CInv'
  <1>1. /\ sdk \in [SdkCallers -> SdkCall] /\ sdk[c] \in SdkCall /\ polls \in SdkPolls /\ clock \in Nat
        /\ OneJob(c) /\ KnowsJob(c) /\ KnowsTime(c) /\ polls.at \in [SdkCallers -> PollAts]
    BY DEF CInv, SdkShape, SdkPolls
  <1>2. sdk' = sdk /\ copies' = copies /\ sdkJobs' = sdkJobs /\ clock' = clock /\ polls.at[c] = "held"
    BY DEF Sdk!holdUntil
  <1> DEFINE s == Sdk!StatusFor(c)
  <1>3. s \in PollAts /\ s # "held" /\ (s \in Sdk!Settled => IsOutcome(s, sdk[c].job))
    BY <1>2, StatusIs
  <1>4. polls' = [polls EXCEPT !.at[c] = s, !.count = @ - 1]
    BY DEF Sdk!holdUntil
  <1>5. polls.count > 0 /\ polls.count \in Nat /\ polls.orphans \in Nat
    <2>1. c \in Held /\ Held \subseteq SdkCallers
      BY <1>2 DEF Held
    <2>2. Cardinality(Held) # 0
      BY <2>1, HeldFinite, FS_EmptySet
    <2> QED
      BY <1>1, <2>2, HeldFinite DEF HeldCounted, CInv, SdkPolls
  <1> DEFINE n == polls.count - 1
             at == [polls.at EXCEPT ![c] = s]
  <1>8. n \in Nat /\ at \in [SdkCallers -> PollAts] /\ polls' = [polls EXCEPT !.at = at, !.count = n]
    BY <1>1, <1>3, <1>4, <1>5
  <1> HIDE DEF s, n, at
  <1>9. polls' \in SdkPolls /\ polls'.at = at /\ polls'.count = n /\ polls'.orphans = polls.orphans
    BY <1>1, <1>8 DEF SdkPolls
  <1>6. polls' \in SdkPolls /\ polls'.at = [polls.at EXCEPT ![c] = s] /\ polls'.count = polls.count - 1 /\ polls'.orphans = polls.orphans
    BY <1>9 DEF n, at
  <1>7. HeldCounted'
    BY <1>1, <1>2, <1>3, <1>5, <1>6, HeldLeaves DEF CInv
  <1> QED
    BY <1>2, <1>3, <1>6, <1>7, PollStays

LEMMA ClientGoneKeeps ==
  ASSUME CInv, Sdk!clientGone
  PROVE  CInv'
  <1>1. /\ polls \in SdkPolls /\ polls.orphans > 0 /\ polls' = [polls EXCEPT !.orphans = @ - 1, !.count = @ - 1]
        /\ sdk' = sdk /\ copies' = copies /\ sdkJobs' = sdkJobs /\ clock' = clock /\ HeldCounted /\ SdkShape
    BY DEF Sdk!clientGone, CInv, SdkShape
  <1>2. polls.count \in Nat /\ polls.orphans \in Nat /\ polls.count > 0
    BY <1>1, HeldFinite DEF SdkPolls, HeldCounted
  <1>3. polls' \in SdkPolls /\ polls'.at = polls.at /\ polls'.count = polls.count - 1 /\ polls'.orphans = polls.orphans - 1
    <2> DEFINE m == polls.count - 1
               o == polls.orphans - 1
    <2>1. m \in Nat /\ o \in Nat /\ polls' = [polls EXCEPT !.orphans = o, !.count = m]
      BY <1>1, <1>2
    <2> HIDE DEF m, o
    <2>2. polls' \in SdkPolls /\ polls'.at = polls.at /\ polls'.count = m /\ polls'.orphans = o
      BY <1>1, <2>1 DEF SdkPolls
    <2> QED
      BY <2>2 DEF m, o
  <1>4. Held' = Held
    BY <1>3 DEF Held
  <1> DEFINE n == Cardinality(Held)
  <1>5. polls'.count = polls'.orphans + n /\ polls'.count <= SdkWaiters
    <2>1. n \in Nat
      BY HeldFinite
    <2>2. polls.count = polls.orphans + n /\ polls.count <= SdkWaiters
      BY <1>1 DEF HeldCounted
    <2> HIDE DEF n
    <2> QED
      BY <1>2, <1>3, <2>1, <2>2, SdkAssumption
  <1>6. HeldCounted'
    BY <1>4, <1>5 DEF HeldCounted
  <1>7. SdkShape'
    BY <1>1, <1>3 DEF SdkShape
  <1> QED
    BY <1>1, <1>3, <1>6, <1>7, OthersKeep DEF CInv

\* a call ends with what it was told, or with an error of its own
LEMMA CallEnds ==
  ASSUME CInv, NEW c \in SdkCallers, NEW r \in SdkResults \ {"none"}, sdk' = Sdk!EndCall(c, r), sdk[c].step = "asking",
         copies' = copies, sdkJobs' = sdkJobs, clock' = clock,
         polls' \in SdkPolls, polls'.at = [polls.at EXCEPT ![c] = "none"], HeldCounted',
         r \in Sdk!Settled => IsOutcome(r, sdk[c].job),
         r = "unreachable" => clock - sdk[c].heard > SdkGrace \/ clock > sdk[c].deadline
  PROVE  CInv'
  <1>1. /\ sdk \in [SdkCallers -> SdkCall] /\ sdk[c] \in SdkCall /\ polls \in SdkPolls /\ clock \in Nat
        /\ OneJob(c) /\ KnowsJob(c) /\ KnowsTime(c) /\ polls.at \in [SdkCallers -> PollAts]
    BY DEF CInv, SdkShape, SdkPolls
  <1> DEFINE t == [sdk[c] EXCEPT !.step = "done", !.result = r]
  <1>2. sdk' = [sdk EXCEPT ![c] = t]
    BY DEF Sdk!EndCall
  <1>3. /\ t \in SdkCall /\ t.step = "done" /\ t.result = r /\ t.key = sdk[c].key /\ t.heard = sdk[c].heard
        /\ t.firstPollFailure = sdk[c].firstPollFailure /\ t.job = sdk[c].job /\ t.deadline = sdk[c].deadline
    BY <1>1 DEF SdkCall, SdkSteps
  <1> HIDE DEF t
  <1>4. "none" \in PollAts /\ "none" \notin Sdk!Settled
    BY DEF PollAts, Sdk!Settled
  <1>5. IsJobOf(c, t.job)
    BY <1>1, <1>3 DEF KnowsJob
  <1>6. t.heard <= clock /\ t.firstPollFailure <= clock /\ (t.firstPollFailure = -1 \/ t.firstPollFailure >= t.heard)
    BY <1>1, <1>3 DEF KnowsTime
  <1> QED
    BY <1>1, <1>2, <1>3, <1>4, <1>5, <1>6, CallMoves

\* a call goes on to its next poll
GoesOn(s, f, h) == [s EXCEPT !.step = "polling", !.firstPollFailure = f, !.heard = h]

LEMMA GoesOnIs ==
  ASSUME NEW s \in SdkCall, NEW f \in Int, NEW h \in Nat
  PROVE  /\ GoesOn(s, f, h) \in SdkCall /\ GoesOn(s, f, h).step = "polling" /\ GoesOn(s, f, h).result = s.result
         /\ GoesOn(s, f, h).key = s.key /\ GoesOn(s, f, h).heard = h /\ GoesOn(s, f, h).firstPollFailure = f
         /\ GoesOn(s, f, h).job = s.job /\ GoesOn(s, f, h).deadline = s.deadline
  <1>1. "polling" \in SdkSteps
    BY DEF SdkSteps
  <1> QED
    BY <1>1 DEF SdkCall, GoesOn

LEMMA CallGoesOn ==
  ASSUME CInv, NEW c \in SdkCallers, NEW f \in Int, NEW h \in Nat, sdk[c].step = "asking",
         sdk' = [sdk EXCEPT ![c] = GoesOn(sdk[c], f, h)], copies' = copies, sdkJobs' = sdkJobs, clock' = clock,
         polls' \in SdkPolls, polls'.at = [polls.at EXCEPT ![c] = "none"], HeldCounted',
         h <= clock, f <= clock, f = -1 \/ f >= h
  PROVE  CInv'
  <1>1. /\ sdk \in [SdkCallers -> SdkCall] /\ sdk[c] \in SdkCall /\ polls \in SdkPolls /\ clock \in Nat
        /\ OneJob(c) /\ KnowsJob(c) /\ KnowsTime(c) /\ polls.at \in [SdkCallers -> PollAts]
    BY DEF CInv, SdkShape, SdkPolls
  <1> DEFINE t == GoesOn(sdk[c], f, h)
  <1>4. /\ t \in SdkCall /\ t.step = "polling" /\ t.result = sdk[c].result /\ t.key = sdk[c].key /\ t.heard = h
        /\ t.firstPollFailure = f /\ t.job = sdk[c].job /\ t.deadline = sdk[c].deadline
    BY <1>1, GoesOnIs
  <1> HIDE DEF t
  <1>2. sdk' = [sdk EXCEPT ![c] = t]
    BY DEF t
  <1>5. "none" \in PollAts /\ "none" \notin Sdk!Settled
    BY DEF PollAts, Sdk!Settled
  <1>6. IsJobOf(c, t.job) /\ t.result = "none"
    BY <1>1, <1>4 DEF KnowsJob
  <1>7. t.heard <= clock /\ t.firstPollFailure <= clock /\ (t.firstPollFailure = -1 \/ t.firstPollFailure >= t.heard)
    BY <1>4
  <1> QED
    BY <1>1, <1>2, <1>4, <1>5, <1>6, <1>7, CallMoves

LEMMA ReadStatusKeeps ==
  ASSUME CInv, NEW c \in SdkCallers, Sdk!readStatus(c)
  PROVE  CInv'
  <1>1. /\ sdk \in [SdkCallers -> SdkCall] /\ sdk[c] \in SdkCall /\ polls \in SdkPolls /\ clock \in Nat
        /\ OneJob(c) /\ KnowsJob(c) /\ KnowsTime(c) /\ polls.at \in [SdkCallers -> PollAts]
    BY DEF CInv, SdkShape, SdkPolls
  <1>2. /\ copies' = copies /\ sdkJobs' = sdkJobs /\ clock' = clock /\ sdk[c].step = "asking" /\ polls.at[c] \in Sdk!Statuses
        /\ polls' = [polls EXCEPT !.at[c] = "none"]
    BY DEF Sdk!readStatus
  <1>3. polls.at[c] # "held" /\ "none" \in PollAts
    BY <1>2 DEF Sdk!Statuses, Sdk!Settled, PollAts
  <1>4. HeldCounted' /\ polls' \in SdkPolls /\ polls'.at = [polls.at EXCEPT ![c] = "none"]
    BY <1>2, <1>3, NotHeldMoves
  <1>5. CASE polls.at[c] \in Sdk!Settled
    <2> DEFINE r == polls.at[c]
    <2>1. sdk' = Sdk!EndCall(c, r)
      BY <1>5 DEF Sdk!readStatus
    <2>2. r \in SdkResults \ {"none"} /\ r # "unreachable" /\ IsOutcome(r, sdk[c].job)
      BY <1>1, <1>5 DEF SdkResults, Sdk!Settled, KnowsJob
    <2> HIDE DEF r
    <2> QED
      BY <1>2, <1>4, <2>1, <2>2, CallEnds
  <1>6. CASE sdk' = Sdk!EndCall(c, "slow")
    <2>1. "slow" \in SdkResults \ {"none"} /\ "slow" \notin Sdk!Settled
      BY DEF SdkResults, Sdk!Settled
    <2> QED
      BY <1>2, <1>4, <1>6, <2>1, CallEnds
  <1>7. CASE sdk' = [sdk EXCEPT ![c].step = "polling", ![c].firstPollFailure = -1, ![c].heard = clock]
    <2> DEFINE f == -1
               h == clock
    <2>1. f \in Int /\ f <= clock /\ f = -1 /\ h \in Nat /\ h <= clock
      BY <1>1
    <2>2. sdk' = [sdk EXCEPT ![c] = GoesOn(sdk[c], f, h)]
      BY <1>1, <1>7 DEF GoesOn
    <2> HIDE DEF f, h
    <2> QED
      BY <1>2, <1>4, <2>1, <2>2, CallGoesOn
  <1> QED
    BY <1>5, <1>6, <1>7 DEF Sdk!readStatus

LEMMA LeftCounted ==
  ASSUME CInv, NEW c \in SdkCallers, polls' = Sdk!Left(c)
  PROVE  HeldCounted' /\ polls' \in SdkPolls /\ polls'.at = [polls.at EXCEPT ![c] = "none"]
  <1>1. /\ sdk \in [SdkCallers -> SdkCall] /\ sdk[c] \in SdkCall /\ polls \in SdkPolls /\ clock \in Nat
        /\ OneJob(c) /\ KnowsJob(c) /\ KnowsTime(c) /\ polls.at \in [SdkCallers -> PollAts]
    BY DEF CInv, SdkShape, SdkPolls
  <1>2. "none" \in PollAts
    BY DEF PollAts
  <1>3. CASE polls.at[c] # "held"
    <2>1. polls' = [[polls EXCEPT !.at[c] = "none"] EXCEPT !.orphans = polls.orphans]
      BY <1>1, <1>3 DEF Sdk!Left, SdkPolls
    <2>2. [polls EXCEPT !.at[c] = "none"] \in SdkPolls /\ [polls EXCEPT !.at[c] = "none"].orphans = polls.orphans
      BY <1>1, <1>2, PollsMove
    <2>3. polls' = [polls EXCEPT !.at[c] = "none"]
      BY <2>1, <2>2 DEF SdkPolls
    <2> QED
      BY <1>2, <1>3, <2>3, NotHeldMoves
  <1>4. CASE polls.at[c] = "held"
    <2> DEFINE o == polls.orphans + 1
               at == [polls.at EXCEPT ![c] = "none"]
    <2>1. polls.count \in Nat /\ polls.orphans \in Nat
      BY <1>1 DEF SdkPolls
    <2>2. o \in Nat /\ at \in [SdkCallers -> PollAts] /\ polls' = [polls EXCEPT !.at = at, !.orphans = o]
      BY <1>1, <1>2, <1>4, <2>1 DEF Sdk!Left
    <2> HIDE DEF o, at
    <2>3. polls' \in SdkPolls /\ polls'.at = at /\ polls'.count = polls.count /\ polls'.orphans = o
      BY <1>1, <2>2 DEF SdkPolls
    <2>4. polls'.at = [polls.at EXCEPT ![c] = "none"] /\ polls'.orphans = polls.orphans + 1
      BY <2>3 DEF o, at
    <2>5. polls'.count - polls'.orphans = polls.count - polls.orphans - 1
      BY <2>1, <2>3, <2>4
    <2>6. HeldCounted'
      BY <1>4, <2>1, <2>2, <2>3, <2>4, <2>5, HeldLeaves DEF CInv
    <2> QED
      BY <2>3, <2>4, <2>6
  <1> QED
    BY <1>3, <1>4

LEMMA PollFailsKeeps ==
  ASSUME CInv, NEW c \in SdkCallers, Sdk!pollFails(c)
  PROVE  CInv'
  <1>1. /\ sdk \in [SdkCallers -> SdkCall] /\ sdk[c] \in SdkCall /\ polls \in SdkPolls /\ clock \in Nat
        /\ OneJob(c) /\ KnowsJob(c) /\ KnowsTime(c) /\ polls.at \in [SdkCallers -> PollAts]
    BY DEF CInv, SdkShape, SdkPolls
  <1>2. copies' = copies /\ sdkJobs' = sdkJobs /\ clock' = clock /\ sdk[c].step = "asking" /\ polls' = Sdk!Left(c)
    BY DEF Sdk!pollFails
  <1>3. HeldCounted' /\ polls' \in SdkPolls /\ polls'.at = [polls.at EXCEPT ![c] = "none"]
    BY <1>2, LeftCounted
  <1> DEFINE f == Sdk!firstFailure(c)
             h == sdk[c].heard
  <1>4. f \in Int /\ h \in Nat /\ h <= clock /\ f <= clock /\ f >= h
    BY <1>1 DEF Sdk!firstFailure, SdkCall, KnowsTime
  <1>5. CASE sdk' = Sdk!EndCall(c, "unreachable") /\ (clock - f > SdkGrace \/ clock > sdk[c].deadline)
    <2>1. "unreachable" \in SdkResults \ {"none"} /\ "unreachable" \notin Sdk!Settled
      BY DEF SdkResults, Sdk!Settled
    <2>2. clock - sdk[c].heard > SdkGrace \/ clock > sdk[c].deadline
      <3>1. CASE clock - f > SdkGrace
        <4> HIDE DEF f
        <4> QED
          BY <1>1, <1>4, <3>1, SdkAssumption
      <3> QED
        BY <1>5, <3>1
    <2> QED
      BY <1>2, <1>3, <1>5, <2>1, <2>2, CallEnds
  <1>6. CASE sdk' = [sdk EXCEPT ![c].step = "polling", ![c].firstPollFailure = f]
    <2>1. sdk' = [sdk EXCEPT ![c] = GoesOn(sdk[c], f, h)]
      <3>1. [sdk[c] EXCEPT !.step = "polling", !.firstPollFailure = f] = GoesOn(sdk[c], f, h)
        <4> HIDE DEF f
        <4> QED
          BY <1>1 DEF SdkCall, GoesOn
      <3>2. sdk' = [sdk EXCEPT ![c] = [sdk[c] EXCEPT !.step = "polling", !.firstPollFailure = f]]
        BY <1>1, <1>6
      <3> QED
        BY <1>1, <3>1, <3>2
    <2> HIDE DEF f, h
    <2> QED
      BY <1>2, <1>3, <1>4, <2>1, CallGoesOn
  <1> QED
    BY <1>5, <1>6 DEF Sdk!pollFails

LEMMA PollRefusedKeeps ==
  ASSUME CInv, NEW c \in SdkCallers, Sdk!pollRefused(c)
  PROVE  CInv'
  <1>1. /\ sdk \in [SdkCallers -> SdkCall] /\ sdk[c] \in SdkCall /\ polls \in SdkPolls /\ clock \in Nat
        /\ OneJob(c) /\ KnowsJob(c) /\ KnowsTime(c) /\ polls.at \in [SdkCallers -> PollAts]
    BY DEF CInv, SdkShape, SdkPolls
  <1>2. copies' = copies /\ sdkJobs' = sdkJobs /\ clock' = clock /\ sdk[c].step = "asking" /\ polls' = Sdk!Left(c) /\ SdkShape
    BY DEF Sdk!pollRefused, CInv
  <1>3. HeldCounted' /\ polls' \in SdkPolls /\ polls'.at = [polls.at EXCEPT ![c] = "none"]
    BY <1>2, LeftCounted
  <1>4. CASE sdk' = Sdk!EndCall(c, "refused")
    <2>1. "refused" \in SdkResults \ {"none"} /\ "refused" \notin Sdk!Settled
      BY DEF SdkResults, Sdk!Settled
    <2> QED
      BY <1>2, <1>3, <1>4, <2>1, CallEnds
  <1>5. CASE sdk' = [d \in SdkCallers |-> [sdk[d] EXCEPT !.longPoll = FALSE, !.step = IF d = c THEN "polling" ELSE @]]
    <2>1. ASSUME NEW d \in SdkCallers
          PROVE  /\ sdk'[d] \in SdkCall /\ sdk'[d].step = (IF d = c THEN "polling" ELSE sdk[d].step) /\ sdk'[d].result = sdk[d].result
                 /\ sdk'[d].key = sdk[d].key /\ sdk'[d].heard = sdk[d].heard /\ sdk'[d].firstPollFailure = sdk[d].firstPollFailure
                 /\ sdk'[d].job = sdk[d].job /\ sdk'[d].deadline = sdk[d].deadline
      <3> DEFINE s == IF d = c THEN "polling" ELSE sdk[d].step
                 b == FALSE
      <3>1. s \in SdkSteps /\ b \in BOOLEAN /\ sdk[d] \in SdkCall
        BY <1>1 DEF SdkSteps, SdkCall
      <3>2. sdk'[d] = [sdk[d] EXCEPT !.longPoll = b, !.step = s]
        BY <1>5
      <3> HIDE DEF s, b
      <3>3. /\ sdk'[d] \in SdkCall /\ sdk'[d].step = s /\ sdk'[d].result = sdk[d].result
            /\ sdk'[d].key = sdk[d].key /\ sdk'[d].heard = sdk[d].heard /\ sdk'[d].firstPollFailure = sdk[d].firstPollFailure
            /\ sdk'[d].job = sdk[d].job /\ sdk'[d].deadline = sdk[d].deadline
        BY <3>1, <3>2 DEF SdkCall
      <3> QED
        BY <3>3 DEF s
    <2>2. sdk' \in [SdkCallers -> SdkCall]
      BY <1>5, <2>1
    <2>3. SdkShape'
      BY <1>2, <1>3, <2>2 DEF SdkShape
    <2>4. ASSUME NEW d \in SdkCallers PROVE OneJob(d)' /\ KnowsJob(d)' /\ KnowsTime(d)'
      <3>1. OneJob(d) /\ KnowsJob(d) /\ KnowsTime(d)
        BY DEF CInv
      <3>2. \A j : IsJobOf(d, j)' <=> IsJobOf(d, j)
        BY <1>2 DEF IsJobOf
      <3>3. \A s, j : IsOutcome(s, j) => IsOutcome(s, j)'
        BY <1>2 DEF IsOutcome
      <3>4. OneJob(d)'
        BY <1>2, <2>1, <3>1, <3>2, OneJobStays
      <3>5. KnowsTime(d)'
        BY <1>2, <2>1, <3>1 DEF KnowsTime
      <3>6. polls'.at[d] = (IF d = c THEN "none" ELSE polls.at[d]) /\ "none" \notin Sdk!Settled
        BY <1>1, <1>3 DEF Sdk!Settled
      <3>7. KnowsJob(d)'
        <4>1. CASE d = c
          BY <4>1, <1>2, <2>1, <3>1, <3>2, <3>3, <3>6 DEF KnowsJob
        <4>2. CASE d # c
          BY <4>2, <1>2, <2>1, <3>1, <3>2, <3>3, <3>6 DEF KnowsJob
        <4> QED
          BY <4>1, <4>2
      <3> QED
        BY <3>4, <3>5, <3>7
    <2> QED
      BY <1>3, <2>3, <2>4 DEF CInv
  <1> QED
    BY <1>4, <1>5 DEF Sdk!pollRefused

LEMMA TickKeeps ==
  ASSUME CInv, Sdk!Tick
  PROVE  CInv'
  <1>1. clock \in Nat /\ clock < SdkMaxNow /\ clock' = clock + 1 /\ sdk' = sdk /\ copies' = copies /\ sdkJobs' = sdkJobs /\ polls' = polls
    BY DEF CInv, SdkShape, Sdk!Tick
  <1>2. SdkShape'
    BY <1>1, SdkAssumption DEF CInv, SdkShape
  <1>3. HeldCounted'
    BY <1>1, HeldSame DEF CInv
  <1>4. ASSUME NEW c \in SdkCallers PROVE OneJob(c)' /\ KnowsJob(c)' /\ KnowsTime(c)'
    <2>1. OneJob(c) /\ KnowsJob(c) /\ KnowsTime(c) /\ sdk[c] \in SdkCall
      BY DEF CInv, SdkShape
    <2>2. \A j : IsJobOf(c, j)' <=> IsJobOf(c, j)
      BY <1>1 DEF IsJobOf
    <2>3. \A s, j : IsOutcome(s, j) => IsOutcome(s, j)'
      BY <1>1 DEF IsOutcome
    <2>4. OneJob(c)' /\ KnowsJob(c)'
      BY <1>1, <2>1, <2>2, <2>3, OneJobStays, KnowsJobStays
    <2>5. KnowsTime(c)'
      <3>1. sdk[c].heard \in Nat /\ sdk[c].firstPollFailure \in Int /\ sdk[c].deadline \in Nat
        BY <2>1 DEF SdkCall
      <3> QED
        BY <1>1, <2>1, <3>1, SdkAssumption DEF KnowsTime
    <2> QED
      BY <2>4, <2>5
  <1> QED
    BY <1>2, <1>3, <1>4 DEF CInv

LEMMA CInvNext ==
  ASSUME CInv, [Sdk!SdkNext]_sdkVars
  PROVE  CInv'
  <1>1. CASE UNCHANGED sdkVars
    <2>1. SdkShape /\ HeldCounted /\ SdkShape' /\ HeldCounted'
      BY <1>1, HeldSame DEF sdkVars, CInv, SdkShape
    <2> QED
      BY <1>1, <2>1, OthersKeep DEF sdkVars, CInv
  <1>2. ASSUME NEW c \in SdkCallers,
               \/ Sdk!act(c) \/ Sdk!fetchFails(c) \/ Sdk!readAnswer(c) \/ Sdk!poll(c) \/ Sdk!getJobStatus(c) \/ Sdk!holdUntil(c)
               \/ Sdk!readStatus(c) \/ Sdk!pollFails(c) \/ Sdk!pollRefused(c)
        PROVE  CInv'
    BY <1>2, ActKeeps, FetchFailsKeeps, ReadAnswerKeeps, PollKeeps, GetJobStatusKeeps, HoldUntilKeeps, ReadStatusKeeps, PollFailsKeeps,
       PollRefusedKeeps
  <1>3. ASSUME NEW c \in SdkCallers, NEW n \in DOMAIN copies[c], Sdk!quickCheck(c, n) \/ Sdk!insertJob(c, n) PROVE CInv'
    BY <1>3, QuickCheckKeeps, InsertJobKeeps
  <1>4. ASSUME NEW j \in DOMAIN sdkJobs, Sdk!jobMoves(j) PROVE CInv'
    BY <1>4, JobMovesKeeps
  <1> QED
    BY <1>1, <1>2, <1>3, <1>4, ClientGoneKeeps, TickKeeps DEF Sdk!SdkNext

LEMMA SdkCardinality == \A S : Sdk!Cardinality(S) = Cardinality(S)
  BY DEF Sdk!Cardinality, Cardinality

LEMMA CInvImplies == CInv => Sdk!SdkTypeOK /\ Sdk!CallRunsOnce /\ Sdk!OutcomeIsTheJobs /\ Sdk!GraceIsKept /\ Sdk!WaitersCounted
  <1> SUFFICES ASSUME CInv PROVE Sdk!SdkTypeOK /\ Sdk!CallRunsOnce /\ Sdk!OutcomeIsTheJobs /\ Sdk!GraceIsKept /\ Sdk!WaitersCounted
    OBVIOUS
  <1>1. /\ sdk \in [SdkCallers -> SdkCall] /\ copies \in [SdkCallers -> Seq(SdkCopy)] /\ sdkJobs \in Seq(SdkJob) /\ polls \in SdkPolls
        /\ clock \in 0..SdkMaxNow /\ HeldCounted /\ \A c \in SdkCallers : OneJob(c) /\ KnowsJob(c) /\ KnowsTime(c)
    BY SdkAssumption DEF CInv, SdkShape
  <1>2. Sdk!SdkTypeOK
    <2>1. \A c \in SdkCallers : sdk[c].firstPollFailure \in -1..SdkMaxNow /\ sdk[c].heard \in 0..SdkMaxNow
      <3> TAKE c \in SdkCallers
      <3>1. sdk[c].firstPollFailure \in Int /\ sdk[c].heard \in Nat
        BY <1>1 DEF SdkCall
      <3> QED
        BY <1>1, <3>1, SdkAssumption DEF KnowsTime
    <2>2. ASSUME NEW c \in SdkCallers
          PROVE  sdk[c] \in [step : {"idle", "posting", "polling", "asking", "done"}, key : BOOLEAN, resent : BOOLEAN,
                              job : Nat, longPoll : BOOLEAN, deadline : Nat, firstPollFailure : -1..SdkMaxNow, heard : 0..SdkMaxNow,
                              result : Sdk!Settled \cup {"none", "retryable", "refused", "unreachable", "slow"}]
      BY <1>1, <2>1 DEF SdkCall, SdkSteps, SdkResults
    <2>3. \A c \in SdkCallers : \A n \in DOMAIN copies[c] :
             copies[c][n] \in [stage : {"sent", "checked", "answered", "lost"}, answer : Sdk!Answers]
      <3> TAKE c \in SdkCallers
      <3>1. copies[c] \in Seq(SdkCopy)
        BY <1>1
      <3>2. \A n \in DOMAIN copies[c] : copies[c][n] \in SdkCopy
        BY <3>1
      <3> QED
        BY <3>2 DEF SdkCopy, CopyStages
    <2>4. \A j \in DOMAIN sdkJobs : sdkJobs[j] \in [of : SdkCallers, status : Sdk!Statuses]
      <3>1. \A j \in DOMAIN sdkJobs : sdkJobs[j] \in SdkJob
        BY <1>1
      <3> QED
        BY <3>1 DEF SdkJob
    <2>5. polls \in [at : [SdkCallers -> {"none", "asked", "held"} \cup Sdk!Statuses], count : 0..SdkWaiters, orphans : 0..SdkWaiters]
      <3>1. polls.count \in 0..SdkWaiters /\ polls.orphans \in 0..SdkWaiters
        BY <1>1, HeldFinite, SdkAssumption DEF HeldCounted, SdkPolls
      <3> QED
        BY <1>1, <3>1 DEF SdkPolls, PollAts
    <2> QED
      BY <1>1, <2>2, <2>3, <2>4, <2>5 DEF Sdk!SdkTypeOK
  <1>3. Sdk!CallRunsOnce
    <2> SUFFICES ASSUME NEW c \in SdkCallers PROVE Cardinality(Sdk!JobsOf(c)) <= 1
      BY SdkCardinality DEF Sdk!CallRunsOnce
    <2>1. \A j \in Sdk!JobsOf(c) : j \in Nat /\ IsJobOf(c, j)
      BY <1>1 DEF Sdk!JobsOf, IsJobOf
    <2>2. \A i, j \in Sdk!JobsOf(c) : i = j
      BY <1>1, <2>1 DEF OneJob
    <2>3. CASE Sdk!JobsOf(c) = {}
      BY <2>3, FS_EmptySet
    <2>4. CASE Sdk!JobsOf(c) # {}
      <3>1. PICK j : j \in Sdk!JobsOf(c)
        BY <2>4
      <3>2. Sdk!JobsOf(c) = {j}
        BY <2>2, <3>1
      <3> QED
        <4>1. Cardinality({j}) = 1
          BY FS_Singleton
        <4> QED
          BY <3>2, <4>1
    <2> QED
      BY <2>3, <2>4
  <1>4. Sdk!OutcomeIsTheJobs
    BY <1>1 DEF Sdk!OutcomeIsTheJobs, KnowsJob, IsJobOf, IsOutcome, Sdk!StatusFor
  <1>5. Sdk!GraceIsKept
    BY <1>1 DEF Sdk!GraceIsKept, KnowsTime
  <1>6. Sdk!WaitersCounted
    BY <1>1, SdkCardinality DEF Sdk!WaitersCounted, HeldCounted, Held
  <1> QED
    BY <1>2, <1>3, <1>4, <1>5, <1>6

CallPart ==
    /\ part = "threads" => WInv
    /\ part = "sdk" => CInv

\* A submitting call begins on one worker thread at most, through any crashes, rotations, refusals, timeouts and stops of any number of
\* threads; a call through the SDK, for any number of callers and copies of a request, starts one job and is told what became of it.
THEOREM SubmitBegunOnceAlways == Spec => []SubmitBegunOnce
  <1>1. Init => CallPart
    BY WInvInit, CInvInit DEF Init, CallPart
  <1>2. CallPart /\ [Next]_vars => CallPart'
    <2> SUFFICES ASSUME CallPart, [Next]_vars PROVE CallPart'
      OBVIOUS
    <2>1. CASE UNCHANGED <<part, threadVars, sdkVars>>
      BY <2>1, WInvNext, CInvNext DEF CallPart, threadVars, sdkVars
    <2>2. CASE Only("threads") /\ Threads!PoolNext
      BY <2>2, WInvNext DEF CallPart, Only
    <2>3. CASE Only("sdk") /\ Sdk!SdkNext
      BY <2>3, CInvNext DEF CallPart, Only
    <2>4. CASE part \notin {"threads", "sdk"} /\ part' = part
      BY <2>4 DEF CallPart
    <2>5. /\ part = "threads" /\ Next => Only("threads") /\ Threads!PoolNext
          /\ part = "sdk" /\ Next => Only("sdk") /\ Sdk!SdkNext
      BY DEF Next, Only
    <2>6. Next => part' = part
      BY DEF Next, Only
    <2>7. UNCHANGED vars => UNCHANGED <<part, threadVars, sdkVars>>
      BY DEF vars
    <2> QED
      BY <2>1, <2>2, <2>3, <2>4, <2>5, <2>6, <2>7
  <1>3. CallPart => SubmitBegunOnce
    BY WInvImplies, CInvImplies DEF CallPart, SubmitBegunOnce
  <1> QED
    BY <1>1, <1>2, <1>3, PTL DEF Spec

-----------------------------------------------------------------------------
(* The submit path.                                                        *)

Attempts == 0..(SubmitRetries + 1)
Dusts == {"free", "reserved", "restored"}
NodeStates == {"unknown", "pool", "applied", "failed", "dropped"}
ClientMap == [SubmitClients -> {"none", "settling", "free", "busy", "closing"}]

SubmitRecord ==
    [step : Submit!Steps, attempt : Attempts, resends : 0..SubmitRetries, maybeSent : BOOLEAN, armed : BOOLEAN,
     client : SubmitClients \cup {Submit!NoClient}, answer : {"none", "status", "refused"},
     why : {"", "watch", "transport", "refused"}, result : Submit!Results]

SubmitShape ==
    /\ submit \in [SubmitTxs -> SubmitRecord] /\ dust \in [SubmitTxs -> Dusts] /\ clients \in ClientMap
    /\ sends \in [SubmitTxs -> SUBSET Attempts] /\ txAt \in [SubmitTxs -> NodeStates]

\* The results after which nothing of the transaction is left anywhere.
Unsent == {"build", "intent", "not-sent", "rejected"}

\* No attempt of the submit can have reached the node: none was sent, or the only one was refused at once.
NothingOut(s) ==
    \/ s.step \in {"idle", "announce", "client", "connect"} /\ ~s.maybeSent
    \/ s.step = "sent" /\ s.answer = "refused" /\ ~s.maybeSent
    \/ s.step = "probe" /\ s.why = "refused" /\ s.answer # "status" /\ ~s.maybeSent
    \/ s.step = "done" /\ s.result \in Unsent

\* One transaction: its record s, its dust d, the sends under way w, and what the node did x. Only a resend makes it
\* maybe sent; until then at most the present attempt is under way, and its answer says whether it arrived.
AttemptKnows(s, w, x) ==
    /\ s.attempt = s.resends
    /\ s.maybeSent => s.resends > 0
    /\ s.step \in {"idle", "announce"} => s.resends = 0
    /\ NothingOut(s) => x = "unknown" /\ w = {}
    /\ s.step = "sent" /\ ~s.maybeSent => w \subseteq {s.attempt} /\ (s.answer = "none" => x = "unknown") /\ (s.answer # "none" => w = {})
    /\ s.step = "connect" => s.answer = "none"
    /\ s.step \in {"watch", "visible"} => s.answer = "status"
    /\ s.step = "visible" => x \in {"applied", "failed"}

\* A result is final and so, and the dust comes back with a result that says that nothing was sent.
ResultKnows(s, d, x) ==
    /\ s.result # "none" => s.step = "done"
    /\ s.result = "ok" => x \in {"applied", "failed"}
    /\ s.result = "not-applied" => x = "failed"
    /\ d = "restored" => s.step = "done" /\ s.result \in Unsent

TxKnows(s, d, w, x) == AttemptKnows(s, w, x) /\ ResultKnows(s, d, x)

\* The inductive invariant.
XInv == SubmitShape /\ \A t \in SubmitTxs : TxKnows(submit[t], dust[t], sends[t], txAt[t])

\* A step gives one transaction these values.
TxSet(t, s, d, w, x) ==
    /\ submit' = [submit EXCEPT ![t] = s] /\ dust' = [dust EXCEPT ![t] = d]
    /\ sends' = [sends EXCEPT ![t] = w] /\ txAt' = [txAt EXCEPT ![t] = x]

TxTyped(s, d, w, x) == s \in SubmitRecord /\ d \in Dusts /\ w \in SUBSET Attempts /\ x \in NodeStates

LEMMA SubmitInitInv == Submit!SubmitInit => XInv
  <1> SUFFICES ASSUME Submit!SubmitInit PROVE XInv
    OBVIOUS
  <1> DEFINE s == [step |-> "idle", attempt |-> 0, resends |-> 0, maybeSent |-> FALSE, armed |-> FALSE,
                   client |-> Submit!NoClient, answer |-> "none", why |-> "", result |-> "none"]
  <1>1. s \in SubmitRecord
    BY SubmitAssumption DEF SubmitRecord, Attempts, Submit!Steps, Submit!Results
  <1>2. submit = [t \in SubmitTxs |-> s]
    BY DEF Submit!SubmitInit
  <1>3. SubmitShape
    BY <1>1, <1>2 DEF Submit!SubmitInit, SubmitShape, Dusts, NodeStates, ClientMap
  <1>4. TxKnows(s, "free", {}, "unknown")
    BY DEF TxKnows, AttemptKnows, ResultKnows
  <1> HIDE DEF s
  <1>5. \A t \in SubmitTxs : submit[t] = s /\ dust[t] = "free" /\ sends[t] = {} /\ txAt[t] = "unknown"
    BY <1>2 DEF Submit!SubmitInit
  <1> QED
    BY <1>3, <1>4, <1>5 DEF XInv

\* A step of one transaction leaves the others as they are.
LEMMA TxSetInv ==
    ASSUME XInv, NEW t \in SubmitTxs, NEW s, NEW d, NEW w, NEW x, TxTyped(s, d, w, x), TxSet(t, s, d, w, x), clients' \in ClientMap,
           TxKnows(s, d, w, x)
    PROVE  XInv'
  <1>1. SubmitShape'
    BY DEF XInv, SubmitShape, TxSet, TxTyped
  <1>2. ASSUME NEW u \in SubmitTxs PROVE TxKnows(submit'[u], dust'[u], sends'[u], txAt'[u])
    <2>1. CASE u = t
      <3>1. submit'[u] = s /\ dust'[u] = d /\ sends'[u] = w /\ txAt'[u] = x
        BY <2>1 DEF TxSet, XInv, SubmitShape
      <3> QED
        BY <3>1
    <2>2. CASE u # t
      <3>1. submit'[u] = submit[u] /\ dust'[u] = dust[u] /\ sends'[u] = sends[u] /\ txAt'[u] = txAt[u]
        BY <2>2 DEF TxSet, XInv, SubmitShape
      <3> QED
        BY <3>1 DEF XInv
    <2> QED
      BY <2>1, <2>2
  <1> QED
    BY <1>1, <1>2 DEF XInv, TxKnows, AttemptKnows, ResultKnows, NothingOut

\* Of one transaction: its values are of their types, and what is not changed may be written as unchanged.
LEMMA TxValues ==
    ASSUME XInv, NEW t \in SubmitTxs
    PROVE  /\ TxTyped(submit[t], dust[t], sends[t], txAt[t]) /\ TxKnows(submit[t], dust[t], sends[t], txAt[t])
           /\ submit = [submit EXCEPT ![t] = submit[t]] /\ dust = [dust EXCEPT ![t] = dust[t]]
           /\ sends = [sends EXCEPT ![t] = sends[t]] /\ txAt = [txAt EXCEPT ![t] = txAt[t]]
           /\ clients \in ClientMap
  BY DEF XInv, SubmitShape, TxTyped

LEMMA ReleasedType == \A t \in SubmitTxs, b \in BOOLEAN : XInv => Submit!Released(t, b) \in ClientMap
  BY DEF XInv, SubmitShape, ClientMap, Submit!Released

\* Only the record of the transaction changes, perhaps with the clients.
LEMMA RecordSet ==
    ASSUME XInv, NEW t \in SubmitTxs, NEW s \in SubmitRecord, submit' = [submit EXCEPT ![t] = s],
           UNCHANGED <<dust, sends, txAt>>, clients' \in ClientMap,
           s.result = submit[t].result, s.step # "done", submit[t].step # "done", AttemptKnows(s, sends[t], txAt[t])
    PROVE  XInv'
  <1>1. TxTyped(s, dust[t], sends[t], txAt[t]) /\ TxSet(t, s, dust[t], sends[t], txAt[t])
    BY TxValues DEF TxTyped, TxSet
  <1>2. TxKnows(s, dust[t], sends[t], txAt[t])
    BY TxValues DEF TxKnows, ResultKnows
  <1> QED
    BY <1>1, <1>2, TxSetInv

\* A submit ends: the dust comes back only when nothing was sent.
LEMMA GuardStep ==
    ASSUME XInv, NEW t \in SubmitTxs, submit[t].step # "done", NEW result \in Submit!Results \ {"none"},
           Submit!submitWithDustGuard(t, result), UNCHANGED <<sends, txAt>>, clients' \in ClientMap,
           result = "ok" => txAt[t] \in {"applied", "failed"}, result = "not-applied" => txAt[t] = "failed",
           result \in Unsent => txAt[t] = "unknown" /\ sends[t] = {}
    PROVE  XInv'
  <1> DEFINE old == submit[t]
             s == [old EXCEPT !.step = "done", !.result = result, !.client = Submit!NoClient, !.armed = FALSE]
             d == IF result \in {"not-sent", "rejected"} /\ old.armed THEN "restored" ELSE dust[t]
  <1>1. old \in SubmitRecord /\ dust[t] \in Dusts /\ AttemptKnows(old, sends[t], txAt[t]) /\ dust[t] # "restored"
    BY TxValues DEF TxTyped, TxKnows, ResultKnows
  <1>2. s \in SubmitRecord /\ s.step = "done" /\ s.result = result /\ s.attempt = old.attempt /\ s.resends = old.resends
        /\ s.maybeSent = old.maybeSent
    BY <1>1 DEF SubmitRecord, Submit!Steps
  <1>3. submit' = [submit EXCEPT ![t] = s]
    BY DEF Submit!submitWithDustGuard
  <1>4. dust' = [dust EXCEPT ![t] = d]
    BY TxValues DEF Submit!submitWithDustGuard, Submit!Restored
  <1>5. d \in Dusts /\ (d = "restored" => result \in Unsent)
    BY <1>1 DEF Dusts, Unsent
  <1> HIDE DEF s, d
  <1>6. TxTyped(s, d, sends[t], txAt[t]) /\ TxSet(t, s, d, sends[t], txAt[t])
    BY <1>2, <1>3, <1>4, <1>5, TxValues DEF TxTyped, TxSet
  <1>7. TxKnows(s, d, sends[t], txAt[t])
    BY <1>1, <1>2, <1>5 DEF TxKnows, AttemptKnows, ResultKnows, NothingOut
  <1> QED
    BY <1>6, <1>7, TxSetInv

\* Building and announcing.
LEMMA BeginSteps ==
    ASSUME XInv, NEW t \in SubmitTxs, Submit!balanceTx(t) \/ Submit!announceSubmitIntent(t)
    PROVE  XInv'
  <1> DEFINE old == submit[t]
  <1>1. /\ old \in SubmitRecord /\ AttemptKnows(old, sends[t], txAt[t]) /\ ResultKnows(old, dust[t], txAt[t]) /\ clients' \in ClientMap
        /\ old.step \in {"idle", "announce"} /\ UNCHANGED <<sends, txAt>>
    BY TxValues DEF TxTyped, TxKnows, Submit!balanceTx, Submit!announceSubmitIntent
  <1>2. old.resends = 0 /\ ~old.maybeSent /\ txAt[t] = "unknown" /\ sends[t] = {} /\ old.result = "none" /\ dust[t] # "restored"
    <2>1. old.resends = 0 /\ ~old.maybeSent
      BY <1>1 DEF AttemptKnows
    <2>2. NothingOut(old)
      BY <1>1, <2>1 DEF NothingOut
    <2> QED
      BY <1>1, <2>1, <2>2 DEF AttemptKnows, ResultKnows
  <1>3. ASSUME NEW s \in SubmitRecord, NEW d \in Dusts, submit' = [submit EXCEPT ![t] = s], dust' = [dust EXCEPT ![t] = d],
               s.attempt = old.attempt, s.resends = 0, ~s.maybeSent, s.step \in {"announce", "client", "done"},
               IF s.step = "done" THEN s.result \in Unsent ELSE s.result = "none" /\ d # "restored"
        PROVE  XInv'
    <2>1. TxTyped(s, d, sends[t], txAt[t]) /\ TxSet(t, s, d, sends[t], txAt[t])
      BY <1>1, <1>3, TxValues DEF TxTyped, TxSet
    <2>2. TxKnows(s, d, sends[t], txAt[t])
      BY <1>1, <1>2, <1>3 DEF TxKnows, AttemptKnows, ResultKnows, Unsent
    <2> QED
      BY <1>1, <2>1, <2>2, TxSetInv
  <1>4. CASE Submit!balanceTx(t)
    <2>1. ASSUME NEW armed \in BOOLEAN, submit' = [submit EXCEPT ![t].step = "announce", ![t].armed = armed],
                 dust' = [dust EXCEPT ![t] = "reserved"]
          PROVE  XInv'
      <3> DEFINE s == [old EXCEPT !.step = "announce", !.armed = armed]
      <3>1. s \in SubmitRecord /\ s.step = "announce" /\ s.attempt = old.attempt /\ s.resends = 0 /\ ~s.maybeSent /\ s.result = "none"
        BY <1>1, <1>2 DEF SubmitRecord, Submit!Steps
      <3>2. submit' = [submit EXCEPT ![t] = s]
        BY <2>1
      <3> HIDE DEF s
      <3> QED
        BY <1>3, <2>1, <3>1, <3>2 DEF Dusts
    <2>2. ASSUME submit' = [submit EXCEPT ![t].step = "done", ![t].result = "build"], UNCHANGED dust PROVE XInv'
      <3> DEFINE s == [old EXCEPT !.step = "done", !.result = "build"]
      <3>1. s \in SubmitRecord /\ s.step = "done" /\ s.attempt = old.attempt /\ s.resends = 0 /\ ~s.maybeSent /\ s.result = "build"
        BY <1>1, <1>2 DEF SubmitRecord, Submit!Steps, Submit!Results
      <3>2. submit' = [submit EXCEPT ![t] = s] /\ dust' = [dust EXCEPT ![t] = dust[t]] /\ dust[t] \in Dusts
        BY <2>2, TxValues DEF TxTyped
      <3> HIDE DEF s
      <3> QED
        BY <1>3, <3>1, <3>2 DEF Unsent
    <2> QED
      BY <1>4, <2>1, <2>2 DEF Submit!balanceTx
  <1>5. CASE Submit!announceSubmitIntent(t)
    <2>1. ASSUME submit' = [submit EXCEPT ![t].step = "client"], UNCHANGED dust PROVE XInv'
      <3> DEFINE s == [old EXCEPT !.step = "client"]
      <3>1. s \in SubmitRecord /\ s.step = "client" /\ s.attempt = old.attempt /\ s.resends = 0 /\ ~s.maybeSent /\ s.result = "none"
        BY <1>1, <1>2 DEF SubmitRecord, Submit!Steps
      <3>2. submit' = [submit EXCEPT ![t] = s] /\ dust' = [dust EXCEPT ![t] = dust[t]] /\ dust[t] \in Dusts
        BY <2>1, TxValues DEF TxTyped
      <3> HIDE DEF s
      <3> QED
        BY <1>2, <1>3, <3>1, <3>2
    <2>2. ASSUME submit' = [submit EXCEPT ![t].step = "done", ![t].result = "intent"], dust' = Submit!Restored(t) PROVE XInv'
      <3> DEFINE s == [old EXCEPT !.step = "done", !.result = "intent"]
                 d == IF old.armed THEN "restored" ELSE dust[t]
      <3>1. s \in SubmitRecord /\ s.step = "done" /\ s.attempt = old.attempt /\ s.resends = 0 /\ ~s.maybeSent /\ s.result = "intent"
        BY <1>1, <1>2 DEF SubmitRecord, Submit!Steps, Submit!Results
      <3>2. submit' = [submit EXCEPT ![t] = s]
        BY <2>2
      <3>3. dust' = [dust EXCEPT ![t] = d] /\ d \in Dusts
        BY <2>2, TxValues DEF TxTyped, Dusts, Submit!Restored
      <3> HIDE DEF s, d
      <3> QED
        BY <1>3, <3>1, <3>2, <3>3 DEF Unsent
    <2> QED
      BY <1>5, <2>1, <2>2 DEF Submit!announceSubmitIntent
  <1> QED
    BY <1>4, <1>5

\* The clients.
LEMMA ClientSteps ==
    ASSUME XInv, Submit!createClient \/ \E c \in SubmitClients : Submit!clientSettles(c)
    PROVE  XInv'
  <1>1. UNCHANGED <<submit, dust, sends, txAt>>
    BY DEF Submit!createClient, Submit!clientSettles
  <1>2. clients' \in ClientMap
    BY DEF XInv, SubmitShape, ClientMap, Submit!createClient, Submit!clientSettles
  <1> QED
    BY <1>1, <1>2 DEF XInv, SubmitShape, TxKnows, AttemptKnows, ResultKnows, NothingOut

\* The node sees a send, loses it or decides.
LEMMA NodeSteps ==
    ASSUME XInv, NEW t \in SubmitTxs, Submit!nodeDecides(t) \/ \E a \in sends[t] : Submit!nodeReceives(t, a) \/ Submit!nodeLoses(t, a)
    PROVE  XInv'
  <1> DEFINE old == submit[t]
  <1>1. /\ old \in SubmitRecord /\ sends[t] \in SUBSET Attempts /\ txAt[t] \in NodeStates /\ dust[t] \in Dusts
        /\ AttemptKnows(old, sends[t], txAt[t]) /\ ResultKnows(old, dust[t], txAt[t]) /\ clients \in ClientMap
    BY TxValues DEF TxTyped, TxKnows
  <1>2. ASSUME Submit!nodeDecides(t) PROVE XInv'
    <2>1. PICK x \in {"applied", "failed", "dropped"} : txAt' = [txAt EXCEPT ![t] = x]
      BY <1>2 DEF Submit!nodeDecides
    <2>2. TxSet(t, old, dust[t], sends[t], x) /\ TxTyped(old, dust[t], sends[t], x) /\ clients' \in ClientMap
      BY <1>1, <1>2, <2>1, TxValues DEF TxSet, TxTyped, NodeStates, Submit!nodeDecides
    <2>3. TxKnows(old, dust[t], sends[t], x)
      BY <1>1, <1>2 DEF TxKnows, AttemptKnows, ResultKnows, Submit!nodeDecides
    <2> QED
      BY <2>2, <2>3, TxSetInv
  <1>3. ASSUME NEW a \in sends[t], NEW s \in SubmitRecord, NEW x \in NodeStates,
               submit' = [submit EXCEPT ![t] = s], sends' = [sends EXCEPT ![t] = sends[t] \ {a}], txAt' = [txAt EXCEPT ![t] = x],
               UNCHANGED <<dust, clients>>,
               \/ s = old /\ x = txAt[t]
               \/ s = old /\ x = "pool" /\ txAt[t] = "unknown" /\ ~(old.step = "sent" /\ old.attempt = a)
               \/ old.step = "sent" /\ old.attempt = a /\ s = [old EXCEPT !.answer = "status"] /\ x = "pool" /\ txAt[t] = "unknown"
               \/ old.step = "sent" /\ old.attempt = a /\ s = [old EXCEPT !.answer = "refused"] /\ x = txAt[t]
        PROVE  XInv'
    <2> DEFINE w == sends[t] \ {a}
    <2>1. TxSet(t, s, dust[t], w, x) /\ TxTyped(s, dust[t], w, x) /\ clients' \in ClientMap
      BY <1>1, <1>3, TxValues DEF TxSet, TxTyped
    <2>2. CASE s = old /\ x = txAt[t]
      BY <1>1, <2>1, <2>2, TxSetInv DEF TxKnows, AttemptKnows
    <2>3. CASE s = old /\ x = "pool" /\ txAt[t] = "unknown" /\ ~(old.step = "sent" /\ old.attempt = a)
      <3>1. ~NothingOut(old) /\ (old.step = "sent" => old.maybeSent) /\ old.step # "visible" /\ old.result \notin {"ok", "not-applied"}
        BY <1>1, <1>3, <2>3 DEF AttemptKnows, ResultKnows
      <3>2. TxKnows(s, dust[t], w, x)
        BY <1>1, <2>3, <3>1 DEF TxKnows, AttemptKnows, ResultKnows
      <3> QED
        BY <2>1, <3>2, TxSetInv
    <2>4. CASE /\ old.step = "sent" /\ old.attempt = a
               /\ \/ s = [old EXCEPT !.answer = "status"] /\ x = "pool" /\ txAt[t] = "unknown"
                  \/ s = [old EXCEPT !.answer = "refused"] /\ x = txAt[t]
      <3>1. /\ s.step = "sent" /\ s.attempt = old.attempt /\ s.resends = old.resends /\ s.maybeSent = old.maybeSent
            /\ s.result = old.result
            /\ s.answer = "status" \/ (s.answer = "refused" /\ x = txAt[t])
        BY <1>1, <2>4 DEF SubmitRecord
      <3>2. ~old.maybeSent => w = {} /\ txAt[t] = "unknown"
        BY <1>1, <1>3, <2>4 DEF AttemptKnows
      <3>3. old.result \notin {"ok", "not-applied"} /\ dust[t] # "restored" /\ old.result = "none"
        BY <1>1, <2>4 DEF ResultKnows
      <3> HIDE DEF w
      <3>4. TxKnows(s, dust[t], w, x)
        BY <1>1, <3>1, <3>2, <3>3 DEF TxKnows, AttemptKnows, ResultKnows, NothingOut
      <3> QED
        BY <2>1, <3>4, TxSetInv
    <2> QED
      BY <1>3, <2>2, <2>3, <2>4
  <1>4. ASSUME NEW a \in sends[t], Submit!nodeReceives(t, a) PROVE XInv'
    <2> DEFINE mine == old.step = "sent" /\ old.attempt = a
    <2>1. sends' = [sends EXCEPT ![t] = sends[t] \ {a}] /\ UNCHANGED <<dust, clients>>
      BY <1>4 DEF Submit!nodeReceives
    <2>2. CASE txAt[t] = "unknown" /\ txAt' = [txAt EXCEPT ![t] = "pool"]
               /\ submit' = IF mine THEN [submit EXCEPT ![t].answer = "status"] ELSE submit
      <3>1. CASE mine
        <4> DEFINE s == [old EXCEPT !.answer = "status"]
        <4>1. s \in SubmitRecord
          BY <1>1 DEF SubmitRecord
        <4>2. submit' = [submit EXCEPT ![t] = s]
          BY <2>2, <3>1
        <4> QED
          BY <1>3, <2>1, <2>2, <3>1, <4>1, <4>2 DEF NodeStates
      <3>2. CASE ~mine
        <4>1. submit' = [submit EXCEPT ![t] = old]
          BY <2>2, <3>2, TxValues
        <4> QED
          BY <1>1, <1>3, <2>1, <2>2, <3>2, <4>1 DEF NodeStates
      <3> QED
        BY <3>1, <3>2
    <2>3. CASE UNCHANGED txAt /\ submit' = IF mine THEN [submit EXCEPT ![t].answer = "refused"] ELSE submit
      <3>0. txAt' = [txAt EXCEPT ![t] = txAt[t]]
        BY <2>3, TxValues
      <3>1. CASE mine
        <4> DEFINE s == [old EXCEPT !.answer = "refused"]
        <4>1. s \in SubmitRecord
          BY <1>1 DEF SubmitRecord
        <4>2. submit' = [submit EXCEPT ![t] = s]
          BY <2>3, <3>1
        <4> QED
          BY <1>1, <1>3, <2>1, <3>0, <3>1, <4>1, <4>2
      <3>2. CASE ~mine
        <4>1. submit' = [submit EXCEPT ![t] = old]
          BY <2>3, <3>2, TxValues
        <4> QED
          BY <1>1, <1>3, <2>1, <3>0, <4>1
      <3> QED
        BY <3>1, <3>2
    <2> QED
      BY <1>4, <2>2, <2>3 DEF Submit!nodeReceives
  <1>5. ASSUME NEW a \in sends[t], Submit!nodeLoses(t, a) PROVE XInv'
    <2>1. /\ sends' = [sends EXCEPT ![t] = sends[t] \ {a}] /\ UNCHANGED <<dust, clients>>
          /\ submit' = [submit EXCEPT ![t] = old] /\ txAt' = [txAt EXCEPT ![t] = txAt[t]]
      BY <1>5, TxValues DEF Submit!nodeLoses
    <2> QED
      BY <1>1, <1>3, <2>1
  <1> QED
    BY <1>2, <1>4, <1>5

\* A client is taken, the bytes are sent, the pool reports a status; or the watch or the backstop ends.
LEMMA AttemptSteps ==
    ASSUME XInv, NEW t \in SubmitTxs,
           \/ Submit!withDedicatedSubmitClient(t) \/ Submit!firstStatus(t) \/ Submit!timesOut(t) \/ Submit!transportFails(t)
           \/ Submit!inBlock(t) \/ Submit!send(t)
    PROVE  XInv'
  <1> DEFINE old == submit[t]
  <1>1. /\ old \in SubmitRecord /\ sends[t] \in SUBSET Attempts /\ txAt[t] \in NodeStates
        /\ AttemptKnows(old, sends[t], txAt[t]) /\ ResultKnows(old, dust[t], txAt[t]) /\ clients \in ClientMap
    BY TxValues DEF TxTyped, TxKnows
  <1>2. CASE Submit!withDedicatedSubmitClient(t)
    <2>1. PICK c \in SubmitClients : /\ clients' = [clients EXCEPT ![c] = "busy"]
                                     /\ submit' = [submit EXCEPT ![t].step = "connect", ![t].client = c, ![t].answer = "none"]
      BY <1>2 DEF Submit!withDedicatedSubmitClient
    <2> DEFINE s == [old EXCEPT !.step = "connect", !.client = c, !.answer = "none"]
    <2>2. /\ s \in SubmitRecord /\ s.step = "connect" /\ s.answer = "none" /\ s.attempt = old.attempt /\ s.resends = old.resends
          /\ s.maybeSent = old.maybeSent /\ s.result = old.result
      BY <1>1 DEF SubmitRecord, Submit!Steps
    <2>3. submit' = [submit EXCEPT ![t] = s] /\ UNCHANGED <<dust, sends, txAt>> /\ old.step = "client"
      BY <1>2, <2>1 DEF Submit!withDedicatedSubmitClient
    <2>4. clients' \in ClientMap
      BY <1>1, <2>1 DEF ClientMap
    <2> HIDE DEF s
    <2>5. AttemptKnows(s, sends[t], txAt[t])
      BY <1>1, <2>2, <2>3 DEF AttemptKnows, NothingOut
    <2> QED
      BY <2>2, <2>3, <2>4, <2>5, RecordSet
  <1>3. CASE Submit!firstStatus(t)
    <2> DEFINE s == [old EXCEPT !.step = "watch"]
    <2>1. /\ s \in SubmitRecord /\ s.step = "watch" /\ s.answer = old.answer /\ s.attempt = old.attempt /\ s.resends = old.resends
          /\ s.maybeSent = old.maybeSent /\ s.result = old.result
      BY <1>1 DEF SubmitRecord, Submit!Steps
    <2>2. /\ submit' = [submit EXCEPT ![t] = s] /\ UNCHANGED <<dust, clients, sends, txAt>> /\ old.step = "sent"
          /\ old.answer = "status"
      BY <1>3 DEF Submit!firstStatus
    <2> HIDE DEF s
    <2>3. AttemptKnows(s, sends[t], txAt[t])
      BY <1>1, <2>1, <2>2 DEF AttemptKnows, NothingOut
    <2> QED
      BY <1>1, <2>1, <2>2, <2>3, RecordSet
  <1>4. ASSUME NEW why \in {"watch", "transport"}, old.step \in {"sent", "watch"}, UNCHANGED <<dust, sends, txAt>>, clients' \in ClientMap,
               submit' = [submit EXCEPT ![t].step = "probe", ![t].client = Submit!NoClient, ![t].why = why]
        PROVE  XInv'
    <2> DEFINE s == [old EXCEPT !.step = "probe", !.client = Submit!NoClient, !.why = why]
    <2>1. /\ s \in SubmitRecord /\ s.step = "probe" /\ s.why = why /\ s.attempt = old.attempt /\ s.resends = old.resends
          /\ s.maybeSent = old.maybeSent /\ s.result = old.result
      BY <1>1 DEF SubmitRecord, Submit!Steps
    <2>2. submit' = [submit EXCEPT ![t] = s]
      BY <1>4
    <2> HIDE DEF s
    <2>3. AttemptKnows(s, sends[t], txAt[t])
      BY <1>1, <1>4, <2>1 DEF AttemptKnows, NothingOut
    <2> QED
      BY <1>4, <2>1, <2>2, <2>3, RecordSet
  <1>5. CASE Submit!timesOut(t) \/ Submit!transportFails(t)
    BY <1>4, <1>5, ReleasedType DEF Submit!timesOut, Submit!transportFails
  <1>6. CASE Submit!inBlock(t)
    <2> DEFINE s == [old EXCEPT !.step = "visible", !.client = Submit!NoClient]
    <2>1. /\ s \in SubmitRecord /\ s.step = "visible" /\ s.answer = old.answer /\ s.attempt = old.attempt /\ s.resends = old.resends
          /\ s.maybeSent = old.maybeSent /\ s.result = old.result
      BY <1>1 DEF SubmitRecord, Submit!Steps
    <2>2. /\ submit' = [submit EXCEPT ![t] = s] /\ UNCHANGED <<dust, sends, txAt>> /\ old.step = "watch"
          /\ txAt[t] \in {"applied", "failed"} /\ clients' \in ClientMap
      BY <1>6, ReleasedType DEF Submit!inBlock, Submit!InBlock
    <2> HIDE DEF s
    <2>3. AttemptKnows(s, sends[t], txAt[t])
      BY <1>1, <2>1, <2>2 DEF AttemptKnows, NothingOut
    <2> QED
      BY <2>1, <2>2, <2>3, RecordSet
  <1>7. CASE Submit!send(t)
    <2> DEFINE s == [old EXCEPT !.step = "sent"]
               w == sends[t] \cup {old.attempt}
    <2>1. /\ s \in SubmitRecord /\ s.step = "sent" /\ s.answer = old.answer /\ s.attempt = old.attempt /\ s.resends = old.resends
          /\ s.maybeSent = old.maybeSent /\ s.result = old.result
      BY <1>1 DEF SubmitRecord, Submit!Steps
    <2>2. /\ submit' = [submit EXCEPT ![t] = s] /\ sends' = [sends EXCEPT ![t] = w] /\ UNCHANGED <<dust, clients, txAt>>
          /\ old.step = "connect"
      BY <1>7 DEF Submit!send
    <2>3. w \in SUBSET Attempts
      BY <1>1 DEF SubmitRecord
    <2>4. old.answer = "none" /\ (~old.maybeSent => w = {old.attempt} /\ txAt[t] = "unknown")
      BY <1>1, <2>2 DEF AttemptKnows, NothingOut
    <2> HIDE DEF s, w
    <2>5. TxSet(t, s, dust[t], w, txAt[t]) /\ TxTyped(s, dust[t], w, txAt[t])
      BY <2>1, <2>2, <2>3, TxValues DEF TxSet, TxTyped
    <2>6. TxKnows(s, dust[t], w, txAt[t])
      BY <1>1, <2>1, <2>2, <2>4 DEF TxKnows, AttemptKnows, ResultKnows, NothingOut
    <2> QED
      BY <1>1, <2>2, <2>5, <2>6, TxSetInv
  <1> QED
    BY <1>2, <1>3, <1>5, <1>6, <1>7

\* The same bytes are sent again, by an attempt that may follow one that left or follows none.
LEMMA ResendStep ==
    ASSUME XInv, NEW t \in SubmitTxs, NEW s \in SubmitRecord, submit' = [submit EXCEPT ![t] = s], UNCHANGED <<dust, sends, txAt>>,
           clients' \in ClientMap, submit[t].step \in {"connect", "sent", "probe"},
           s.step = "client", s.attempt = submit[t].attempt + 1, s.resends = submit[t].resends + 1, s.result = submit[t].result,
           s.maybeSent \/ (submit[t].step = "connect" /\ ~submit[t].maybeSent)
    PROVE  XInv'
  <1> DEFINE old == submit[t]
  <1>1. old \in SubmitRecord /\ AttemptKnows(old, sends[t], txAt[t])
    BY TxValues DEF TxTyped, TxKnows
  <1>2. old.attempt = old.resends /\ s.resends > 0
    <2>1. old.attempt = old.resends
      BY <1>1 DEF AttemptKnows
    <2>2. old.resends \in Nat
      <3>1. old.resends \in 0..SubmitRetries
        BY <1>1 DEF SubmitRecord
      <3> QED
        BY <3>1, SubmitAssumption
    <2>3. s.resends = old.resends + 1
      OBVIOUS
    <2> QED
      BY <2>1, <2>2, <2>3
  <1>3. ~s.maybeSent => txAt[t] = "unknown" /\ sends[t] = {}
    BY <1>1 DEF AttemptKnows, NothingOut
  <1>4. AttemptKnows(s, sends[t], txAt[t])
    BY <1>2, <1>3 DEF AttemptKnows, NothingOut
  <1> QED
    BY <1>4, RecordSet

\* An attempt that failed: it is made again, the indexer is asked, or the submit ends.
LEMMA FailureSteps ==
    ASSUME XInv, NEW t \in SubmitTxs, Submit!connectFails(t) \/ Submit!closingSocket(t) \/ Submit!nodeRefuses(t)
    PROVE  XInv'
  <1> DEFINE old == submit[t]
  <1>1. /\ old \in SubmitRecord /\ AttemptKnows(old, sends[t], txAt[t]) /\ ResultKnows(old, dust[t], txAt[t])
        /\ SubmitRetries \in Nat /\ UNCHANGED <<sends, txAt>> /\ clients' \in ClientMap
    BY TxValues, ReleasedType, SubmitAssumption DEF TxTyped, TxKnows, Submit!connectFails, Submit!closingSocket, Submit!nodeRefuses
  <1>2. old.attempt = old.resends /\ old.resends \in 0..SubmitRetries
    BY <1>1 DEF AttemptKnows, SubmitRecord
  <1>3. ASSUME NEW m \in BOOLEAN, old.resends < SubmitRetries, UNCHANGED dust, old.step \in {"connect", "sent"},
               m \/ (old.step = "connect" /\ ~old.maybeSent),
               submit' = [submit EXCEPT ![t] = [old EXCEPT !.step = "client", !.client = Submit!NoClient,
                            !.attempt = old.attempt + 1, !.resends = old.resends + 1, !.maybeSent = m]]
        PROVE  XInv'
    <2> DEFINE s == [old EXCEPT !.step = "client", !.client = Submit!NoClient, !.attempt = old.attempt + 1,
                                !.resends = old.resends + 1, !.maybeSent = m]
    <2>1. old.attempt + 1 \in Attempts /\ old.resends + 1 \in 0..SubmitRetries
      BY <1>1, <1>2, <1>3 DEF Attempts
    <2>2. /\ s \in SubmitRecord /\ s.step = "client" /\ s.attempt = old.attempt + 1 /\ s.resends = old.resends + 1
          /\ s.maybeSent = m /\ s.result = old.result
      BY <1>1, <2>1 DEF SubmitRecord, Submit!Steps
    <2>3. submit' = [submit EXCEPT ![t] = s]
      BY <1>3
    <2> HIDE DEF s
    <2> QED
      BY <1>1, <1>3, <2>2, <2>3, ResendStep
  <1>4. CASE Submit!connectFails(t)
    <2>1. old.step = "connect" /\ (~old.maybeSent => txAt[t] = "unknown" /\ sends[t] = {}) /\ old.maybeSent \in BOOLEAN
      BY <1>1, <1>4 DEF Submit!connectFails, AttemptKnows, NothingOut, SubmitRecord
    <2>2. CASE old.resends < SubmitRetries /\ Submit!Resend(t) /\ UNCHANGED dust
      <3> DEFINE s == [old EXCEPT !.step = "client", !.client = Submit!NoClient, !.attempt = old.attempt + 1,
                                  !.resends = old.resends + 1]
      <3>1. submit' = [submit EXCEPT ![t] = s]
        BY <2>2 DEF Submit!Resend
      <3>2. s = [old EXCEPT !.step = "client", !.client = Submit!NoClient, !.attempt = old.attempt + 1,
                            !.resends = old.resends + 1, !.maybeSent = old.maybeSent]
        BY <1>1 DEF SubmitRecord
      <3> QED
        BY <1>3, <2>1, <2>2, <3>1, <3>2
    <2>3. CASE Submit!submitWithDustGuard(t, IF old.maybeSent THEN "unknown" ELSE "not-sent")
      BY <1>1, <2>1, <2>3, GuardStep DEF Unsent, Submit!Results
    <2> QED
      BY <1>4, <2>2, <2>3 DEF Submit!connectFails
  <1>5. CASE Submit!closingSocket(t)
    <2>1. CASE old.resends < SubmitRetries
      <3>1. old.step = "sent" /\ UNCHANGED dust
        BY <1>1, <1>2, <1>5, <2>1 DEF Submit!closingSocket
      <3>2. submit' = [submit EXCEPT ![t] = [old EXCEPT !.step = "client", !.client = Submit!NoClient,
                         !.attempt = old.attempt + 1, !.resends = old.resends + 1, !.maybeSent = TRUE]]
        <4>1. submit' = [submit EXCEPT ![t].step = "client", ![t].client = Submit!NoClient, ![t].attempt = @ + 1,
                                       ![t].resends = @ + 1, ![t].maybeSent = TRUE]
          BY <1>1, <1>2, <1>5, <2>1 DEF Submit!closingSocket
        <4> QED
          BY <4>1
      <3> QED
        BY <1>3, <2>1, <3>1, <3>2
    <2>2. CASE Submit!submitWithDustGuard(t, "unknown")
      BY <1>1, <1>5, <2>2, GuardStep DEF Unsent, Submit!Results, Submit!closingSocket
    <2> QED
      BY <1>5, <2>1, <2>2 DEF Submit!closingSocket
  <1>6. CASE Submit!nodeRefuses(t)
    <2>1. CASE old.resends > 0
      <3> DEFINE s == [old EXCEPT !.step = "probe", !.client = Submit!NoClient, !.why = "refused"]
      <3>1. /\ s \in SubmitRecord /\ s.step = "probe" /\ s.why = "refused" /\ s.answer = old.answer /\ s.attempt = old.attempt
            /\ s.resends = old.resends /\ s.maybeSent = old.maybeSent /\ s.result = old.result
        BY <1>1 DEF SubmitRecord, Submit!Steps
      <3>2. submit' = [submit EXCEPT ![t] = s] /\ UNCHANGED dust
        <4>1. /\ submit' = [submit EXCEPT ![t].step = "probe", ![t].client = Submit!NoClient, ![t].why = "refused"]
              /\ UNCHANGED dust
          BY <1>1, <1>2, <1>6, <2>1 DEF Submit!nodeRefuses
        <4> QED
          BY <4>1
      <3>3. (old.step = "sent" /\ old.answer = "refused") \/ old.step = "watch"
        BY <1>6 DEF Submit!nodeRefuses
      <3> HIDE DEF s
      <3>4. AttemptKnows(s, sends[t], txAt[t])
        BY <1>1, <3>1, <3>3 DEF AttemptKnows, NothingOut
      <3> QED
        BY <1>1, <3>1, <3>2, <3>3, <3>4, RecordSet
    <2>2. CASE old.resends = 0 /\ Submit!submitWithDustGuard(t, IF old.step = "watch" THEN "pool-invalid" ELSE "rejected")
      <3>1. CASE old.step = "watch"
        BY <1>1, <2>2, <3>1, GuardStep DEF Unsent, Submit!Results
      <3>2. CASE old.step = "sent" /\ old.answer = "refused"
        <4>1. txAt[t] = "unknown" /\ sends[t] = {}
          BY <1>1, <2>2, <3>2 DEF AttemptKnows, NothingOut
        <4> QED
          BY <1>1, <2>2, <3>2, <4>1, GuardStep DEF Unsent, Submit!Results
      <3> QED
        BY <1>6, <3>1, <3>2 DEF Submit!nodeRefuses
    <2> QED
      BY <1>6, <2>1, <2>2 DEF Submit!nodeRefuses
  <1> QED
    BY <1>4, <1>5, <1>6

\* The indexer is asked.
LEMMA ProbeSteps ==
    ASSUME XInv, NEW t \in SubmitTxs, Submit!waitLandedOnIndexer(t) \/ Submit!notOnIndexer(t) \/ Submit!waitIndexerVisible(t)
    PROVE  XInv'
  <1> DEFINE old == submit[t]
  <1>1. /\ old \in SubmitRecord /\ AttemptKnows(old, sends[t], txAt[t]) /\ ResultKnows(old, dust[t], txAt[t])
        /\ SubmitRetries \in Nat /\ clients \in ClientMap
    BY TxValues, SubmitAssumption DEF TxTyped, TxKnows
  <1>2. ASSUME Submit!Found(t), old.step # "done" PROVE XInv'
    BY <1>1, <1>2, GuardStep DEF Submit!Found, Submit!InBlock, Unsent, Submit!Results
  <1>3. CASE Submit!waitLandedOnIndexer(t)
    BY <1>2, <1>3 DEF Submit!waitLandedOnIndexer
  <1>4. CASE Submit!notOnIndexer(t)
    <2>0. UNCHANGED <<clients, sends, txAt>> /\ old.step = "probe"
      BY <1>4 DEF Submit!notOnIndexer
    <2>1. CASE Submit!submitWithDustGuard(t, "ambiguous") \/ Submit!submitWithDustGuard(t, "unknown")
      BY <1>1, <2>0, <2>1, GuardStep DEF Unsent, Submit!Results
    <2>2. CASE /\ old.why = "transport" /\ old.resends < SubmitRetries /\ UNCHANGED dust
               /\ submit' = [submit EXCEPT ![t].step = "client", ![t].attempt = @ + 1, ![t].resends = @ + 1, ![t].maybeSent = TRUE]
      <3> DEFINE s == [old EXCEPT !.step = "client", !.attempt = old.attempt + 1, !.resends = old.resends + 1, !.maybeSent = TRUE]
      <3>1. old.attempt + 1 \in Attempts /\ old.resends + 1 \in 0..SubmitRetries
        <4>1. old.attempt = old.resends /\ old.resends \in 0..SubmitRetries
          BY <1>1 DEF AttemptKnows, SubmitRecord
        <4> QED
          BY <1>1, <2>2, <4>1 DEF Attempts
      <3>2. /\ s \in SubmitRecord /\ s.step = "client" /\ s.attempt = old.attempt + 1 /\ s.resends = old.resends + 1
            /\ s.maybeSent /\ s.result = old.result
        BY <1>1, <3>1 DEF SubmitRecord, Submit!Steps
      <3>3. submit' = [submit EXCEPT ![t] = s]
        BY <2>2
      <3> HIDE DEF s
      <3> QED
        BY <1>1, <2>0, <2>2, <3>2, <3>3, ResendStep
    <2>3. CASE /\ old.why = "refused"
               /\ Submit!submitWithDustGuard(t, IF old.maybeSent THEN "unknown" ELSE IF old.answer = "status" THEN "pool-invalid" ELSE "rejected")
      <3>1. ~old.maybeSent /\ old.answer # "status" => txAt[t] = "unknown" /\ sends[t] = {}
        BY <1>1, <2>0, <2>3 DEF AttemptKnows, NothingOut
      <3> QED
        BY <1>1, <2>0, <2>3, <3>1, GuardStep DEF Unsent, Submit!Results
    <2> QED
      BY <1>4, <2>1, <2>2, <2>3 DEF Submit!notOnIndexer
  <1>5. CASE Submit!waitIndexerVisible(t)
    <2>0. old.step = "visible" /\ txAt[t] \in {"applied", "failed"} /\ old.answer = "status"
      BY <1>1, <1>5 DEF Submit!waitIndexerVisible, AttemptKnows
    <2>1. CASE Submit!submitWithDustGuard(t, "ok") /\ UNCHANGED <<clients, sends, txAt>>
      BY <1>1, <2>0, <2>1, GuardStep DEF Unsent, Submit!Results
    <2>2. CASE Submit!Found(t)
      BY <1>2, <2>0, <2>2
    <2>3. CASE /\ submit' = [submit EXCEPT ![t].step = "probe", ![t].why = "refused"]
               /\ UNCHANGED <<dust, clients, sends, txAt>>
      <3> DEFINE s == [old EXCEPT !.step = "probe", !.why = "refused"]
      <3>1. /\ s \in SubmitRecord /\ s.step = "probe" /\ s.answer = "status" /\ s.attempt = old.attempt
            /\ s.resends = old.resends /\ s.maybeSent = old.maybeSent /\ s.result = old.result
        BY <1>1, <2>0 DEF SubmitRecord, Submit!Steps
      <3>2. submit' = [submit EXCEPT ![t] = s]
        BY <2>3
      <3> HIDE DEF s
      <3>3. AttemptKnows(s, sends[t], txAt[t])
        BY <1>1, <3>1 DEF AttemptKnows, NothingOut
      <3> QED
        BY <1>1, <2>0, <2>3, <3>1, <3>2, <3>3, RecordSet
    <2> QED
      BY <1>5, <2>1, <2>2, <2>3 DEF Submit!waitIndexerVisible
  <1> QED
    BY <1>3, <1>4, <1>5

LEMMA SubmitStepInv == XInv /\ Submit!SubmitNext => XInv'
  BY BeginSteps, ClientSteps, NodeSteps, AttemptSteps, FailureSteps, ProbeSteps DEF Submit!SubmitNext

SubmitPart == part = "submit" => XInv

\* Dust is put back only for a transaction that can no longer land, and what a submit reports is so, for any number of
\* transactions, clients and resends, however sends are lost, late or refused (submitWithDustGuard, submitOnDedicatedClient).
THEOREM SubmitIsSettledAlways == Spec => []SubmitIsSettled
  <1>1. Init => SubmitPart
    BY SubmitInitInv DEF Init, SubmitPart
  <1>2. SubmitPart /\ [Next]_vars => SubmitPart'
    <2> SUFFICES ASSUME SubmitPart, [Next]_vars PROVE SubmitPart'
      OBVIOUS
    <2>1. CASE UNCHANGED <<part, submitVars>>
      BY <2>1 DEF SubmitPart, XInv, SubmitShape, TxKnows, AttemptKnows, ResultKnows, NothingOut, submitVars
    <2>2. CASE Only("submit") /\ Submit!SubmitNext
      BY <2>2, SubmitStepInv DEF SubmitPart, Only
    <2>3. CASE part # "submit" /\ part' = part
      BY <2>3 DEF SubmitPart
    <2>4. part = "submit" /\ Next => Only("submit") /\ Submit!SubmitNext
      BY DEF Next, Only
    <2>5. Next => part' = part
      BY DEF Next, Only
    <2>6. UNCHANGED vars => UNCHANGED <<part, submitVars>>
      BY DEF vars
    <2> QED
      BY <2>1, <2>2, <2>3, <2>4, <2>5, <2>6
  <1>3. XInv => Submit!SubmitTypeOK
    BY DEF XInv, SubmitShape, SubmitRecord, Attempts, Dusts, NodeStates, ClientMap, Submit!SubmitTypeOK
  <1>4. XInv => Submit!DustBackMeansUnsent /\ Submit!AnswerIsTrue
    <2> SUFFICES ASSUME XInv PROVE Submit!DustBackMeansUnsent /\ Submit!AnswerIsTrue
      OBVIOUS
    <2>1. ASSUME NEW t \in SubmitTxs
          PROVE  /\ dust[t] = "restored" => txAt[t] = "unknown" /\ sends[t] = {}
                 /\ submit[t].result = "ok" => txAt[t] \in {"applied", "failed"}
                 /\ submit[t].result = "not-applied" => txAt[t] = "failed"
                 /\ submit[t].result \in Unsent => txAt[t] = "unknown" /\ sends[t] = {}
      BY TxValues DEF TxKnows, AttemptKnows, ResultKnows, NothingOut, Unsent
    <2> QED
      BY <2>1 DEF Submit!DustBackMeansUnsent, Submit!AnswerIsTrue, Submit!InBlock, Unsent
  <1>5. SubmitPart => SubmitIsSettled
    BY <1>3, <1>4 DEF SubmitPart, SubmitIsSettled
  <1> QED
    BY <1>1, <1>2, <1>5, PTL DEF Spec
=============================================================================
