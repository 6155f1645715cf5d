------------------------------ MODULE DustLeases ------------------------------
(***************************************************************************)
(* Parallel sponsoring with one wallet (midnight/worker/sponsor.ts,        *)
(* sponsorUnboundTx): each request reserves the NIGHT UTXOs that back the  *)
(* dust notes it spends, its backings, builds and proves the dust spend,   *)
(* announces it, sends it, and keeps the backings until the wallet no      *)
(* longer lists the spent notes.                                           *)
(*                                                                         *)
(* A backing has one note at a time; spending it leaves the next one, so a *)
(* note is [backing, nonce]. The chain has the note that may be spent next *)
(* and the wallet, which follows the chain, the note it lists. Between two *)
(* awaits a request is one step. The reservation of a request that runs is *)
(* renewed by a timer; Stall is the event loop of the worker being blocked *)
(* for longer than the reservation lasts, after which another request may  *)
(* run before the timer does.                                              *)
(***************************************************************************)
EXTENDS Integers, FiniteSets, FiniteSetsExt

CONSTANTS
    Requests,     \* calls of sponsorUnboundTx for this wallet
    Backings,     \* NIGHT UTXOs of the wallet
    Specks,       \* dust of each backing's note
    Fee,          \* dust each request needs
    MaxNotes,     \* NIGHTGATE_SPONSOR_MAX_DUST_NOTES
    MaxReselects, \* MAX_BACKING_RESELECTS
    MaxNonce,     \* bound: spends of one backing
    MaxStalls     \* bound: times the event loop is blocked too long

VARIABLES
    chain,     \* nonce of the note of each backing that the chain lets be spent
    listed,    \* nonce of the note of each backing the dust wallet lists
    noteLocks, \* reservations: token, and whether it is past its expiry; token 0: none
    leaseSeq,  \* noteLeaseSeq
    req,       \* requests: step, reserved parts, notes spent, backings found short
    lapsed,    \* requests whose reservation expired or was given up before its note was seen spent
    stalls     \* times the event loop was blocked

dustVars == <<chain, listed, noteLocks, leaseSeq, req, lapsed, stalls>>

Free == [token |-> 0, expired |-> FALSE]
Idle == [step |-> "idle", parts |-> {}, notes |-> {}, short |-> {}, tries |-> 0]
Live == {"leased", "built", "sending", "draining"}
Steps == {"idle", "waiting", "done"} \cup Live

DustTypeOK ==
    /\ chain \in [Backings -> Nat] /\ listed \in [Backings -> Nat]
    /\ noteLocks \in [Backings -> [token : Nat, expired : BOOLEAN]]
    /\ leaseSeq \in Nat
    /\ req \in [Requests -> [step : Steps, parts : SUBSET (Backings \X Nat),
                             notes : SUBSET (Backings \X Nat), short : SUBSET Backings, tries : 0..MaxReselects]]
    /\ lapsed \subseteq Requests /\ stalls \in 0..MaxStalls

DustInit ==
    /\ chain = [b \in Backings |-> 0] /\ listed = chain
    /\ noteLocks = [b \in Backings |-> Free]
    /\ leaseSeq = 0
    /\ req = [r \in Requests |-> Idle]
    /\ lapsed = {} /\ stalls = 0

-----------------------------------------------------------------------------
(* Reservations.                                                           *)

Held(b) == noteLocks[b].token # 0 /\ ~noteLocks[b].expired

Available(r) == {b \in Backings \ req[r].short : ~Held(b)}

\* one backing that covers the fee, the one with the most dust
tryLockBacking(r) ==
    {{b} : b \in {x \in Available(r) : /\ Specks[x] >= Fee[r]
                                       /\ \A y \in Available(r) : Specks[y] <= Specks[x]}}

\* several that cover it together, largest first, when no note covers it alone
pickNotesAcrossBackings(r) ==
    {S \in SUBSET Available(r) :
        /\ Cardinality(S) <= MaxNotes
        /\ MapThenSumSet(LAMBDA b : Specks[b], S) >= Fee[r]
        /\ \A x \in S : MapThenSumSet(LAMBDA b : Specks[b], S \ {x}) < Fee[r]
        /\ \A x \in S, y \in Available(r) \ S : Specks[y] <= Specks[x]}

coversAlone(r) == \E b \in Backings \ req[r].short : Specks[b] >= Fee[r]

tryLockDust(r) ==
    IF tryLockBacking(r) # {} THEN tryLockBacking(r)
    ELSE IF MaxNotes < 2 \/ coversAlone(r) THEN {}
    ELSE pickNotesAcrossBackings(r)

\* Mutant: a release frees a backing whoever has it by now.
releaseAnyNote(locks, b, token) == Free

\* only the owner of the current token frees a backing
releaseNote(locks, b, token) == IF locks[b].token = token THEN Free ELSE locks[b]

releaseLease(r) ==
    [b \in Backings |-> LET mine == {p \in req[r].parts : p[1] = b}
                        IN  IF mine = {} THEN noteLocks[b]
                            ELSE releaseNote(noteLocks, b, (CHOOSE p \in mine : TRUE)[2])]

-----------------------------------------------------------------------------
(* The request.                                                            *)

\* the transaction passed the checks, its fee is known
Start(r) ==
    /\ req[r].step = "idle"
    /\ req' = [req EXCEPT ![r].step = "waiting"]
    /\ UNCHANGED <<chain, listed, noteLocks, leaseSeq, lapsed, stalls>>

acquireBacking(r) ==
    /\ req[r].step = "waiting"
    /\ \E S \in tryLockDust(r) :
          \E token \in [S -> leaseSeq + 1 .. leaseSeq + Cardinality(S)] :
             /\ \A b, c \in S : token[b] = token[c] => b = c
             /\ leaseSeq' = leaseSeq + Cardinality(S)
             /\ noteLocks' = [b \in Backings |-> IF b \in S THEN [token |-> token[b], expired |-> FALSE]
                                                            ELSE noteLocks[b]]
             /\ req' = [req EXCEPT ![r].step = "leased", ![r].parts = {<<b, token[b]>> : b \in S}]
    /\ UNCHANGED <<chain, listed, lapsed, stalls>>

\* every backing was busy until the deadline
WaitTimeout(r) ==
    /\ req[r].step = "waiting" /\ tryLockDust(r) = {}
    /\ req' = [req EXCEPT ![r] = [Idle EXCEPT !.step = "done"]]
    /\ UNCHANGED <<chain, listed, noteLocks, leaseSeq, lapsed, stalls>>

\* the notes the wallet lists now are spent; under the wallet's session lock
buildDustSpend(r) ==
    /\ req[r].step = "leased"
    /\ req' = [req EXCEPT ![r].step = "built", ![r].notes = {<<p[1], listed[p[1]]>> : p \in req[r].parts}]
    /\ UNCHANGED <<chain, listed, noteLocks, leaseSeq, lapsed, stalls>>

\* at the spend's block time the backings hold too little: others are tried, a few times
BackingShort(r) ==
    /\ req[r].step = "leased"
    /\ noteLocks' = releaseLease(r)
    /\ IF req[r].tries < MaxReselects
       THEN req' = [req EXCEPT ![r] = [Idle EXCEPT !.step = "waiting", !.tries = req[r].tries + 1,
                                                   !.short = req[r].short \cup {p[1] : p \in req[r].parts}]]
       ELSE req' = [req EXCEPT ![r] = [Idle EXCEPT !.step = "done"]]
    /\ UNCHANGED <<chain, listed, leaseSeq, lapsed, stalls>>

\* proving or the announcement failed; or the node surely took nothing
NothingSent(r) ==
    /\ req[r].step \in {"built", "sending"}
    /\ noteLocks' = releaseLease(r)
    /\ req' = [req EXCEPT ![r] = [Idle EXCEPT !.step = "done"]]
    /\ UNCHANGED <<chain, listed, leaseSeq, lapsed, stalls>>

\* announced: from here the backing stays reserved unless the node refuses
Send(r) ==
    /\ req[r].step = "built"
    /\ req' = [req EXCEPT ![r].step = "sending"]
    /\ UNCHANGED <<chain, listed, noteLocks, leaseSeq, lapsed, stalls>>

\* the transaction lands, if its notes can still be spent, also after the answer was lost;
\* the request waits for the wallet
Land(r) ==
    /\ req[r].step \in {"sending", "draining", "done"} /\ req[r].notes # {}
    /\ \A n \in req[r].notes : chain[n[1]] = n[2] /\ n[2] < MaxNonce
    /\ chain' = [b \in Backings |-> IF \E n \in req[r].notes : n[1] = b THEN chain[b] + 1 ELSE chain[b]]
    /\ req' = [req EXCEPT ![r].step = IF @ = "sending" THEN "draining" ELSE @]
    /\ UNCHANGED <<listed, noteLocks, leaseSeq, lapsed, stalls>>

\* no answer: it may land later, so it counts as sent
AnswerLost(r) ==
    /\ req[r].step = "sending"
    /\ req' = [req EXCEPT ![r].step = "draining"]
    /\ UNCHANGED <<chain, listed, noteLocks, leaseSeq, lapsed, stalls>>

\* the dust wallet no longer lists a spent note, or the wait for that ends
releaseBackingWhenSpent(r) ==
    /\ req[r].step = "draining"
    /\ noteLocks' = releaseLease(r)
    /\ req' = [req EXCEPT ![r].step = "done", ![r].parts = {}]
    /\ lapsed' = IF \E n \in req[r].notes : listed[n[1]] = n[2] THEN lapsed \cup {r} ELSE lapsed
    /\ UNCHANGED <<chain, listed, leaseSeq, stalls>>

\* the wallet follows the chain
WalletSync(b) ==
    /\ listed[b] < chain[b]
    /\ listed' = [listed EXCEPT ![b] = @ + 1]
    /\ UNCHANGED <<chain, noteLocks, leaseSeq, req, lapsed, stalls>>

\* the event loop was blocked: reservations are past their expiry until the timers run
Stall ==
    /\ stalls < MaxStalls /\ \E b \in Backings : Held(b)
    /\ stalls' = stalls + 1
    /\ noteLocks' = [b \in Backings |-> IF Held(b) THEN [noteLocks[b] EXCEPT !.expired = TRUE] ELSE noteLocks[b]]
    /\ lapsed' = lapsed \cup {r \in Requests : req[r].step \in Live}
    /\ UNCHANGED <<chain, listed, leaseSeq, req>>

\* the renewal timer of one backing; it leaves a reservation that someone else took over
keepLeaseAlive(r, b) ==
    /\ req[r].step \in Live /\ <<b, noteLocks[b].token>> \in req[r].parts /\ noteLocks[b].expired
    /\ noteLocks' = [noteLocks EXCEPT ![b].expired = FALSE]
    /\ UNCHANGED <<chain, listed, leaseSeq, req, lapsed, stalls>>

DustNext ==
    \/ \E r \in Requests :
          \/ Start(r) \/ acquireBacking(r) \/ WaitTimeout(r) \/ buildDustSpend(r) \/ BackingShort(r)
          \/ NothingSent(r) \/ Send(r) \/ Land(r) \/ AnswerLost(r) \/ releaseBackingWhenSpent(r)
          \/ \E b \in Backings : keepLeaseAlive(r, b)
    \/ \E b \in Backings : WalletSync(b)
    \/ Stall

DustSpec == DustInit /\ [][DustNext]_dustVars

-----------------------------------------------------------------------------
(* Properties.                                                             *)

\* notes a request has put into a transaction the chain may still take
AtStake(r) == IF req[r].step \in {"built", "sending", "draining"} THEN req[r].notes ELSE {}

\* Two requests never spend the same note at the same time, which the node rejects with 1010/196
\* (backingKey, releaseBackingWhenSpent): unless the reservation of one of the two itself expired
\* or was given up early. A third request never suffers from that.
NoteSpentOnce ==
    \A r, s \in Requests \ lapsed :
        r # s => AtStake(r) \cap AtStake(s) = {}

=============================================================================
