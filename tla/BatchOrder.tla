------------------------------ MODULE BatchOrder ------------------------------
(***************************************************************************)
(* The order of the calls of a batch (midnight/batch-segment-order.ts,      *)
(* batch-call-scope.ts). The SDK numbers the segment of each call at random *)
(* and hands the merged segments over in no fixed order; the ledger applies *)
(* them by ascending number. Before proving, the segments are renumbered    *)
(* into call order, or grouped by stage where the caller allows it.         *)
(***************************************************************************)
EXTENDS Integers, Sequences, FiniteSets, SequencesExt

CONSTANTS
    CallLists,   \* lists of two or more calls: the circuit, and the stages it runs in, out of {"g", "f"}
    MaxSegment   \* bound: segment numbers

VARIABLES
    batch,    \* the call list, what the SDK built from it, and the options
    outcome   \* "building", "proved", "mismatch" or "causality"

batchVars == <<batch, outcome>>

FeePart == 0 \* a segment that holds no contract call

\* the segments a batch can come back with: colliding numbers keep one call, a fee part may be added,
\* and the list is in any order
Merged(n, ids) ==
    UNION {LET segs == {ids[c] : c \in 1..n} \cup fee
               owners == {f \in [segs -> 0..n] : \A s \in segs : IF s \in fee THEN f[s] = FeePart ELSE f[s] \in {c \in 1..n : ids[c] = s}}
           IN  {[i \in DOMAIN o |-> [seg |-> o[i], call |-> f[o[i]]]] : o \in SetToSeqs(segs), f \in owners} :
           fee \in {{}} \cup {{s} : s \in (1..MaxSegment) \ {ids[c] : c \in 1..n}}}

\* runBatchInScope: the calls are built one by one, and the number of each is noted unless the SDK shows none
runBatchInScope ==
    \E calls \in CallLists : LET n == Len(calls) IN \E ids \in [1..n -> 1..MaxSegment] :
      \E merged \in Merged(n, ids), known \in BOOLEAN, free \in BOOLEAN : \E prefix \in IF free THEN 0..n ELSE {0} :
        batch = [calls |-> calls, merged |-> merged, ids |-> IF known THEN ids ELSE <<>>, independentCalls |-> free, orderedPrefix |-> prefix]

BatchInit == runBatchInScope /\ outcome = "building"

-----------------------------------------------------------------------------

nameOf(e) == IF e.call = FeePart THEN "" ELSE batch.calls[e.call].circuit
stagesOf(e) == batch.calls[e.call].stages
N == Len(batch.calls)

\* matched by the number each call was built with; not when the numbers do not fit the calls
byIdsFits ==
    /\ Len(batch.ids) = N /\ Cardinality({batch.ids[i] : i \in 1..Len(batch.ids)}) = N
    /\ \A i \in 1..N : \E e \in Range(batch.merged) : e.seg = batch.ids[i] /\ nameOf(e) = batch.calls[i].circuit
pickBySegmentIds == [i \in 1..N |-> CHOOSE e \in Range(batch.merged) : e.seg = batch.ids[i]]

\* otherwise the segments of a circuit are taken in the order they came
OfCircuit(c) == SelectSeq(batch.merged, LAMBDA e : nameOf(e) = c)
Turn(i) == Cardinality({j \in 1..i : batch.calls[j].circuit = batch.calls[i].circuit})
byCircuitFits == \A i \in 1..N : Len(OfCircuit(batch.calls[i].circuit)) >= Turn(i)
pickByCircuit == [i \in 1..N |-> OfCircuit(batch.calls[i].circuit)[Turn(i)]]

picked == IF byIdsFits THEN pickBySegmentIds ELSE pickByCircuit

\* calls that do not depend on each other: those after the prefix with a fallible part go last
rank(i) == IF i <= batch.orderedPrefix THEN 0 ELSE IF "f" \in stagesOf(picked[i]) THEN 2 ELSE 1
grouped ==
    IF ~batch.independentCalls THEN picked
    ELSE LET order == SetToSortSeq(1..N, LAMBDA i, j : rank(i) < rank(j) \/ (rank(i) = rank(j) /\ i < j))
         IN  [i \in 1..N |-> picked[order[i]]]

\* Mutant: the calls keep the numbers they were built with.
keepSegments == [i \in 1..N |-> [seg |-> grouped[i].seg, call |-> grouped[i].call]]

\* the calls take over the numbers they already have, in ascending order
orderBatchSegments ==
    LET idsAsc == SetToSortSeq({picked[i].seg : i \in 1..N}, <)
    IN  [i \in 1..N |-> [seg |-> idsAsc[i], call |-> grouped[i].call]]
ordersAll == Len(batch.merged) >= 2 /\ (byIdsFits \/ byCircuitFits)

\* a fallible part before a later call's guaranteed part
findCausalityViolation ==
    LET calls == SetToSortSeq(Range(orderBatchSegments), LAMBDA a, b : a.seg < b.seg)
    IN  \E i, j \in DOMAIN calls : i < j /\ "f" \in stagesOf(calls[i]) /\ "g" \in stagesOf(calls[j])

withOrderedBatchSegments ==
    /\ outcome = "building"
    /\ \/ ~ordersAll /\ outcome' = "mismatch" /\ UNCHANGED batch
       \/ ordersAll /\ findCausalityViolation /\ outcome' = "causality" /\ UNCHANGED batch
       \/ ordersAll /\ ~findCausalityViolation /\ outcome' = "proved"
          /\ batch' = [batch EXCEPT !.merged = SelectSeq(@, LAMBDA e : e.seg \notin {picked[i].seg : i \in 1..N}) \o orderBatchSegments]

BatchNext == withOrderedBatchSegments
BatchSpec == BatchInit /\ [][BatchNext]_batchVars

-----------------------------------------------------------------------------
(* Properties.                                                             *)

\* What the ledger does with a proved batch: the calls by ascending segment number.
Applied == SelectSeq(SetToSortSeq(Range(batch.merged), LAMBDA a, b : a.seg < b.seg), LAMBDA e : e.call # FeePart)

\* A batch that is proved applies every call once, none behind a fallible part its guaranteed part
\* depends on; in call order when the calls depend on each other and their numbers are known, else with
\* the circuits in call order; and the ordered prefix of independent calls stays in front, in order.
BatchAppliesInOrder ==
    outcome = "proved" =>
        LET order == [i \in 1..Len(Applied) |-> Applied[i].call]
            kept == IF batch.independentCalls THEN batch.orderedPrefix ELSE N
        IN  /\ ToSet(order) = 1..N /\ Len(order) = N
            /\ \A i, j \in 1..N : i < j /\ "f" \in batch.calls[order[i]].stages => "g" \notin batch.calls[order[j]].stages
            /\ \A i \in 1..kept : batch.calls[order[i]].circuit = batch.calls[i].circuit
            /\ batch.ids # <<>> => \A i \in 1..kept : order[i] = i

=============================================================================
