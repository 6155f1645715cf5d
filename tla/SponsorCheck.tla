----------------------------- MODULE SponsorCheck -----------------------------
(***************************************************************************)
(* One request of the worker's sponsoring endpoint: the checks of          *)
(* SponsorTx decide whether the sponsor pays. The property compares the    *)
(* decision with what an accepted transaction does with value.             *)
(***************************************************************************)
EXTENDS SponsorTx

CONSTANTS
    Policies,      \* effective policies
    Transactions,  \* transactions of callers
    Halves         \* second halves of swaps

VARIABLES
    request,  \* the policy, the transaction and, of a swap, the other half
    verdict   \* "open", "sponsored" or "refused"

checkVars == <<request, verdict>>

CheckInit ==
    /\ \E p \in Policies, tx \in Transactions, h \in Halves : request = [policy |-> p, tx |-> tx, half |-> h]
    /\ verdict = "open"

\* sponsorFinalizedTx and sponsorUnboundTx up to the first wallet call
Decide ==
    /\ verdict = "open"
    /\ verdict' = IF sponsorable(request.policy, request.tx, request.half) THEN "sponsored" ELSE "refused"
    /\ UNCHANGED request

CheckNext == Decide

CheckSpec == CheckInit /\ [][CheckNext]_checkVars

-----------------------------------------------------------------------------

Created(tx, t) == SumOf(LAMBDA o : IF t \in DOMAIN o.deltas THEN -o.deltas[t] ELSE 0, tx.offers)

MintedBySponsored(p, tx, t) ==
    SumOf(LAMBDA a : IF p.contracts = {} \/ a.address \in p.contracts \cup p.own THEN a.mints[t] ELSE 0, tx.actions)

Received(tx, to) ==
    SumOf(LAMBDA o : SumOf(LAMBDA x : IF x.owner = to THEN x.value ELSE 0, o.outputs), tx.uoffers)

Spenders(tx) == UNION {{x.owner : x \in ToSet(o.inputs)} : o \in ToSet(tx.uoffers)}

Called(tx) == {a.address : a \in {x \in ToSet(tx.actions) : x.kind = "call"}}

\* A sponsor pays a fee and nothing else, whatever the caller's bytes hold (checkSponsorableShape,
\* checkOfferTokens, checkUnshieldedOffer, checkSwapHalves): over all offers together no unlisted
\* token type appears beyond what sponsored calls mint, no NIGHT reaches a third party beyond what
\* the called contracts pay out to it, the sponsor's own NIGHT stays, and two halves cancel out.
SponsoredMovesOnlyAllowedValue ==
    verdict = "sponsored" =>
        LET p == request.policy
            tx == request.tx
        IN  IF tx.kind = "swap"
            THEN \A t \in TokenTypes : Created(tx, t) + Created(request.half, t) = 0
            ELSE /\ \A t \in TokenTypes \ p.tokens : Created(tx, t) <= MintedBySponsored(p, tx, t)
                 /\ \A o \in ToSet(tx.offers) : Night \notin DOMAIN o.deltas
                 /\ \A to \in Owners \ (Called(tx) \cup p.contracts \cup p.own \cup Spenders(tx)) :
                       Received(tx, to) <= claimedPayouts(tx, to)
                 /\ SponsorKey \notin Spenders(tx)

=============================================================================
