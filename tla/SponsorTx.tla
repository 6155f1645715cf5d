------------------------------ MODULE SponsorTx ------------------------------
(***************************************************************************)
(* The checks of a caller's transaction before a sponsor pays its fee      *)
(* (midnight/worker/sponsor.ts). They run on the bytes: nothing the caller *)
(* declares is believed. p is the effective policy; in its lists of        *)
(* contracts and circuits empty means "all", in lists of token types it    *)
(* means "none".                                                           *)
(*                                                                         *)
(* A transaction is [kind, actions, offers, uoffers, intake, dust, inputs]:*)
(*   actions   contract actions [kind, address, circuit, mints, claims]:   *)
(*             what the call mints per shielded type, and the payouts it   *)
(*             claims, [to, amount], in NIGHT;                             *)
(*   offers    shielded offers [deltas, coins]: inputs minus outputs for   *)
(*             each token type with an entry, owners of contract coins;    *)
(*   uoffers   unshielded offers [inputs, outputs] of NIGHT, sequences of  *)
(*             [owner, value], next to the actions;                        *)
(*   intake    NIGHT the called circuits take in;                          *)
(*   dust      it carries dust actions;                                    *)
(*   inputs    shielded inputs, and declared the type a transfer declares. *)
(***************************************************************************)
EXTENDS Integers, Sequences, FiniteSets, SequencesExt

CONSTANTS
    TokenTypes,  \* shielded token types, NIGHT not among them
    MaxTxDeploys, \* deploys in one sponsored transaction (1)
    MaxInputs,   \* NIGHTGATE_SPONSOR_SWAP_MAX_INPUTS
    Owners,      \* owners of unshielded outputs: contracts and user addresses
    SponsorKey   \* owner of the sponsor's own UTXOs

Night == "night"

SumOf(f(_), s) == FoldLeft(LAMBDA sum, x : sum + f(x), 0, s)

-----------------------------------------------------------------------------
(* Calls and deploys.                                                      *)

contractSponsorable(p, address) == p.contracts = {} \/ address \in p.contracts \cup p.own

circuitSponsorable(p, address, circuit) ==
    IF address \in DOMAIN p.rules
    THEN circuit \in p.rules[address]
    ELSE p.circuits = {} \/ circuit \in p.circuits

callSponsorable(p, address, circuit) ==
    /\ p.contracts = {} \/ address \in p.contracts
    /\ address \in p.own \/ circuitSponsorable(p, address, circuit)

\* a maintenance update is never sponsored
actionSponsorable(p, action) ==
    \/ action.kind = "call" /\ callSponsorable(p, action.address, action.circuit)
    \/ action.kind = "deploy" /\ "deploy" \in p.flags

-----------------------------------------------------------------------------
(* Shielded value.                                                         *)

\* what calls on sponsorable contracts mint; their proofs cover it
declaredMints(p, actions) ==
    LET Minted(t, a) == IF contractSponsorable(p, a.address) THEN a.mints[t] ELSE 0
    IN  [t \in TokenTypes |-> IF p.mints THEN SumOf(LAMBDA a : Minted(t, a), actions) ELSE 0]

\* Mutant: an offer does not use up the mints it takes.
checkOfferAlone(p, offer, mints) ==
    LET entries == DOMAIN offer.deltas
        FromMint(t) == t # Night /\ t \notin p.tokens
    IN  [ok |-> /\ entries = {} => offer.coins # {}
                /\ Night \notin entries
                /\ \A t \in entries : FromMint(t) => mints[t] > 0 /\ -offer.deltas[t] \in 1..mints[t]
                /\ \A c \in offer.coins : contractSponsorable(p, c),
         left |-> mints]

\* one offer against what is left of the mints: may it pass, and what is left after it
checkOfferTokens(p, offer, mints) ==
    LET entries == DOMAIN offer.deltas
        FromMint(t) == t # Night /\ t \notin p.tokens
        Taken(t) == -offer.deltas[t]
    IN  [ok |-> /\ entries = {} => offer.coins # {}
                /\ Night \notin entries
                /\ \A t \in entries : FromMint(t) => mints[t] > 0 /\ Taken(t) \in 1..mints[t]
                /\ \A c \in offer.coins : contractSponsorable(p, c),
         left |-> [t \in TokenTypes |->
                     IF t \in entries /\ FromMint(t) THEN mints[t] - Taken(t) ELSE mints[t]]]

\* the offers of a transaction use up one budget of mints
offersSponsorable(p, tx) ==
    LET mints == declaredMints(p, tx.actions)
        Step(acc, o) == LET r == checkOfferTokens(p, o, acc.left)
                        IN  [ok |-> acc.ok /\ r.ok, left |-> r.left]
    IN  /\ tx.offers # <<>> => p.tokens # {} \/ \E t \in TokenTypes : mints[t] > 0
        /\ FoldLeft(Step, [ok |-> TRUE, left |-> mints], tx.offers).ok

-----------------------------------------------------------------------------
(* Unshielded value.                                                       *)

\* payouts the called contracts' results require, per recipient
claimedPayouts(tx, to) ==
    SumOf(LAMBDA a : SumOf(LAMBDA c : IF c.to = to THEN c.amount ELSE 0, a.claims),
          SelectSeq(tx.actions, LAMBDA a : a.kind = "call"))

\* the ledger's balance of the segment: spent, plus what calls pay out, minus created, minus
\* what the called circuits take in
ledgerImbalance(tx, offer) ==
    LET Value(x) == x.value
        Claims(a) == SumOf(LAMBDA c : c.amount, a.claims)
    IN  SumOf(Value, offer.inputs) + SumOf(Claims, tx.actions) - SumOf(Value, offer.outputs) - tx.intake

\* the outputs in order: a claimed payout is used up, the rest is the caller's own money
spendOutputs(offer, claimed) ==
    LET Step(acc, o) ==
            IF acc.claimed[o.owner] >= o.value
            THEN [acc EXCEPT !.claimed[o.owner] = @ - o.value, !.payouts = @ + 1]
            ELSE [acc EXCEPT !.net = @ - o.value, !.paid = @ \cup {o.owner}]
    IN  FoldLeft(Step, [claimed |-> claimed, payouts |-> 0, paid |-> {},
                        net |-> SumOf(LAMBDA x : x.value, offer.inputs)], offer.outputs)

\* one offer against what is left of the claimed payouts: may it pass, and what is left after it
checkUnshieldedOffer(p, tx, offer, claimed) ==
    LET called == {a.address : a \in {x \in ToSet(tx.actions) : x.kind = "call"}}
        spenders == {x.owner : x \in ToSet(offer.inputs)}
        spent == spendOutputs(offer, claimed)
    IN  [ok |-> /\ SponsorKey \notin spenders
                /\ spent.paid \subseteq called \cup p.contracts \cup p.own \cup spenders
                /\ offer.inputs # <<>> \/ spent.payouts > 0
                /\ spent.net >= 0
                /\ ledgerImbalance(tx, offer) = 0
                /\ spent.net > 0 => Cardinality(called) = 1,
         left |-> spent.claimed]

unshieldedSponsorable(p, tx) ==
    LET claimed == [o \in Owners |-> claimedPayouts(tx, o)]
        Step(acc, o) == LET r == checkUnshieldedOffer(p, tx, o, acc.left)
                        IN  [ok |-> acc.ok /\ r.ok, left |-> r.left]
    IN  /\ tx.uoffers # <<>> => /\ "unshielded" \in p.flags
                                /\ \E a \in ToSet(tx.actions) : a.kind = "call"
        /\ FoldLeft(Step, [ok |-> TRUE, left |-> claimed], tx.uoffers).ok

-----------------------------------------------------------------------------
(* The three kinds of transactions.                                        *)

checkSponsorableShape(p, tx) ==
    /\ offersSponsorable(p, tx)
    /\ ~tx.dust
    /\ \A a \in ToSet(tx.actions) : actionSponsorable(p, a)
    /\ Cardinality({i \in DOMAIN tx.actions : tx.actions[i].kind = "deploy"}) <= MaxTxDeploys
    /\ unshieldedSponsorable(p, tx)
    /\ tx.actions # <<>>

\* an offer and nothing else; coins carry no readable type, so only counts and deltas are checked
plainShieldedOffer(tx) ==
    /\ tx.actions = <<>> /\ tx.uoffers = <<>> /\ ~tx.dust
    /\ Len(tx.offers) = 1 /\ tx.offers[1].coins = {}
    /\ tx.inputs \in 1..MaxInputs

\* a half gives one token type and wants another
swapHalfTerms(p, half) ==
    LET d == half.offers[1].deltas
        gives == {t \in DOMAIN d : d[t] > 0}
        wants == {t \in DOMAIN d : d[t] < 0}
    IN  /\ plainShieldedOffer(half)
        /\ \A t \in DOMAIN d : d[t] # 0 /\ t # Night /\ t \in p.tokens
        /\ Cardinality(gives) = 1 /\ Cardinality(wants) = 1

\* exact mirror images, so the merged transaction balances and the sponsor adds only the fee
checkSwapHalves(p, maker, taker) ==
    /\ p.tokens # {} /\ swapHalfTerms(p, maker) /\ swapHalfTerms(p, taker)
    /\ LET m == maker.offers[1].deltas
           t == taker.offers[1].deltas
       IN  DOMAIN m = DOMAIN t /\ \A x \in DOMAIN m : m[x] = -t[x]

\* the declared type is listed; the offer itself nets to zero
checkTransferShape(p, tx) ==
    /\ tx.declared \in p.tokens /\ tx.declared # Night
    /\ plainShieldedOffer(tx) /\ DOMAIN tx.offers[1].deltas = {}

\* what the worker decides about one request: policy p, transaction tx, for a swap the other half
sponsorable(p, tx, half) ==
    CASE tx.kind = "transfer" -> "transfers" \in p.flags /\ checkTransferShape(p, tx)
      [] tx.kind = "swap"     -> "swaps" \in p.flags /\ checkSwapHalves(p, tx, half)
      [] OTHER                -> checkSponsorableShape(p, tx)

=============================================================================
