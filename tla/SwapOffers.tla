------------------------------ MODULE SwapOffers ------------------------------
(***************************************************************************)
(* The board of swap offers (submission/swap-offers.ts and its actions)    *)
(* and the sponsor jobs that spend the coins of an offer: a swap that      *)
(* names the offer or carries its half, and a transfer of the poster. The  *)
(* chain accepts a coin's nullifier once. What landed is written to the    *)
(* board by the executor, or after a restart by the reconciliation of the  *)
(* job, and that write may fail.                                           *)
(*                                                                         *)
(* A call is one step between two awaits of the database.                  *)
(***************************************************************************)
EXTENDS Integers, FiniteSets

CONSTANTS
    Offers,       \* offers that may be posted
    CoinsOf,      \* [Offers -> set of nullifiers]
    ExpiryOf,     \* [Offers -> expiresAt], 0 for none
    Directed,     \* offers with a taker secret
    Jobs,         \* sponsor jobs
    CoinOf,       \* [Jobs -> nullifier of the caller's own coin]
    Callers,      \* retireSwapOffer calls
    MaxClock,     \* bound: the clock
    MaxRestarts   \* bound: restarts of the server

VARIABLES
    row,      \* SwapOffers: status and filledTxHash of each offer, the landed job or None
    spent,    \* nullifiers on chain, with the job that spent each
    job,      \* each sponsor job: step, offer it names, coins it spends, offers found to close
    caller,   \* each retireSwapOffer call: step, offer, whether the row read was open, answer
    clock, restarts

offerVars == <<row, spent, job, caller, clock, restarts>>

None == "none"
Coins == (UNION {CoinsOf[o] : o \in Offers}) \cup {CoinOf[j] : j \in Jobs}
Statuses == {"unposted", "open", "filled", "retired", "expired"}
NewJob == [step |-> "new", offer |-> None, coins |-> {}, hit |-> {}]
NewCall == [step |-> "new", offer |-> None, status |-> None, answer |-> None]

OfferTypeOK ==
    /\ row \in [Offers -> [status : Statuses, tx : Jobs \cup {None}]]
    /\ spent \in [Coins -> Jobs \cup {None}]
    /\ \A j \in Jobs : /\ job[j].step \in {"new", "loading", "queued", "landed", "matching", "closing", "ended", "refused"}
                       /\ job[j].coins \subseteq Coins /\ job[j].hit \subseteq Offers
    /\ \A c \in Callers : caller[c].answer \in Statuses \cup {None}
    /\ clock \in 1..MaxClock /\ restarts \in 0..MaxRestarts

OfferInit ==
    /\ row = [o \in Offers |-> [status |-> "unposted", tx |-> None]]
    /\ spent = [n \in Coins |-> None]
    /\ job = [j \in Jobs |-> NewJob]
    /\ caller = [c \in Callers |-> NewCall]
    /\ clock = 1 /\ restarts = 0

------------------------------------------------------------------------------
(* The board.                                                               *)

Passed(o) == ExpiryOf[o] # 0 /\ ExpiryOf[o] <= clock

effectiveSwapOfferStatus(o) == IF row[o].status = "open" /\ Passed(o) THEN "expired" ELSE row[o].status

isSwapOfferOpen(o, status) == status = "open" /\ ~Passed(o)

\* Mutant: the update does not ask for an open offer.
closeAnyOffer(o, status, tx) == [row EXCEPT ![o] = [status |-> status, tx |-> tx]]

\* UPDATE ... where status = 'open': nothing happens to an offer that is closed
closeSwapOffer(o, status, tx) ==
    IF row[o].status = "open" THEN [row EXCEPT ![o] = [status |-> status, tx |-> tx]] ELSE row

\* an offer whose coins are spent may be posted: the half is only described
postSwapOffer(o) ==
    /\ row[o].status = "unposted"
    /\ ExpiryOf[o] # 0 => ExpiryOf[o] > clock
    /\ row' = [row EXCEPT ![o].status = "open"]
    /\ UNCHANGED <<spent, job, caller, clock, restarts>>

\* the poster reads its offer
loadToRetire(c, o) ==
    /\ caller[c].step = "new" /\ row[o].status # "unposted"
    /\ caller' = [caller EXCEPT ![c] = [NewCall EXCEPT !.step = "loaded", !.offer = o, !.status = row[o].status]]
    /\ UNCHANGED <<row, spent, job, clock, restarts>>

\* closes it as the row read says, and answers at once unless the row was closed meanwhile
retireSwapOffer(c) ==
    LET o == caller[c].offer
        wanted == IF isSwapOfferOpen(o, caller[c].status) THEN "retired" ELSE "expired"
    IN  /\ caller[c].step = "loaded"
        /\ row' = closeSwapOffer(o, wanted, None)
        /\ caller' = [caller EXCEPT ![c].step = IF row[o].status = "open" THEN "closed" ELSE "reload"]
        /\ UNCHANGED <<spent, job, clock, restarts>>

\* isSwapOfferOpen is asked again for the answer, after the await of the write
answerRetired(c) ==
    LET o == caller[c].offer IN
    /\ caller[c].step \in {"closed", "reload"}
    /\ caller' = [caller EXCEPT ![c].step = "answered",
                  ![c].answer = IF caller[c].step = "reload" THEN effectiveSwapOfferStatus(o)
                                ELSE IF isSwapOfferOpen(o, caller[c].status) THEN "retired" ELSE "expired"]
    /\ UNCHANGED <<row, spent, job, clock, restarts>>

------------------------------------------------------------------------------
(* Sponsor jobs.                                                            *)

\* expireSwapOffers, the only place besides retireSwapOffer that saves the expiry
expireSwapOffers(j, o) ==
    /\ job[j].step = "new"
    /\ row' = [p \in Offers |-> IF row[p].status = "open" /\ ExpiryOf[p] # 0 /\ ExpiryOf[p] < clock
                                THEN [row[p] EXCEPT !.status = "expired"] ELSE row[p]]
    /\ job' = [job EXCEPT ![j].step = "loading", ![j].offer = o]
    /\ UNCHANGED <<spent, caller, clock, restarts>>

\* a swap of a posted offer: refused when it is not open, or directed and the secret is not given
sponsorOffer(j) ==
    LET o == job[j].offer IN
    /\ job[j].step = "loading"
    /\ \/ /\ isSwapOfferOpen(o, row[o].status) => o \in Directed
          /\ job' = [job EXCEPT ![j].step = "refused"]
       \/ /\ isSwapOfferOpen(o, row[o].status)
          /\ job' = [job EXCEPT ![j].step = "queued", ![j].coins = CoinsOf[o] \cup {CoinOf[j]}]
    /\ UNCHANGED <<row, spent, caller, clock, restarts>>

\* a swap of two halves, or a transfer that spends a coin some offer reserved
sponsorHalves(j) ==
    /\ job[j].step = "new"
    /\ \E cs \in {{CoinOf[j]}} \cup {CoinsOf[o] \cup {CoinOf[j]} : o \in Offers} \cup {CoinsOf[o] : o \in Offers} :
          job' = [job EXCEPT ![j].step = "queued", ![j].coins = cs]
    /\ UNCHANGED <<row, spent, caller, clock, restarts>>

\* the chain takes the transaction, also of an offer that was withdrawn or expired meanwhile
land(j) ==
    /\ job[j].step = "queued"
    /\ \A n \in job[j].coins : spent[n] = None
    /\ spent' = [n \in Coins |-> IF n \in job[j].coins THEN j ELSE spent[n]]
    /\ job' = [job EXCEPT ![j].step = "landed"]
    /\ UNCHANGED <<row, caller, clock, restarts>>

\* the node refuses it, or the job fails before it is sent
refuse(j) ==
    /\ job[j].step = "queued"
    /\ job' = [job EXCEPT ![j].step = "refused"]
    /\ UNCHANGED <<row, spent, caller, clock, restarts>>

\* closeSwapOffersOf, and the same calls after the commit of the reconciliation: the offer the job named
closeNamedOffer(j) ==
    /\ job[j].step = "landed"
    /\ row' = IF job[j].offer = None THEN row ELSE closeSwapOffer(job[j].offer, "filled", j)
    /\ job' = [job EXCEPT ![j].step = "matching"]
    /\ UNCHANGED <<spent, caller, clock, restarts>>

\* open offers that share a nullifier with the landed transaction
closeSwapOffersByNullifiers(j) ==
    /\ job[j].step = "matching"
    /\ job' = [job EXCEPT ![j].step = "closing",
                          ![j].hit = {o \in Offers : row[o].status = "open" /\ CoinsOf[o] \cap job[j].coins # {}}]
    /\ UNCHANGED <<row, spent, caller, clock, restarts>>

closeMatched(j) ==
    /\ job[j].step = "closing"
    /\ \/ \E o \in job[j].hit : row' = closeSwapOffer(o, "filled", j) /\ job' = [job EXCEPT ![j].hit = @ \ {o}]
       \/ job[j].hit = {} /\ row' = row /\ job' = [job EXCEPT ![j].step = "ended"]
    /\ UNCHANGED <<spent, caller, clock, restarts>>

\* a failed write of the board does not fail the job, and is not tried again
boardFails(j) ==
    /\ job[j].step \in {"landed", "matching", "closing"}
    /\ job' = [job EXCEPT ![j].step = "ended", ![j].hit = {}]
    /\ UNCHANGED <<row, spent, caller, clock, restarts>>

\* requests and calls end; a landed job is settled by the reconciliation unless it was already recorded
restart ==
    /\ restarts < MaxRestarts /\ restarts' = restarts + 1
    /\ \E lost \in SUBSET {j \in Jobs : job[j].step \in {"matching", "closing"}} :
          job' = [j \in Jobs |-> CASE j \in lost -> [job[j] EXCEPT !.step = "ended", !.hit = {}]
                                   [] job[j].step = "loading" -> [job[j] EXCEPT !.step = "refused"]
                                   [] job[j].step \in {"matching", "closing"} /\ j \notin lost
                                        -> [job[j] EXCEPT !.step = "landed", !.hit = {}]
                                   [] OTHER -> job[j]]
    /\ caller' = [c \in Callers |-> IF caller[c].step = "answered" THEN caller[c] ELSE NewCall]
    /\ UNCHANGED <<row, spent, clock>>

Tick ==
    /\ clock < MaxClock /\ clock' = clock + 1
    /\ UNCHANGED <<row, spent, job, caller, restarts>>

OfferNext ==
    \/ \E o \in Offers : postSwapOffer(o)
    \/ \E c \in Callers : (\E o \in Offers : loadToRetire(c, o)) \/ retireSwapOffer(c) \/ answerRetired(c)
    \/ \E j \in Jobs :
          \/ \E o \in Offers : row[o].status # "unposted" /\ expireSwapOffers(j, o)
          \/ sponsorOffer(j) \/ sponsorHalves(j) \/ land(j) \/ refuse(j)
          \/ closeNamedOffer(j) \/ closeSwapOffersByNullifiers(j) \/ closeMatched(j) \/ boardFails(j)
    \/ restart \/ Tick

OfferSpec == OfferInit /\ [][OfferNext]_offerVars

------------------------------------------------------------------------------
(* Properties.                                                              *)

\* The board never says filled of an offer whose coins are unspent, and the transaction it names
\* spent one of them: also when a landed swap, a transfer of the same coin, a withdrawal, the
\* expiry and a restart race (closeSwapOffer, closeSwapOffersByNullifiers).
FilledIsSpent ==
    \A o \in Offers : row[o].status = "filled" => \E n \in CoinsOf[o] : spent[n] # None /\ spent[n] = row[o].tx

\* A poster that is told its offer is filled or withdrawn finds the board saying so from then on,
\* and after any answer no taker gets the offer from the board (retireSwapOffer).
AnswerHolds ==
    \A c \in Callers : caller[c].step = "answered" =>
        /\ caller[c].answer \in {"filled", "retired"} => row[caller[c].offer].status = caller[c].answer
        /\ ~isSwapOfferOpen(caller[c].offer, row[caller[c].offer].status)

==============================================================================
