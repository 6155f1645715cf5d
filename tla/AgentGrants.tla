------------------------------ MODULE AgentGrants ------------------------------
(***************************************************************************)
(* Agent grants (sessions/agent-grants.ts): one row of AgentGrants, the    *)
(* requests that present its token, the jobs they queue, and the issuer's  *)
(* calls. Every database statement outside a transaction is one step, so   *)
(* requests, refunds, edits, revocation and the change of the hour may     *)
(* come between the statements of a request.                               *)
(*                                                                         *)
(* A budget counts calls per UTC hour and per UTC day, a value budget      *)
(* counts the units a transfer moves per UTC day. A maximum of 0 stands    *)
(* for no limit; maxDeploys 0 for allowDeploy false. NoWindow stands for a *)
(* window that is null.                                                    *)
(***************************************************************************)
EXTENDS Integers, FiniteSets

CONSTANTS
    Requests,    \* requests with the grant's token
    Editors,     \* calls of updateAgentGrant
    Contracts,   \* contract addresses
    Terms,       \* what a grant may be created with: contracts, maxDeploys, max of each budget, until
    Lists,       \* lists of contracts an edit may give; {} stands for null, every contract
    Maxima,      \* values an edit may give a budget or maxDeploys
    HoursPerDay, \* 24 in the code
    MaxHour      \* bound: the clock, in hours

VARIABLES
    grant,   \* the row
    hour,    \* the clock
    request, \* requests: step, budget at hand, since when, what it read, units taken and given back
    edit,    \* calls of updateAgentGrant: step, the row read, the field given and its value
    top      \* largest value each maximum has had

grantVars == <<grant, hour, request, edit, top>>

NoWindow == -1
Counted == {"hour", "day"}
Budgets == Counted \cup {"value"}
Events == {"verify", "call", "deploy", "transfer"}
Window(b, t) == IF b = "hour" THEN t ELSE t \div HoursPerDay
Windows == 0..MaxHour

\* only a call names a contract
ContractsOf(event) == IF event = "call" THEN Contracts ELSE {CHOOSE c \in Contracts : TRUE}

Max2(a, b) == IF a > b THEN a ELSE b

GrantTypeOK ==
    /\ grant.active \in BOOLEAN /\ grant.token \in {1, 2} /\ grant.until \in Nat
    /\ grant.contracts \in Lists \cup {t.contracts : t \in Terms} /\ grant.deployed \subseteq Requests
    /\ grant.maxDeploys \in Nat /\ grant.deploysUsed \in Nat
    /\ \A b \in Budgets : grant.max[b] \in Nat /\ grant.used[b] \in Nat /\ grant.win[b] \in Windows \cup {NoWindow}
    /\ hour \in 0..MaxHour

NewRequest == [step |-> "new", event |-> "verify", contract |-> CHOOSE c \in Contracts : TRUE, budget |-> "hour",
               since |-> 0, w |-> 0, max |-> [b \in Counted |-> 0], win |-> [b \in Counted |-> NoWindow],
               took |-> [b \in Budgets |-> NoWindow], gave |-> [b \in Budgets |-> NoWindow],
               owed |-> {}, maxDeploys |-> 0]

newGrantRow(contracts, maxDeploys, max, until) ==
    [active |-> TRUE, token |-> 1, until |-> until, actions |-> Events \ {"verify"}, contracts |-> contracts,
     deployed |-> {}, maxDeploys |-> maxDeploys, deploysUsed |-> 0,
     max |-> max, used |-> [b \in Budgets |-> 0], win |-> [b \in Budgets |-> NoWindow]]

NoEdit(step) == [step |-> step, contracts |-> {}, maxDeploys |-> 0, value |-> 0, field |-> "none", hour |-> 0]

GrantInit ==
    /\ \E t \in Terms : grant = newGrantRow(t.contracts, t.maxDeploys, t.max, t.until)
    /\ hour = 0
    /\ request = [r \in Requests |-> NewRequest]
    /\ edit = [e \in Editors |-> NoEdit("new")]
    /\ top = [b \in Budgets \cup {"deploys"} |-> IF b = "deploys" THEN grant.maxDeploys ELSE grant.max[b]]

-----------------------------------------------------------------------------
(* A request: enforceAgentGrant.                                           *)

grantExpired == grant.until < hour

grantScopeViolation(event, c) == event = "call" /\ grant.contracts # {} /\ c \notin grant.contracts

currentGrantRow == grant.active /\ ~grantExpired

End(r, step) == request' = [request EXCEPT ![r] = [NewRequest EXCEPT !.step = step, !.took = request[r].took,
                                                                   !.gave = request[r].gave]]

\* the row is read by the token's hash; a call that is always allowed takes no budget
enforceAgentGrant(r, token, event, c) ==
    /\ request[r].step = "new"
    /\ IF /\ token = grant.token /\ currentGrantRow /\ event # "verify"
          /\ event \in grant.actions /\ ~grantScopeViolation(event, c)
       THEN request' = [request EXCEPT ![r].step = "budget", ![r].event = event, ![r].contract = c, ![r].since = hour,
                                       ![r].max = [b \in Counted |-> grant.max[b]],
                                       ![r].win = [b \in Counted |-> grant.win[b]]]
       ELSE End(r, "ended")
    /\ UNCHANGED <<grant, hour, edit, top>>

\* the hour is asked first, then the day, then the handler runs
NextBudget(r, took) ==
    request' = [request EXCEPT ![r] =
        IF @.budget = "hour"
        THEN [@ EXCEPT !.step = "budget", !.budget = "day", !.since = hour, !.w = 0, !.took = took]
        ELSE [NewRequest EXCEPT !.step = "run", !.event = request[r].event, !.contract = request[r].contract, !.took = took]]

Refuse(r, budgets) ==
    request' = [request EXCEPT ![r] = [NewRequest EXCEPT !.step = "refund", !.took = request[r].took,
                                        !.owed = {b \in budgets : request[r].took[b] # NoWindow}]]

Take(r, b, w) ==
    /\ grant' = [grant EXCEPT !.win[b] = w, !.used[b] = IF grant.win[b] = w THEN @ + 1 ELSE 1]
    /\ NextBudget(r, [request[r].took EXCEPT ![b] = w])

\* Mutant: the reset does not compare the window of the row with the one that was read.
resetAlways(r) ==
    /\ request[r].step = "budget"
    /\ LET b == request[r].budget
           w == Window(b, hour)
       IN  IF request[r].max[b] = 0
           THEN NextBudget(r, request[r].took) /\ UNCHANGED grant
           ELSE IF request[r].win[b] # w
           THEN /\ grant' = [grant EXCEPT !.win[b] = w, !.used[b] = 1]
                /\ NextBudget(r, [request[r].took EXCEPT ![b] = w])
           ELSE request' = [request EXCEPT ![r].step = "increment", ![r].w = w] /\ UNCHANGED grant
    /\ UNCHANGED <<hour, edit, top>>

\* consumeBudget, first statement: a new window resets the counter unless another request did;
\* the window is the one at the time the request came to this budget, or a later one
resetWindow(r) ==
    /\ request[r].step = "budget"
    /\ LET b == request[r].budget
       IN  \E t \in request[r].since..hour :
              LET w == Window(b, t)
              IN  IF request[r].max[b] = 0
                  THEN NextBudget(r, request[r].took) /\ UNCHANGED grant
                  ELSE IF request[r].win[b] # w /\ grant.win[b] = request[r].win[b]
                  THEN Take(r, b, w)
                  ELSE request' = [request EXCEPT ![r].step = "increment", ![r].w = w] /\ UNCHANGED grant
    /\ UNCHANGED <<hour, edit, top>>

\* consumeBudget, second statement; a refusal gives back what was taken
consumeBudget(r) ==
    /\ request[r].step = "increment"
    /\ LET b == request[r].budget
           w == request[r].w
       IN  IF grant.win[b] = w /\ grant.used[b] < request[r].max[b]
           THEN Take(r, b, w)
           ELSE Refuse(r, Counted) /\ UNCHANGED grant
    /\ UNCHANGED <<hour, edit, top>>

\* the row as it is now, under a lock of the process; a transfer moves one unit
consumeValueBudget(r) ==
    /\ request[r].step = "run" /\ request[r].event = "transfer"
    /\ LET w == Window("value", hour)
           usedNow == IF grant.win["value"] = w THEN grant.used["value"] ELSE 0
       IN  IF ~currentGrantRow \/ grant.max["value"] = 0
           THEN request' = [request EXCEPT ![r].step = "ready"] /\ UNCHANGED grant
           ELSE IF usedNow + 1 > grant.max["value"]
           THEN Refuse(r, Counted) /\ UNCHANGED grant
           ELSE /\ grant' = [grant EXCEPT !.win["value"] = w, !.used["value"] = usedNow + 1]
                /\ request' = [request EXCEPT ![r].step = "ready", ![r].took["value"] = w]
    /\ UNCHANGED <<hour, edit, top>>

ReadyToEnd(r) == request[r].step = "ready" \/ (request[r].step = "run" /\ request[r].event # "transfer")

\* the handler queued a job
Accept(r) ==
    /\ ReadyToEnd(r)
    /\ request' = [request EXCEPT ![r] = [NewRequest EXCEPT !.step = "queued", !.event = request[r].event,
                                           !.contract = request[r].contract, !.took = request[r].took]]
    /\ UNCHANGED <<grant, hour, edit, top>>

\* refundOnClientError: it ended with a 4xx, or with a 5xx, which keeps the units
Fail(r) ==
    /\ ReadyToEnd(r)
    /\ Refuse(r, Budgets) \/ End(r, "ended")
    /\ UNCHANGED <<grant, hour, edit, top>>

\* one unit is given back, in the window of this moment; each budget's statement runs by itself
refundBudget(r, b) ==
    /\ request[r].step = "refund" /\ b \in request[r].owed
    /\ LET w == Window(b, hour)
           given == /\ grant.win[b] = w /\ grant.used[b] > 0
                    /\ b = "value" => currentGrantRow
       IN  /\ grant' = IF given THEN [grant EXCEPT !.used[b] = @ - 1] ELSE grant
           /\ request' = [request EXCEPT ![r].owed = @ \ {b}, ![r].gave[b] = IF given THEN w ELSE @]
    /\ UNCHANGED <<hour, edit, top>>

Refunded(r) ==
    /\ request[r].step = "refund" /\ request[r].owed = {}
    /\ End(r, "ended")
    /\ UNCHANGED <<grant, hour, edit, top>>

-----------------------------------------------------------------------------
(* The job it queued.                                                      *)

\* grantJobScopeViolation, liveSponsorPolicyForJob: the row is read again when the job runs
grantJobScopeViolation(r) == request[r].event \notin grant.actions \/ grantScopeViolation(request[r].event, request[r].contract)

RunJob(r) ==
    /\ request[r].step = "queued"
    /\ IF currentGrantRow /\ ~grantJobScopeViolation(r) /\ request[r].event = "deploy" /\ grant.maxDeploys > 0
       THEN request' = [request EXCEPT ![r].step = "reserve", ![r].maxDeploys = grant.maxDeploys]
       ELSE End(r, "ended")
    /\ UNCHANGED <<grant, hour, edit, top>>

\* the statement of reserveDeployBudget, after the row was read in the same transaction
reserveDeployBudget(r) ==
    /\ request[r].step = "reserve"
    /\ IF grant.active /\ grant.maxDeploys > 0 /\ grant.deploysUsed <= request[r].maxDeploys - 1
       THEN /\ grant' = [grant EXCEPT !.deploysUsed = @ + 1]
            /\ request' = [request EXCEPT ![r].step = "sent"]
       ELSE End(r, "ended") /\ UNCHANGED grant
    /\ UNCHANGED <<hour, edit, top>>

\* the deploy landed: later calls of the contract are sponsored too
recordDeployedContracts(r) ==
    /\ request[r].step = "sent"
    /\ grant' = [grant EXCEPT !.deployed = @ \cup {r}]
    /\ request' = [request EXCEPT ![r].step = "landed"]
    /\ UNCHANGED <<hour, edit, top>>

\* it was rejected before inclusion
releaseDeployBudget(r) ==
    /\ request[r].step = "sent"
    /\ grant' = [grant EXCEPT !.deploysUsed = IF @ >= 1 THEN @ - 1 ELSE @]
    /\ End(r, "ended")
    /\ UNCHANGED <<hour, edit, top>>

-----------------------------------------------------------------------------
(* The issuer.                                                             *)

\* the row is read and the parameters are checked against it
validateGrantShape(e) ==
    /\ edit[e].step = "new" /\ grant.active
    /\ LET read == [step |-> "write", contracts |-> grant.contracts, maxDeploys |-> grant.maxDeploys,
                    value |-> grant.max["value"], field |-> "none", hour |-> 0]
           coversUsed(n) == n = 0 \/ n >= grant.deploysUsed
       IN  \/ \E c \in Lists : /\ coversUsed(grant.maxDeploys)
                               /\ edit' = [edit EXCEPT ![e] = [read EXCEPT !.field = "contracts", !.contracts = c]]
           \/ \E n \in Maxima : /\ coversUsed(n)
                                /\ edit' = [edit EXCEPT ![e] = [read EXCEPT !.field = "maxDeploys", !.maxDeploys = n]]
           \/ \E n \in Maxima : /\ coversUsed(grant.maxDeploys)
                                /\ edit' = [edit EXCEPT ![e] = [read EXCEPT !.field = "hour", !.hour = n]]
    /\ UNCHANGED <<grant, hour, request, top>>

\* the lists, the deploy right and the value budget are written whether they were given or not, the
\* job budgets only when given; a revoked row is left alone
updateAgentGrant(e) ==
    /\ edit[e].step = "write"
    /\ LET x == edit[e]
       IN  IF grant.active
           THEN /\ grant' = [grant EXCEPT !.contracts = x.contracts, !.maxDeploys = x.maxDeploys, !.max["value"] = x.value,
                                          !.max["hour"] = IF x.field = "hour" THEN x.hour ELSE @]
                /\ top' = [b \in DOMAIN top |-> Max2(top[b], IF b = "deploys" THEN x.maxDeploys ELSE grant'.max[b])]
           ELSE UNCHANGED <<grant, top>>
    /\ edit' = [edit EXCEPT ![e] = NoEdit("done")]
    /\ UNCHANGED <<hour, request>>

revokeAgentGrant ==
    /\ grant.active
    /\ grant' = [grant EXCEPT !.active = FALSE]
    /\ UNCHANGED <<hour, request, edit, top>>

rotateAgentGrantToken ==
    /\ grant.active /\ grant.token = 1
    /\ grant' = [grant EXCEPT !.token = 2]
    /\ UNCHANGED <<hour, request, edit, top>>

NextHour ==
    /\ hour < MaxHour
    /\ hour' = hour + 1
    /\ UNCHANGED <<grant, request, edit, top>>

GrantNext ==
    \/ \E r \in Requests :
          \/ \E token \in {1, 2}, event \in Events : \E c \in ContractsOf(event) : enforceAgentGrant(r, token, event, c)
          \/ resetWindow(r) \/ consumeBudget(r) \/ consumeValueBudget(r) \/ Accept(r) \/ Fail(r)
          \/ \E b \in Budgets : refundBudget(r, b)
          \/ Refunded(r) \/ RunJob(r) \/ reserveDeployBudget(r) \/ recordDeployedContracts(r) \/ releaseDeployBudget(r)
    \/ \E e \in Editors : validateGrantShape(e) \/ updateAgentGrant(e)
    \/ revokeAgentGrant \/ rotateAgentGrantToken \/ NextHour

GrantSpec == GrantInit /\ [][GrantNext]_grantVars

-----------------------------------------------------------------------------
(* Properties.                                                             *)

Took(b, w) == {r \in Requests : request[r].took[b] = w}
Gave(b, w) == {r \in Requests : request[r].gave[b] = w}

\* Each counter is the number of units taken in its window less the units given back in it, however
\* resets, increments and refunds interleave (consumeBudget, refundBudget, consumeValueBudget).
CountersExact ==
    \A b \in Budgets :
        grant.win[b] # NoWindow =>
            grant.used[b] = Cardinality(Took(b, grant.win[b])) - Cardinality(Gave(b, grant.win[b]))

\* No hour or day admits more than its budget: of the requests that took a unit in a window, no more
\* than the largest budget keep it, apart from one for each unit that a request of an earlier window
\* gave back here. Deploys are reserved within the largest deploy budget. The counters stay exact.
BudgetsHold ==
    /\ CountersExact
    /\ \A b \in Budgets, w \in Windows :
          top[b] # 0 =>
             Cardinality(Took(b, w) \ Gave(b, w)) <= top[b] + Cardinality(Gave(b, w) \ Took(b, w))
    /\ grant.deploysUsed <= top["deploys"]
    /\ grant.deploysUsed = Cardinality({r \in Requests : request[r].step \in {"sent", "landed"}})

=============================================================================
