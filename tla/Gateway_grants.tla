---------------------------- MODULE Gateway_grants ----------------------------
(***************************************************************************)
(* The budgets of an agent grant and the rate limits, as MC_Gateway has    *)
(* them, for every size.                                                   *)
(*                                                                         *)
(* Grants: the inductive invariant (GInv) counts the units that requests   *)
(* have taken and given back: each was in the window the counter is in or  *)
(* in an earlier one, so in a window that a reset opens nobody has taken a *)
(* unit yet.                                                               *)
(* Limits: in the window under way the table agrees with what was granted, *)
(* a key that left it has no request there (TableAgrees); so what a check  *)
(* counts is what was granted, and a window that begins later holds less.  *)
(***************************************************************************)
EXTENDS MC_Gateway, FiniteSetTheorems, SequenceTheorems, TLAPS

-----------------------------------------------------------------------------
(* Agent grants.                                                           *)

GrantList == GrantLists \cup {t.contracts : t \in GrantTerms}

WindowOrNone == Grants!Windows \cup {Grants!NoWindow}

GrantRow ==
    [active : BOOLEAN, token : {1, 2}, until : Nat, actions : {Grants!Events \ {"verify"}}, contracts : GrantList, deployed : SUBSET GrantRequests,
     maxDeploys : Nat, deploysUsed : Nat, max : [Grants!Budgets -> Nat], used : [Grants!Budgets -> Nat],
     win : [Grants!Budgets -> WindowOrNone]]

GrantRequestRecord ==
    [step : {"new", "budget", "increment", "run", "ready", "refund", "queued", "reserve", "sent", "landed", "ended"},
     event : Grants!Events, contract : GrantContracts, budget : Grants!Counted, since : 0..GrantHours, w : Grants!Windows,
     max : [Grants!Counted -> Nat], win : [Grants!Counted -> WindowOrNone], took : [Grants!Budgets -> WindowOrNone],
     gave : [Grants!Budgets -> WindowOrNone], owed : SUBSET Grants!Budgets, maxDeploys : Nat]

EditRecord == [step : {"new", "write", "done"}, contracts : GrantList \cup {{}}, maxDeploys : Nat, value : Nat,
               field : {"none", "contracts", "maxDeploys", "hour"}, hour : Nat]

GrantShape == /\ grant \in GrantRow /\ hour \in 0..GrantHours
              /\ grantRequest \in [GrantRequests -> GrantRequestRecord]
              /\ edit \in [GrantEditors -> EditRecord] /\ \A e \in GrantEditors : edit[e].step = "write" => edit[e].contracts \in GrantList
              /\ top \in [Grants!Budgets \cup {"deploys"} -> Nat]

\* What the row allows was allowed before, and no window lies in the future.
RowFits == /\ grant.maxDeploys <= top["deploys"] /\ grant.deploysUsed <= top["deploys"]
           /\ \A b \in Grants!Budgets : grant.max[b] <= top[b] /\ grant.win[b] <= Grants!Window(b, hour)

\* A request takes one unit of each budget at most and gives it back once, in windows the counter came to;
\* the maxima and the windows it read are not newer than the time at which it asks.
AskKnows(r) ==
    LET q == grantRequest[r] IN
    /\ \A b \in Grants!Budgets : q.took[b] <= grant.win[b] /\ q.gave[b] <= grant.win[b]
    /\ q.step \notin {"refund", "ended"} => \A b \in Grants!Budgets : q.gave[b] = Grants!NoWindow
    /\ q.step \in {"new", "budget", "increment", "run"} => q.took["value"] = Grants!NoWindow
    /\ q.step \in {"new", "budget", "increment"} =>
          q.took["day"] = Grants!NoWindow /\ (q.step = "new" \/ q.budget = "hour" => q.took["hour"] = Grants!NoWindow)
    /\ q.step \in {"budget", "increment"} =>
          q.since <= hour /\ \A b \in Grants!Counted : q.max[b] <= top[b] /\ q.win[b] <= Grants!Window(b, q.since)
    /\ q.step = "refund" => \A b \in q.owed : q.gave[b] = Grants!NoWindow
    /\ q.step = "reserve" => q.maxDeploys <= top["deploys"]

Deployed == {r \in GrantRequests : grantRequest[r].step \in {"sent", "landed"}}

\* The counters count, and no window ever admitted more than its budget.
CountsKept ==
    /\ Grants!CountersExact /\ grant.deploysUsed = Cardinality(Deployed)
    /\ \A b \in Grants!Budgets, w \in Grants!Windows : Cardinality(Grants!Took(b, w)) <= Cardinality(Grants!Gave(b, w)) + top[b]

GInv == GrantShape /\ RowFits /\ CountsKept /\ \A r \in GrantRequests : AskKnows(r)

\* Windows follow the clock.
LEMMA WindowFacts ==
    ASSUME NEW b \in Grants!Budgets, NEW t \in 0..GrantHours
    PROVE  /\ Grants!Window(b, t) \in Grants!Windows
           /\ \A s \in 0..t : Grants!Window(b, s) <= Grants!Window(b, t)
  <1>1. HoursPerDay \in Nat /\ HoursPerDay > 0 /\ GrantHours \in Nat /\ t \in Nat /\ t <= GrantHours
    BY GrantAssumption
  <1>2. \A x \in Nat : x \div HoursPerDay \in Nat /\ x \div HoursPerDay <= x
    BY <1>1
  <1>3. \A x \in 0..t : x \div HoursPerDay <= t \div HoursPerDay
    BY <1>1
  <1> QED
    BY <1>1, <1>2, <1>3 DEF Grants!Window, Grants!Windows

LEMMA CountFacts ==
    /\ \A S : Grants!Cardinality(S) = Cardinality(S)
    /\ \A b, w : IsFiniteSet(Grants!Took(b, w)) /\ IsFiniteSet(Grants!Gave(b, w))
    /\ \A b, w : Cardinality(Grants!Took(b, w)) \in Nat /\ Cardinality(Grants!Gave(b, w)) \in Nat
  <1>1. \A S : Grants!Cardinality(S) = Cardinality(S)
    BY DEF Grants!Cardinality, Cardinality
  <1>2. ASSUME NEW b, NEW w PROVE IsFiniteSet(Grants!Took(b, w)) /\ IsFiniteSet(Grants!Gave(b, w))
    <2>1. Grants!Took(b, w) \subseteq GrantRequests /\ Grants!Gave(b, w) \subseteq GrantRequests
      BY DEF Grants!Took, Grants!Gave
    <2> QED
      BY <2>1, GrantAssumption, FS_Subset
  <1> QED
    BY <1>1, <1>2, FS_CardinalityType

\* What time and the issuer's calls do to the row: windows, maxima and the clock only grow.
Grows == /\ hour <= hour' /\ \A b \in Grants!Budgets : grant.win[b] <= grant'.win[b]
         /\ \A b \in Grants!Budgets \cup {"deploys"} : top[b] <= top'[b]

\* A request whose record stays knows what it knew.
LEMMA AskStays ==
    ASSUME GInv, GrantShape', Grows, NEW r \in GrantRequests, grantRequest'[r] = grantRequest[r]
    PROVE  AskKnows(r)'
  <1> DEFINE q == grantRequest[r]
  <1>1. q \in GrantRequestRecord /\ AskKnows(r)
    BY DEF GInv, GrantShape
  <1>2. \A b \in Grants!Budgets : grant.win[b] \in Int /\ grant'.win[b] \in Int /\ q.took[b] \in Int /\ q.gave[b] \in Int
    BY <1>1 DEF GInv, GrantShape, GrantRow, GrantRequestRecord, WindowOrNone, Grants!Windows, Grants!NoWindow
  <1>3. \A b \in Grants!Budgets \cup {"deploys"} : top[b] \in Nat /\ top'[b] \in Nat
    BY DEF GInv, GrantShape
  <1>4. q.since \in Int /\ hour \in Int /\ hour' \in Int /\ q.maxDeploys \in Nat /\ \A b \in Grants!Counted : q.max[b] \in Nat
    BY <1>1 DEF GInv, GrantShape, GrantRequestRecord
  <1>5. \A b \in Grants!Budgets : q.took[b] <= grant'.win[b] /\ q.gave[b] <= grant'.win[b]
    BY <1>1, <1>2 DEF AskKnows, Grows
  <1>6. \A b \in Grants!Counted : q.max[b] <= top[b] => q.max[b] <= top'[b]
    BY <1>3, <1>4 DEF Grows, Grants!Budgets
  <1>7. q.since <= hour => q.since <= hour'
    BY <1>4 DEF Grows
  <1>8. q.maxDeploys <= top["deploys"] => q.maxDeploys <= top'["deploys"]
    BY <1>3, <1>4 DEF Grows
  <1> QED
    BY <1>1, <1>5, <1>6, <1>7, <1>8 DEF AskKnows

\* Steps in which nobody takes a unit or gives one back.
LEMMA CountsStay ==
    ASSUME GInv, GrantShape', Grows, grant'.win = grant.win, grant'.used = grant.used, grant'.deploysUsed = grant.deploysUsed,
           \A r \in GrantRequests : /\ grantRequest'[r].took = grantRequest[r].took /\ grantRequest'[r].gave = grantRequest[r].gave
                                    /\ grantRequest'[r].step \in {"sent", "landed"} <=> grantRequest[r].step \in {"sent", "landed"}
    PROVE  CountsKept'
  <1>1. \A b, w : Grants!Took(b, w)' = Grants!Took(b, w) /\ Grants!Gave(b, w)' = Grants!Gave(b, w)
    BY DEF Grants!Took, Grants!Gave
  <1>2. Deployed' = Deployed
    BY DEF Deployed
  <1>3. Grants!CountersExact'
    BY <1>1 DEF GInv, CountsKept, Grants!CountersExact
  <1>4. ASSUME NEW b \in Grants!Budgets, NEW w \in Grants!Windows
        PROVE  Cardinality(Grants!Took(b, w)) <= Cardinality(Grants!Gave(b, w)) + top'[b]
    <2>1. top[b] \in Nat /\ top'[b] \in Nat /\ top[b] <= top'[b]
      BY DEF GInv, GrantShape, Grows
    <2>2. Cardinality(Grants!Took(b, w)) <= Cardinality(Grants!Gave(b, w)) + top[b]
      BY DEF GInv, CountsKept
    <2> QED
      BY <2>1, <2>2, CountFacts
  <1> QED
    BY <1>1, <1>2, <1>3, <1>4 DEF GInv, CountsKept

\* A request takes one unit of b in window w: the counter's window, or a later one in which nobody took one.
LEMMA UnitTaken ==
    ASSUME GInv, GrantShape', Grows, NEW r \in GrantRequests, NEW b \in Grants!Budgets, NEW w \in Grants!Windows,
           grantRequest[r].took[b] = Grants!NoWindow, top' = top,
           \A s \in GrantRequests : \A c \in Grants!Budgets :
              /\ grantRequest'[s].took[c] = IF s = r /\ c = b THEN w ELSE grantRequest[s].took[c]
              /\ grantRequest'[s].gave[c] = grantRequest[s].gave[c],
           Deployed' = Deployed, grant'.deploysUsed = grant.deploysUsed,
           grant.win[b] <= w, IF grant.win[b] = w THEN grant.used[b] + 1 <= top[b] ELSE 1 <= top[b],
           \A c \in Grants!Budgets : /\ grant'.win[c] = IF c = b THEN w ELSE grant.win[c]
                                    /\ grant'.used[c] = IF c # b THEN grant.used[c] ELSE IF grant.win[b] = w THEN grant.used[b] + 1 ELSE 1
    PROVE  CountsKept'
  <1>1. w # Grants!NoWindow /\ w \in Int /\ grant.win[b] \in Int
    BY DEF GInv, GrantShape, GrantRow, WindowOrNone, Grants!Windows, Grants!NoWindow
  <1>2. \A c \in Grants!Budgets : \A v : Grants!Gave(c, v)' = Grants!Gave(c, v)
    BY DEF Grants!Gave
  <1>3. \A c \in Grants!Budgets, v \in Grants!Windows : c # b \/ v # w => Grants!Took(c, v)' = Grants!Took(c, v)
    <2> SUFFICES ASSUME NEW c \in Grants!Budgets, NEW v \in Grants!Windows, c # b \/ v # w
                 PROVE  \A s \in GrantRequests : grantRequest'[s].took[c] = v <=> grantRequest[s].took[c] = v
      BY DEF Grants!Took
    <2>1. v # Grants!NoWindow
      BY DEF Grants!Windows, Grants!NoWindow
    <2> QED
      BY <2>1
  <1>4. Grants!Took(b, w)' = Grants!Took(b, w) \cup {r} /\ r \notin Grants!Took(b, w)
    BY <1>1 DEF Grants!Took
  <1>5. Cardinality(Grants!Took(b, w)') = Cardinality(Grants!Took(b, w)) + 1
    BY <1>4, CountFacts, FS_AddElement
  <1>6. grant.win[b] = w => grant.used[b] = Cardinality(Grants!Took(b, w)) - Cardinality(Grants!Gave(b, w))
    BY <1>1, CountFacts DEF GInv, CountsKept, Grants!CountersExact
  <1>7. grant.win[b] # w => Grants!Took(b, w) = {} /\ Grants!Gave(b, w) = {}
    <2> SUFFICES ASSUME grant.win[b] # w, NEW s \in GrantRequests
                 PROVE  grantRequest[s].took[b] # w /\ grantRequest[s].gave[b] # w
      BY DEF Grants!Took, Grants!Gave
    <2>1. grantRequest[s].took[b] <= grant.win[b] /\ grantRequest[s].gave[b] <= grant.win[b]
      BY DEF GInv, AskKnows
    <2>2. grantRequest[s] \in GrantRequestRecord
      BY DEF GInv, GrantShape
    <2>3. grantRequest[s].took[b] \in Int /\ grantRequest[s].gave[b] \in Int
      BY <2>2 DEF GrantRequestRecord, WindowOrNone, Grants!Windows, Grants!NoWindow
    <2> QED
      BY <1>1, <2>1, <2>3
  <1>8. grant'.used[b] = Cardinality(Grants!Took(b, w)') - Cardinality(Grants!Gave(b, w))
    <2>1. CASE grant.win[b] = w
      BY <2>1, <1>5, <1>6, CountFacts
    <2>2. CASE grant.win[b] # w
      <3>1. Cardinality(Grants!Took(b, w)) = 0 /\ Cardinality(Grants!Gave(b, w)) = 0
        BY <2>2, <1>7, FS_EmptySet
      <3> QED
        BY <2>2, <1>5, <3>1
    <2> QED
      BY <2>1, <2>2
  <1>9. Cardinality(Grants!Took(b, w)') <= Cardinality(Grants!Gave(b, w)) + top[b]
    <2>1. grant'.used[b] <= top[b] /\ top[b] \in Nat /\ grant'.used[b] \in Int
      BY DEF GInv, GrantShape, GrantRow
    <2> QED
      BY <1>5, <1>8, <2>1, CountFacts
  <1>10. ASSUME NEW c \in Grants!Budgets, NEW v \in Grants!Windows, grant'.win[c] = v
         PROVE  grant'.used[c] = Cardinality(Grants!Took(c, v)') - Cardinality(Grants!Gave(c, v)')
    <2>1. CASE c = b
      BY <1>10, <2>1, <1>2, <1>8
    <2>2. CASE c # b
      <3>1. grant.used[c] = Cardinality(Grants!Took(c, v)) - Cardinality(Grants!Gave(c, v))
        <4>1. v # Grants!NoWindow /\ grant.win[c] = v
          BY <1>10, <2>2 DEF Grants!Windows, Grants!NoWindow
        <4> QED
          BY <4>1, CountFacts DEF GInv, CountsKept, Grants!CountersExact
      <3> QED
        BY <2>2, <1>2, <1>3, <3>1
    <2> QED
      BY <2>1, <2>2
  <1>12. Grants!CountersExact'
    <2>1. \A c \in Grants!Budgets : grant'.win[c] # Grants!NoWindow => grant'.win[c] \in Grants!Windows
      BY DEF GrantShape, GrantRow, WindowOrNone
    <2> QED
      BY <1>10, <2>1, CountFacts DEF Grants!CountersExact, Grants!Took, Grants!Gave
  <1>11. \A c \in Grants!Budgets, v \in Grants!Windows :
            Cardinality(Grants!Took(c, v)') <= Cardinality(Grants!Gave(c, v)') + top'[c]
    BY <1>2, <1>3, <1>9 DEF GInv, CountsKept
  <1> QED
    BY <1>12, <1>11 DEF GInv, CountsKept

\* A request gives back its unit of b in the counter's window.
LEMMA UnitGiven ==
    ASSUME GInv, GrantShape', NEW r \in GrantRequests, NEW b \in Grants!Budgets,
           grantRequest[r].gave[b] = Grants!NoWindow, top' = top, grant.win[b] # Grants!NoWindow, grant.used[b] > 0,
           \A s \in GrantRequests : \A c \in Grants!Budgets :
              /\ grantRequest'[s].took[c] = grantRequest[s].took[c]
              /\ grantRequest'[s].gave[c] = IF s = r /\ c = b THEN grant.win[b] ELSE grantRequest[s].gave[c],
           Deployed' = Deployed, grant'.deploysUsed = grant.deploysUsed, grant'.win = grant.win,
           \A c \in Grants!Budgets : grant'.used[c] = IF c = b THEN grant.used[b] - 1 ELSE grant.used[c]
    PROVE  CountsKept'
  <1> DEFINE w == grant.win[b]
  <1>1. w \in Grants!Windows
    BY DEF GInv, GrantShape, GrantRow, WindowOrNone
  <1>2. \A c \in Grants!Budgets : \A v : Grants!Took(c, v)' = Grants!Took(c, v)
    BY DEF Grants!Took
  <1>3. \A c \in Grants!Budgets, v \in Grants!Windows : c # b \/ v # w => Grants!Gave(c, v)' = Grants!Gave(c, v)
    <2> SUFFICES ASSUME NEW c \in Grants!Budgets, NEW v \in Grants!Windows, c # b \/ v # w
                 PROVE  \A s \in GrantRequests : grantRequest'[s].gave[c] = v <=> grantRequest[s].gave[c] = v
      BY DEF Grants!Gave
    <2>1. v # Grants!NoWindow
      BY DEF Grants!Windows, Grants!NoWindow
    <2> QED
      BY <2>1
  <1>4. Grants!Gave(b, w)' = Grants!Gave(b, w) \cup {r} /\ r \notin Grants!Gave(b, w)
    <2>1. \A s \in GrantRequests : grantRequest'[s].gave[b] = w <=> s = r \/ grantRequest[s].gave[b] = w
      OBVIOUS
    <2>2. Grants!Gave(b, w)' = {s \in GrantRequests : grantRequest'[s].gave[b] = w}
      BY DEF Grants!Gave
    <2> QED
      BY <2>1, <2>2 DEF Grants!Gave
  <1>5. Cardinality(Grants!Gave(b, w)') = Cardinality(Grants!Gave(b, w)) + 1
    BY <1>4, CountFacts, FS_AddElement
  <1>6. Grants!CountersExact'
    <2> SUFFICES ASSUME NEW c \in Grants!Budgets, grant.win[c] # Grants!NoWindow
                 PROVE  grant'.used[c] = Cardinality(Grants!Took(c, grant.win[c])') - Cardinality(Grants!Gave(c, grant.win[c])')
      BY CountFacts DEF Grants!CountersExact
    <2>1. grant.used[c] = Cardinality(Grants!Took(c, grant.win[c])) - Cardinality(Grants!Gave(c, grant.win[c]))
      BY CountFacts DEF GInv, CountsKept, Grants!CountersExact
    <2>2. CASE c = b
      BY <2>1, <2>2, <1>2, <1>5, CountFacts
    <2>3. CASE c # b
      <3>1. grant.win[c] \in Grants!Windows
        BY DEF GInv, GrantShape, GrantRow, WindowOrNone
      <3> QED
        BY <2>1, <2>3, <1>2, <1>3, <3>1
    <2> QED
      BY <2>2, <2>3
  <1>7. ASSUME NEW c \in Grants!Budgets, NEW v \in Grants!Windows
        PROVE  Cardinality(Grants!Took(c, v)') <= Cardinality(Grants!Gave(c, v)') + top'[c]
    <2>1. Cardinality(Grants!Took(c, v)) <= Cardinality(Grants!Gave(c, v)) + top[c] /\ top[c] \in Nat
      BY DEF GInv, CountsKept, GrantShape
    <2>2. Cardinality(Grants!Gave(c, v)) <= Cardinality(Grants!Gave(c, v)')
      BY <1>3, <1>5, CountFacts
    <2>3. Cardinality(Grants!Gave(c, v)') \in Nat
      BY <1>3, <1>5, CountFacts
    <2> QED
      BY <1>2, <2>1, <2>2, <2>3, CountFacts
  <1> QED
    BY <1>6, <1>7 DEF GInv, CountsKept

LEMMA NewAsk == Grants!NewRequest \in GrantRequestRecord
  <1>1. (CHOOSE c \in GrantContracts : TRUE) \in GrantContracts
    BY GrantAssumption
  <1>2. 0 \in Grants!Windows /\ 0 \in 0..GrantHours
    BY GrantAssumption DEF Grants!Windows
  <1> QED
    BY <1>1, <1>2 DEF Grants!NewRequest, GrantRequestRecord, Grants!Events, Grants!Counted, Grants!Budgets, WindowOrNone

\* The record of one request changes, and neither units nor the row.
LEMMA AskSet ==
    ASSUME GInv, NEW r \in GrantRequests, NEW n \in GrantRequestRecord, grantRequest' = [grantRequest EXCEPT ![r] = n],
           UNCHANGED <<grant, hour, edit, top>>, n.took = grantRequest[r].took, n.gave = grantRequest[r].gave,
           n.step \in {"sent", "landed"} <=> grantRequest[r].step \in {"sent", "landed"}, AskKnows(r)'
    PROVE  GInv'
  <1>1. \A s \in GrantRequests : grantRequest'[s] = IF s = r THEN n ELSE grantRequest[s]
    BY DEF GInv, GrantShape
  <1>2. GrantShape'
    BY DEF GInv, GrantShape
  <1>3. Grows
    BY DEF GInv, GrantShape, GrantRow, WindowOrNone, Grants!Windows, Grants!NoWindow, Grows
  <1>4. CountsKept'
    BY <1>1, <1>2, <1>3, CountsStay
  <1>5. \A s \in GrantRequests : AskKnows(s)'
    BY <1>1, <1>2, <1>3, AskStays
  <1>6. RowFits'
    BY DEF GInv, RowFits
  <1> QED
    BY <1>2, <1>4, <1>5, <1>6 DEF GInv

\* What the invariant says of one request.
LEMMA AskFacts ==
    ASSUME GInv, NEW r \in GrantRequests
    PROVE  /\ grantRequest[r] \in GrantRequestRecord /\ AskKnows(r) /\ grantRequest[r].took \in [Grants!Budgets -> WindowOrNone]
           /\ grantRequest[r].gave \in [Grants!Budgets -> WindowOrNone]
           /\ grantRequest[r].step \notin {"refund", "ended"} => grantRequest[r].gave = [b \in Grants!Budgets |-> Grants!NoWindow]
           /\ \A n : grantRequest' = [grantRequest EXCEPT ![r] = n] => grantRequest'[r] = n
  <1>1. grantRequest[r] \in GrantRequestRecord /\ AskKnows(r)
    BY DEF GInv, GrantShape
  <1>2. grantRequest[r].took \in [Grants!Budgets -> WindowOrNone] /\ grantRequest[r].gave \in [Grants!Budgets -> WindowOrNone]
    BY <1>1 DEF GrantRequestRecord
  <1>3. grantRequest[r].step \notin {"refund", "ended"} => grantRequest[r].gave = [b \in Grants!Budgets |-> Grants!NoWindow]
    BY <1>1, <1>2 DEF AskKnows
  <1> QED
    BY <1>1, <1>2, <1>3 DEF GInv, GrantShape

\* A request ends, or queues its job, with what it took and gave back.
LEMMA EndStep ==
    ASSUME GInv, NEW r \in GrantRequests, UNCHANGED <<grant, hour, edit, top>>, grantRequest[r].step \notin {"sent", "landed"},
           Grants!End(r, "ended")
    PROVE  GInv'
  <1> DEFINE n == [Grants!NewRequest EXCEPT !.step = "ended", !.took = grantRequest[r].took, !.gave = grantRequest[r].gave]
  <1>1. n \in GrantRequestRecord
    BY NewAsk, AskFacts DEF GrantRequestRecord
  <1>2. n.step = "ended" /\ n.took = grantRequest[r].took /\ n.gave = grantRequest[r].gave
    BY NewAsk DEF GrantRequestRecord
  <1>3. grantRequest' = [grantRequest EXCEPT ![r] = n]
    BY DEF Grants!End
  <1> HIDE DEF n
  <1>4. AskKnows(r)'
    BY <1>2, <1>3, AskFacts DEF AskKnows
  <1> QED
    BY <1>1, <1>2, <1>3, <1>4, AskSet

\* A refused request has to give back the units it took.
LEMMA RefuseStep ==
    ASSUME GInv, NEW r \in GrantRequests, NEW S \in SUBSET Grants!Budgets, UNCHANGED <<grant, hour, edit, top>>,
           grantRequest[r].step \in {"increment", "run", "ready"}, Grants!Refuse(r, S)
    PROVE  GInv'
  <1> DEFINE owed == {b \in S : grantRequest[r].took[b] # Grants!NoWindow}
             n == [Grants!NewRequest EXCEPT !.step = "refund", !.took = grantRequest[r].took, !.owed = owed]
  <1>1. n \in GrantRequestRecord
    BY NewAsk, AskFacts DEF GrantRequestRecord
  <1>2. n.step = "refund" /\ n.took = grantRequest[r].took /\ n.owed = owed /\ n.gave = [b \in Grants!Budgets |-> Grants!NoWindow]
    BY DEF Grants!NewRequest
  <1>3. grantRequest' = [grantRequest EXCEPT ![r] = n]
    BY DEF Grants!Refuse
  <1> HIDE DEF n
  <1>4. n.gave = grantRequest[r].gave
    BY <1>2, AskFacts
  <1>5. AskKnows(r)'
    BY <1>2, <1>3, <1>4, AskFacts DEF AskKnows
  <1> QED
    BY <1>1, <1>2, <1>3, <1>4, <1>5, AskSet

LEMMA GrantEnforce ==
    ASSUME GInv, NEW r \in GrantRequests, NEW token, NEW event \in Grants!Events, NEW c \in Grants!ContractsOf(event),
           Grants!enforceAgentGrant(r, token, event, c)
    PROVE  GInv'
  <1>1. CASE Grants!End(r, "ended")
    BY <1>1, EndStep DEF Grants!enforceAgentGrant
  <1>2. CASE ~Grants!End(r, "ended")
    <2> DEFINE q == grantRequest[r]
               n == [q EXCEPT !.step = "budget", !.event = event, !.contract = c, !.since = hour,
                              !.max = [b \in Grants!Counted |-> grant.max[b]], !.win = [b \in Grants!Counted |-> grant.win[b]]]
    <2>1. grantRequest' = [grantRequest EXCEPT ![r] = n] /\ UNCHANGED <<grant, hour, edit, top>> /\ q.step = "new"
      BY <1>2 DEF Grants!enforceAgentGrant
    <2>2. c \in GrantContracts
      BY GrantAssumption DEF Grants!ContractsOf
    <2>3. [b \in Grants!Counted |-> grant.max[b]] \in [Grants!Counted -> Nat]
          /\ [b \in Grants!Counted |-> grant.win[b]] \in [Grants!Counted -> WindowOrNone]
      BY DEF GInv, GrantShape, GrantRow, Grants!Budgets
    <2>4. n \in GrantRequestRecord /\ n.took = q.took /\ n.gave = q.gave /\ n.step = "budget" /\ n.since = hour
          /\ \A b \in Grants!Counted : n.max[b] = grant.max[b] /\ n.win[b] = grant.win[b]
      <3> DEFINE mx == [b \in Grants!Counted |-> grant.max[b]]
                 wn == [b \in Grants!Counted |-> grant.win[b]]
      <3>1. q \in GrantRequestRecord
        BY AskFacts
      <3>2. hour \in 0..GrantHours
        BY DEF GInv, GrantShape
      <3>3. mx \in [Grants!Counted -> Nat] /\ wn \in [Grants!Counted -> WindowOrNone]
        BY <2>3
      <3>4. n = [q EXCEPT !.step = "budget", !.event = event, !.contract = c, !.since = hour, !.max = mx, !.win = wn]
        OBVIOUS
      <3>5. \A b \in Grants!Counted : mx[b] = grant.max[b] /\ wn[b] = grant.win[b]
        OBVIOUS
      <3> HIDE DEF n, q, mx, wn
      <3>6. n \in GrantRequestRecord /\ n.took = q.took /\ n.gave = q.gave /\ n.step = "budget" /\ n.since = hour
            /\ n.max = mx /\ n.win = wn
        BY <2>2, <3>1, <3>2, <3>3, <3>4 DEF GrantRequestRecord
      <3> QED
        BY <3>5, <3>6
    <2> HIDE DEF n
    <2>5. hour <= hour /\ \A b \in Grants!Counted : grant.max[b] <= top[b] /\ grant.win[b] <= Grants!Window(b, hour)
      BY DEF GInv, GrantShape, RowFits, Grants!Budgets
    <2>6. AskKnows(r)'
      BY <2>1, <2>4, <2>5, AskFacts DEF AskKnows
    <2> QED
      BY <2>1, <2>4, <2>6, AskSet
  <1> QED
    BY <1>1, <1>2

\* Where a request goes after it asked for a budget.
NextAsk(q, took) ==
    IF q.budget = "hour"
    THEN [q EXCEPT !.step = "budget", !.budget = "day", !.since = hour, !.w = 0, !.took = took]
    ELSE [Grants!NewRequest EXCEPT !.step = "run", !.event = q.event, !.contract = q.contract, !.took = took]

LEMMA NextAskFacts ==
    ASSUME GInv, NEW r \in GrantRequests, NEW took \in [Grants!Budgets -> WindowOrNone],
           grantRequest[r].step \in {"budget", "increment"}
    PROVE  LET q == grantRequest[r]
               n == NextAsk(q, took)
           IN  /\ n \in GrantRequestRecord /\ n.took = took /\ n.gave = q.gave
               /\ q.budget = "hour" => n.step = "budget" /\ n.budget = "day" /\ n.since = hour /\ n.max = q.max /\ n.win = q.win
               /\ q.budget # "hour" => n.step = "run"
               /\ Grants!NextBudget(r, took) => grantRequest' = [grantRequest EXCEPT ![r] = n]
  <1> DEFINE q == grantRequest[r]
             n == NextAsk(q, took)
  <1>0. q \in GrantRequestRecord /\ hour \in 0..GrantHours /\ 0 \in Grants!Windows
    BY AskFacts, GrantAssumption DEF GInv, GrantShape, Grants!Windows
  <1>1. CASE q.budget = "hour"
    <2>1. n \in GrantRequestRecord
      BY <1>0, <1>1 DEF NextAsk, GrantRequestRecord, Grants!Counted
    <2>2. /\ n.took = took /\ n.gave = q.gave /\ n.step = "budget" /\ n.budget = "day" /\ n.since = hour
          /\ n.max = q.max /\ n.win = q.win
      BY <1>0, <1>1 DEF NextAsk, GrantRequestRecord
    <2>3. Grants!NextBudget(r, took) => grantRequest' = [grantRequest EXCEPT ![r] = n]
      BY <1>1 DEF Grants!NextBudget, NextAsk
    <2> QED
      BY <1>1, <2>1, <2>2, <2>3
  <1>2. CASE q.budget # "hour"
    <2>1. n \in GrantRequestRecord
      BY <1>0, <1>2, NewAsk DEF NextAsk, GrantRequestRecord
    <2>2. n.took = took /\ n.step = "run" /\ n.gave = [b \in Grants!Budgets |-> Grants!NoWindow]
      BY <1>2 DEF NextAsk, Grants!NewRequest
    <2>3. Grants!NextBudget(r, took) => grantRequest' = [grantRequest EXCEPT ![r] = n]
      BY <1>2 DEF Grants!NextBudget, NextAsk
    <2> QED
      BY <1>2, <2>1, <2>2, <2>3, AskFacts
  <1> QED
    BY <1>1, <1>2

\* What the request knows then, with the unit it may have taken.
LEMMA NextAskKnows ==
    ASSUME GInv, NEW r \in GrantRequests, NEW took \in [Grants!Budgets -> WindowOrNone],
           grantRequest[r].step \in {"budget", "increment"}, GrantShape', Grows, hour' = hour,
           \A b \in Grants!Budgets \ {grantRequest[r].budget} : took[b] = grantRequest[r].took[b],
           \A b \in Grants!Budgets : took[b] <= grant'.win[b],
           grantRequest' = [grantRequest EXCEPT ![r] = NextAsk(grantRequest[r], took)]
    PROVE  AskKnows(r)'
  <1> DEFINE q == grantRequest[r]
             n == NextAsk(q, took)
  <1>1. /\ n \in GrantRequestRecord /\ n.took = took /\ n.gave = q.gave
        /\ q.budget = "hour" => n.step = "budget" /\ n.budget = "day" /\ n.since = hour /\ n.max = q.max /\ n.win = q.win
        /\ q.budget # "hour" => n.step = "run"
    BY NextAskFacts
  <1>2. grantRequest'[r] = n
    BY AskFacts
  <1> HIDE DEF n
  <1>3. q \in GrantRequestRecord /\ AskKnows(r) /\ q.budget \in {"hour", "day"}
    BY AskFacts DEF GrantRequestRecord, Grants!Counted
  <1>4. \A b \in Grants!Budgets : q.gave[b] = Grants!NoWindow /\ q.gave[b] <= grant'.win[b]
    <2>1. \A b \in Grants!Budgets : grant'.win[b] \in Int /\ grant'.win[b] >= -1
      BY DEF GrantShape, GrantRow, WindowOrNone, Grants!Windows, Grants!NoWindow
    <2> QED
      BY <1>3, <2>1 DEF AskKnows, Grants!NoWindow
  <1>5. took["value"] = Grants!NoWindow /\ (q.budget = "hour" => took["day"] = Grants!NoWindow)
    BY <1>3 DEF AskKnows, Grants!Budgets, Grants!Counted
  <1>6. \A b \in Grants!Counted : q.max[b] <= top'[b] /\ q.win[b] <= Grants!Window(b, hour)
    <2> SUFFICES ASSUME NEW b \in Grants!Counted PROVE q.max[b] <= top'[b] /\ q.win[b] <= Grants!Window(b, hour)
      OBVIOUS
    <2>1. q.max[b] <= top[b] /\ q.win[b] <= Grants!Window(b, q.since) /\ q.since <= hour
      BY <1>3 DEF AskKnows
    <2>2. q.since \in 0..hour /\ hour \in 0..GrantHours /\ b \in Grants!Budgets
      BY <1>3, <2>1 DEF GInv, GrantShape, GrantRequestRecord, Grants!Budgets
    <2>3. Grants!Window(b, q.since) <= Grants!Window(b, hour) /\ Grants!Window(b, q.since) \in Int /\ Grants!Window(b, hour) \in Int
      <3>1. q.since \in 0..GrantHours
        BY <1>3 DEF GrantRequestRecord
      <3> QED
        BY <2>2, <3>1, WindowFacts DEF Grants!Windows
    <2>4. top[b] \in Int /\ top'[b] \in Int /\ q.max[b] \in Int /\ q.win[b] \in Int /\ top[b] <= top'[b]
      BY <1>3, <2>2 DEF GInv, GrantShape, GrantRequestRecord, WindowOrNone, Grants!Windows, Grants!NoWindow, Grows
    <2> QED
      BY <2>1, <2>3, <2>4
  <1>7. hour <= hour
    BY DEF GInv, GrantShape
  <1> QED
    BY <1>1, <1>2, <1>3, <1>4, <1>5, <1>6, <1>7 DEF AskKnows

\* It goes on without a unit (no limit), or
LEMMA SkipStep ==
    ASSUME GInv, NEW r \in GrantRequests, grantRequest[r].step \in {"budget", "increment"}, UNCHANGED <<grant, hour, edit, top>>,
           Grants!NextBudget(r, grantRequest[r].took)
    PROVE  GInv'
  <1> DEFINE q == grantRequest[r]
             n == NextAsk(q, q.took)
  <1>1. q.took \in [Grants!Budgets -> WindowOrNone] /\ AskKnows(r)
    BY AskFacts
  <1>2. n \in GrantRequestRecord /\ n.took = q.took /\ n.gave = q.gave /\ n.step \in {"budget", "run"}
        /\ grantRequest' = [grantRequest EXCEPT ![r] = n]
    BY <1>1, NextAskFacts
  <1> HIDE DEF n
  <1>3. GrantShape'
    BY <1>2 DEF GInv, GrantShape
  <1>4. Grows
    BY DEF GInv, GrantShape, GrantRow, WindowOrNone, Grants!Windows, Grants!NoWindow, Grows
  <1>5. \A b \in Grants!Budgets : q.took[b] <= grant'.win[b]
    BY <1>1 DEF AskKnows
  <1>6. AskKnows(r)'
    BY <1>1, <1>2, <1>3, <1>4, <1>5, NextAskKnows DEF n
  <1> QED
    BY <1>2, <1>6, AskSet

\* it takes one.
LEMMA TakeStep ==
    ASSUME GInv, NEW r \in GrantRequests, grantRequest[r].step \in {"budget", "increment"}, UNCHANGED <<hour, edit, top>>,
           NEW b \in Grants!Budgets, b = grantRequest[r].budget, NEW w \in Grants!Windows,
           Grants!Take(r, b, w), grant.win[b] <= w, w <= Grants!Window(b, hour),
           IF grant.win[b] = w THEN grant.used[b] + 1 <= top[b] ELSE 1 <= top[b]
    PROVE  GInv'
  <1> DEFINE q == grantRequest[r]
             took == [q.took EXCEPT ![b] = w]
             n == NextAsk(q, took)
             u == IF grant.win[b] = w THEN grant.used[b] + 1 ELSE 1
  <1>1. q.took \in [Grants!Budgets -> WindowOrNone] /\ AskKnows(r) /\ took \in [Grants!Budgets -> WindowOrNone] /\ q \in GrantRequestRecord
    BY AskFacts DEF WindowOrNone
  <1>2. n \in GrantRequestRecord /\ n.took = took /\ n.gave = q.gave /\ n.step \in {"budget", "run"}
        /\ grantRequest' = [grantRequest EXCEPT ![r] = n]
    BY <1>1, NextAskFacts DEF Grants!Take
  <1> HIDE DEF n
  <1>3. grant' = [grant EXCEPT !.win = [grant.win EXCEPT ![b] = w], !.used = [grant.used EXCEPT ![b] = u]]
    BY DEF Grants!Take
  <1>4. grant \in GrantRow /\ grant.win \in [Grants!Budgets -> WindowOrNone] /\ grant.used \in [Grants!Budgets -> Nat]
    BY DEF GInv, GrantShape, GrantRow
  <1>5. u \in Nat /\ w \in WindowOrNone
    BY <1>4 DEF WindowOrNone
  <1> HIDE DEF u
  <1>6. grant' \in GrantRow
    BY <1>3, <1>4, <1>5 DEF GrantRow
  <1>7. /\ grant'.win = [grant.win EXCEPT ![b] = w] /\ grant'.used = [grant.used EXCEPT ![b] = u]
        /\ grant'.deploysUsed = grant.deploysUsed /\ grant'.max = grant.max /\ grant'.maxDeploys = grant.maxDeploys
    BY <1>3, <1>4 DEF GrantRow
  <1>8. GrantShape'
    BY <1>2, <1>6 DEF GInv, GrantShape
  <1>9. Grows
    BY <1>4, <1>7 DEF GInv, GrantShape, WindowOrNone, Grants!Windows, Grants!NoWindow, Grows
  <1>10. \A s \in GrantRequests : grantRequest'[s] = IF s = r THEN n ELSE grantRequest[s]
    BY <1>2 DEF GInv, GrantShape
  <1>11. q.took[b] = Grants!NoWindow
    BY <1>1 DEF AskKnows, GrantRequestRecord, Grants!Counted
  <1>12. CountsKept'
    <2>1. \A s \in GrantRequests : \A c \in Grants!Budgets :
              /\ grantRequest'[s].took[c] = IF s = r /\ c = b THEN w ELSE grantRequest[s].took[c]
              /\ grantRequest'[s].gave[c] = grantRequest[s].gave[c]
      BY <1>1, <1>2, <1>10
    <2>2. Deployed' = Deployed
      BY <1>2, <1>10 DEF Deployed
    <2>3. \A c \in Grants!Budgets : /\ grant'.win[c] = IF c = b THEN w ELSE grant.win[c]
                                    /\ grant'.used[c] = IF c # b THEN grant.used[c] ELSE IF grant.win[b] = w THEN grant.used[b] + 1 ELSE 1
      BY <1>4, <1>7 DEF u
    <2> QED
      BY <1>7, <1>8, <1>9, <1>11, <2>1, <2>2, <2>3, UnitTaken
  <1>13. AskKnows(r)'
    <2>1. \A c \in Grants!Budgets : took[c] <= grant'.win[c]
      BY <1>1, <1>4, <1>7 DEF AskKnows, Grants!Windows
    <2> QED
      BY <1>1, <1>2, <1>8, <1>9, <2>1, NextAskKnows DEF n
  <1>14. \A s \in GrantRequests : AskKnows(s)'
    BY <1>8, <1>9, <1>10, <1>13, AskStays
  <1>15. RowFits'
    BY <1>4, <1>7 DEF GInv, RowFits
  <1> QED
    BY <1>8, <1>12, <1>14, <1>15 DEF GInv

LEMMA GrantReset ==
    ASSUME GInv, NEW r \in GrantRequests, Grants!resetWindow(r)
    PROVE  GInv'
  <1> DEFINE q == grantRequest[r]
             b == q.budget
  <1>1. q \in GrantRequestRecord /\ AskKnows(r) /\ q.step = "budget" /\ UNCHANGED <<hour, edit, top>>
    BY AskFacts DEF Grants!resetWindow
  <1>2. b \in Grants!Counted /\ b \in Grants!Budgets
    BY <1>1 DEF GrantRequestRecord, Grants!Budgets
  <1>3. PICK t \in q.since..hour :
           LET w == Grants!Window(b, t)
           IN  IF q.max[b] = 0
               THEN Grants!NextBudget(r, q.took) /\ UNCHANGED grant
               ELSE IF q.win[b] # w /\ grant.win[b] = q.win[b]
               THEN Grants!Take(r, b, w)
               ELSE grantRequest' = [grantRequest EXCEPT ![r].step = "increment", ![r].w = w] /\ UNCHANGED grant
    BY DEF Grants!resetWindow
  <1> DEFINE w == Grants!Window(b, t)
  <1>4. q.since \in 0..GrantHours /\ hour \in 0..GrantHours /\ t \in 0..hour /\ t \in 0..GrantHours /\ q.since \in 0..t
    BY <1>1, GrantAssumption DEF GInv, GrantShape, GrantRequestRecord
  <1>5. w \in Grants!Windows /\ Grants!Window(b, q.since) <= w /\ w <= Grants!Window(b, hour) /\ Grants!Window(b, q.since) \in Int
    BY <1>2, <1>4, WindowFacts DEF Grants!Windows
  <1>6. CASE q.max[b] = 0
    BY <1>1, <1>3, <1>6, SkipStep
  <1>7. CASE q.max[b] # 0 /\ q.win[b] # w /\ grant.win[b] = q.win[b]
    <2>1. q.win[b] <= Grants!Window(b, q.since) /\ q.max[b] <= top[b]
      BY <1>1, <1>2 DEF AskKnows
    <2>2. q.win[b] \in Int /\ q.max[b] \in Nat /\ top[b] \in Nat
      BY <1>1, <1>2 DEF GInv, GrantShape, GrantRequestRecord, WindowOrNone, Grants!Windows, Grants!NoWindow
    <2>3. grant.win[b] <= w /\ grant.win[b] # w /\ 1 <= top[b]
      BY <1>5, <1>7, <2>1, <2>2 DEF Grants!Windows
    <2>4. Grants!Take(r, b, w)
      BY <1>3, <1>7
    <2> HIDE DEF w
    <2> QED
      BY <1>1, <1>2, <1>5, <2>3, <2>4, TakeStep
  <1>8. CASE q.max[b] # 0 /\ ~(q.win[b] # w /\ grant.win[b] = q.win[b])
    <2> DEFINE n == [q EXCEPT !.step = "increment", !.w = w]
    <2>1. grantRequest' = [grantRequest EXCEPT ![r] = n] /\ UNCHANGED grant
      BY <1>3, <1>8
    <2>2. n \in GrantRequestRecord /\ n.step = "increment" /\ n.took = q.took /\ n.gave = q.gave
          /\ n.budget = q.budget /\ n.since = q.since /\ n.max = q.max /\ n.win = q.win
      BY <1>1, <1>5 DEF GrantRequestRecord
    <2> HIDE DEF n
    <2>3. AskKnows(r)'
      BY <1>1, <2>1, <2>2, AskFacts DEF AskKnows
    <2> QED
      BY <1>1, <2>1, <2>2, <2>3, AskSet
  <1> QED
    BY <1>6, <1>7, <1>8

LEMMA GrantConsume ==
    ASSUME GInv, NEW r \in GrantRequests, Grants!consumeBudget(r)
    PROVE  GInv'
  <1> DEFINE q == grantRequest[r]
             b == q.budget
             w == q.w
  <1>1. q \in GrantRequestRecord /\ AskKnows(r) /\ q.step = "increment" /\ UNCHANGED <<hour, edit, top>>
    BY AskFacts DEF Grants!consumeBudget
  <1>2. b \in Grants!Counted /\ b \in Grants!Budgets /\ w \in Grants!Windows
    BY <1>1 DEF GrantRequestRecord, Grants!Budgets
  <1>3. CASE grant.win[b] = w /\ grant.used[b] < q.max[b]
    <2>1. Grants!Take(r, b, w)
      BY <1>3 DEF Grants!consumeBudget
    <2>2. q.max[b] <= top[b] /\ q.max[b] \in Nat /\ top[b] \in Nat /\ grant.used[b] \in Nat
      BY <1>1, <1>2 DEF AskKnows, GInv, GrantShape, GrantRow, GrantRequestRecord
    <2>3. grant.used[b] + 1 <= top[b] /\ grant.win[b] <= w
      BY <1>2, <1>3, <2>2 DEF Grants!Windows
    <2>4. w <= Grants!Window(b, hour)
      BY <1>2, <1>3 DEF GInv, RowFits
    <2> HIDE DEF w
    <2> QED
      BY <1>1, <1>2, <1>3, <2>1, <2>3, <2>4, TakeStep
  <1>4. CASE ~(grant.win[b] = w /\ grant.used[b] < q.max[b])
    <2>1. Grants!Refuse(r, Grants!Counted) /\ UNCHANGED grant
      BY <1>4 DEF Grants!consumeBudget
    <2>2. Grants!Counted \subseteq Grants!Budgets
      BY DEF Grants!Budgets
    <2> QED
      BY <1>1, <2>1, <2>2, RefuseStep
  <1> QED
    BY <1>3, <1>4

LEMMA GrantConsumeValue ==
    ASSUME GInv, NEW r \in GrantRequests, Grants!consumeValueBudget(r)
    PROVE  GInv'
  <1> DEFINE q == grantRequest[r]
             w == Grants!Window("value", hour)
             usedNow == IF grant.win["value"] = w THEN grant.used["value"] ELSE 0
  <1>1. q \in GrantRequestRecord /\ AskKnows(r) /\ q.step = "run" /\ UNCHANGED <<hour, edit, top>>
    BY AskFacts DEF Grants!consumeValueBudget
  <1>2. "value" \in Grants!Budgets /\ hour \in 0..GrantHours
    BY DEF Grants!Budgets, GInv, GrantShape
  <1>3. w \in Grants!Windows /\ w \in Int /\ w <= Grants!Window("value", hour)
    BY <1>2, WindowFacts DEF Grants!Windows
  <1>4. grant \in GrantRow /\ grant.win \in [Grants!Budgets -> WindowOrNone] /\ grant.used \in [Grants!Budgets -> Nat]
        /\ top["value"] \in Nat /\ grant.max["value"] \in Nat /\ grant.max["value"] <= top["value"]
        /\ grant.win["value"] <= w
    BY <1>2 DEF GInv, GrantShape, GrantRow, RowFits
  <1>5. CASE ~Grants!currentGrantRow \/ grant.max["value"] = 0
    <2> DEFINE n == [q EXCEPT !.step = "ready"]
    <2>1. grantRequest' = [grantRequest EXCEPT ![r] = n] /\ UNCHANGED grant
      BY <1>5 DEF Grants!consumeValueBudget
    <2>2. n \in GrantRequestRecord /\ n.step = "ready" /\ n.took = q.took /\ n.gave = q.gave
      BY <1>1 DEF GrantRequestRecord
    <2> HIDE DEF n
    <2>3. AskKnows(r)'
      BY <1>1, <2>1, <2>2, AskFacts DEF AskKnows
    <2> QED
      BY <1>1, <2>1, <2>2, <2>3, AskSet
  <1>6. CASE ~(~Grants!currentGrantRow \/ grant.max["value"] = 0) /\ usedNow + 1 > grant.max["value"]
    <2>1. Grants!Refuse(r, Grants!Counted) /\ UNCHANGED grant
      BY <1>6 DEF Grants!consumeValueBudget
    <2>2. Grants!Counted \subseteq Grants!Budgets
      BY DEF Grants!Budgets
    <2> QED
      BY <1>1, <2>1, <2>2, RefuseStep
  <1>7. CASE ~(~Grants!currentGrantRow \/ grant.max["value"] = 0) /\ ~(usedNow + 1 > grant.max["value"])
    <2> DEFINE took == [q.took EXCEPT !["value"] = w]
               n == [q EXCEPT !.step = "ready", !.took = took]
    <2>0. usedNow \in Nat
      BY <1>2, <1>4
    <2> HIDE DEF n
    <2>1. grantRequest' = [grantRequest EXCEPT ![r] = n]
      <3>1. grantRequest' = [grantRequest EXCEPT ![r].step = "ready", ![r].took["value"] = w]
        BY <1>7 DEF Grants!consumeValueBudget
      <3> HIDE DEF w
      <3> QED
        BY <3>1 DEF n
    <2>a. grant' = [grant EXCEPT !.win["value"] = w, !.used["value"] = usedNow + 1]
      BY <1>7 DEF Grants!consumeValueBudget
    <2>b. grant' = [grant EXCEPT !.win = [grant.win EXCEPT !["value"] = w], !.used = [grant.used EXCEPT !["value"] = usedNow + 1]]
      <3> HIDE DEF w, usedNow
      <3> QED
        BY <2>a
    <2>2. took \in [Grants!Budgets -> WindowOrNone]
      BY <1>3, AskFacts DEF WindowOrNone
    <2>3. n \in GrantRequestRecord /\ n.step = "ready" /\ n.took = took /\ n.gave = q.gave
      BY <1>1, <2>2 DEF GrantRequestRecord, n
    <2>4. grant' \in GrantRow
      <3>1. w \in WindowOrNone
        BY <1>3 DEF WindowOrNone
      <3> HIDE DEF w, usedNow
      <3>2. [grant.win EXCEPT !["value"] = w] \in [Grants!Budgets -> WindowOrNone]
        BY <1>4, <3>1
      <3>3. [grant.used EXCEPT !["value"] = usedNow + 1] \in [Grants!Budgets -> Nat]
        <4>1. usedNow + 1 \in Nat
          BY <2>0
        <4>2. grant.used \in [Grants!Budgets -> Nat]
          BY <1>4
        <4> QED
          BY <4>1, <4>2
      <3> QED
        BY <1>4, <2>b, <3>2, <3>3 DEF GrantRow
    <2>5. /\ grant'.win = [grant.win EXCEPT !["value"] = w] /\ grant'.used = [grant.used EXCEPT !["value"] = usedNow + 1]
          /\ grant'.deploysUsed = grant.deploysUsed /\ grant'.max = grant.max /\ grant'.maxDeploys = grant.maxDeploys
      <3> HIDE DEF w, usedNow
      <3> QED
        BY <1>4, <2>b DEF GrantRow
    <2>6. GrantShape'
      BY <1>1, <2>1, <2>3, <2>4 DEF GInv, GrantShape
    <2>7. Grows
      BY <1>1, <1>3, <1>4, <2>5 DEF GInv, GrantShape, WindowOrNone, Grants!Windows, Grants!NoWindow, Grows
    <2>8. \A s \in GrantRequests : grantRequest'[s] = IF s = r THEN n ELSE grantRequest[s]
      BY <2>1 DEF GInv, GrantShape
    <2>9. \A b \in Grants!Budgets : q.took[b] <= grant.win[b] /\ q.gave[b] <= grant.win[b] /\ q.gave[b] = Grants!NoWindow
      BY <1>1 DEF AskKnows
    <2>10. q.took["value"] = Grants!NoWindow
      BY <1>1 DEF AskKnows
    <2>11. CountsKept'
      <3>1. \A s \in GrantRequests : \A c \in Grants!Budgets :
                /\ grantRequest'[s].took[c] = IF s = r /\ c = "value" THEN w ELSE grantRequest[s].took[c]
                /\ grantRequest'[s].gave[c] = grantRequest[s].gave[c]
        BY <2>3, <2>8, AskFacts
      <3>2. Deployed' = Deployed
        BY <1>1, <2>3, <2>8 DEF Deployed
      <3>3. \A c \in Grants!Budgets :
                /\ grant'.win[c] = IF c = "value" THEN w ELSE grant.win[c]
                /\ grant'.used[c] = IF c # "value" THEN grant.used[c] ELSE IF grant.win["value"] = w THEN grant.used["value"] + 1 ELSE 1
        BY <1>4, <2>5
      <3>4. IF grant.win["value"] = w THEN grant.used["value"] + 1 <= top["value"] ELSE 1 <= top["value"]
        BY <1>2, <1>4, <1>7
      <3> HIDE DEF w
      <3> QED
        BY <1>1, <1>2, <1>3, <1>4, <2>5, <2>6, <2>7, <2>10, <3>1, <3>2, <3>3, <3>4, UnitTaken
    <2>12. AskKnows(r)'
      <3>1. \A b \in Grants!Budgets : took[b] <= grant'.win[b] /\ q.gave[b] <= grant'.win[b]
        <4>1. \A b \in Grants!Budgets : q.gave[b] \in Int /\ grant.win[b] \in Int
          BY <1>4, AskFacts DEF WindowOrNone, Grants!Windows, Grants!NoWindow
        <4> QED
          BY <1>3, <1>4, <2>5, <2>9, <4>1, AskFacts
      <3>2. grantRequest'[r] = n
        BY <2>1, AskFacts
      <3> HIDE DEF took
      <3> QED
        BY <2>3, <2>9, <3>1, <3>2 DEF AskKnows
    <2>13. \A s \in GrantRequests : AskKnows(s)'
      BY <2>6, <2>7, <2>8, <2>12, AskStays
    <2>14. RowFits'
      <3> HIDE DEF w, usedNow
      <3> QED
        BY <1>1, <1>3, <1>4, <2>5 DEF GInv, RowFits
    <2> QED
      BY <2>6, <2>11, <2>13, <2>14 DEF GInv
  <1> QED
    BY <1>5, <1>6, <1>7

LEMMA GrantAccept ==
    ASSUME GInv, NEW r \in GrantRequests, Grants!Accept(r) \/ Grants!Fail(r) \/ Grants!Refunded(r)
    PROVE  GInv'
  <1> DEFINE q == grantRequest[r]
  <1>1. q \in GrantRequestRecord /\ AskKnows(r) /\ UNCHANGED <<grant, hour, edit, top>> /\ q.step \in {"ready", "run", "refund"}
    BY AskFacts DEF Grants!Accept, Grants!Fail, Grants!Refunded, Grants!ReadyToEnd
  <1>2. CASE Grants!Accept(r)
    <2> DEFINE n == [Grants!NewRequest EXCEPT !.step = "queued", !.event = q.event, !.contract = q.contract, !.took = q.took]
    <2>1. n \in GrantRequestRecord
      BY <1>1, NewAsk DEF GrantRequestRecord
    <2>2. n.step = "queued" /\ n.took = q.took /\ n.gave = [b \in Grants!Budgets |-> Grants!NoWindow]
      BY DEF Grants!NewRequest
    <2>3. grantRequest' = [grantRequest EXCEPT ![r] = n] /\ q.step \in {"ready", "run"}
      BY <1>2 DEF Grants!Accept, Grants!ReadyToEnd
    <2> HIDE DEF n
    <2>4. n.gave = q.gave
      BY <2>2, <2>3, AskFacts
    <2>5. AskKnows(r)'
      BY <1>1, <2>2, <2>3, <2>4, AskFacts DEF AskKnows
    <2> QED
      BY <1>1, <2>1, <2>2, <2>3, <2>4, <2>5, AskSet
  <1>3. CASE Grants!Fail(r) /\ Grants!Refuse(r, Grants!Budgets)
    BY <1>1, <1>3, RefuseStep DEF Grants!Fail, Grants!ReadyToEnd
  <1>4. CASE (Grants!Fail(r) \/ Grants!Refunded(r)) /\ Grants!End(r, "ended")
    BY <1>1, <1>4, EndStep
  <1> QED
    BY <1>2, <1>3, <1>4 DEF Grants!Fail, Grants!Refunded

LEMMA GrantRefund ==
    ASSUME GInv, NEW r \in GrantRequests, NEW b \in Grants!Budgets, Grants!refundBudget(r, b)
    PROVE  GInv'
  <1> DEFINE q == grantRequest[r]
             w == Grants!Window(b, hour)
             given == /\ grant.win[b] = w /\ grant.used[b] > 0
                      /\ b = "value" => Grants!currentGrantRow
  <1>1. q \in GrantRequestRecord /\ AskKnows(r) /\ q.step = "refund" /\ b \in q.owed /\ UNCHANGED <<hour, edit, top>>
    BY AskFacts DEF Grants!refundBudget
  <1>2. w \in Grants!Windows /\ w \in Int /\ w # Grants!NoWindow
    BY WindowFacts DEF GInv, GrantShape, Grants!Windows, Grants!NoWindow
  <1>3. q.gave[b] = Grants!NoWindow
    BY <1>1 DEF AskKnows
  <1>4. grant \in GrantRow /\ grant.used \in [Grants!Budgets -> Nat]
    BY DEF GInv, GrantShape, GrantRow
  <1>5. CASE given
    <2> DEFINE n == [q EXCEPT !.owed = q.owed \ {b}, !.gave = [q.gave EXCEPT ![b] = w]]
    <2>0. /\ grantRequest' = [grantRequest EXCEPT ![r].owed = @ \ {b}, ![r].gave[b] = w]
          /\ grant' = [grant EXCEPT !.used[b] = @ - 1]
      BY <1>5 DEF Grants!refundBudget
    <2>1. grantRequest' = [grantRequest EXCEPT ![r] = n] /\ grant' = [grant EXCEPT !.used = [grant.used EXCEPT ![b] = grant.used[b] - 1]]
      <3> HIDE DEF w
      <3> QED
        BY <2>0
    <2>2. [q.gave EXCEPT ![b] = w] \in [Grants!Budgets -> WindowOrNone]
      BY <1>2, AskFacts DEF WindowOrNone
    <2>3. n \in GrantRequestRecord /\ n.step = "refund" /\ n.took = q.took /\ n.gave = [q.gave EXCEPT ![b] = w] /\ n.owed = q.owed \ {b}
      BY <1>1, <2>2 DEF GrantRequestRecord
    <2>4. [grant.used EXCEPT ![b] = grant.used[b] - 1] \in [Grants!Budgets -> Nat]
      <3>1. grant.used[b] - 1 \in Nat
        BY <1>4, <1>5
      <3> QED
        BY <1>4, <3>1
    <2>5. grant' \in GrantRow /\ grant'.win = grant.win /\ grant'.max = grant.max /\ grant'.maxDeploys = grant.maxDeploys
          /\ grant'.deploysUsed = grant.deploysUsed /\ grant'.used = [grant.used EXCEPT ![b] = grant.used[b] - 1]
      BY <1>4, <2>1, <2>4 DEF GrantRow
    <2> HIDE DEF n
    <2>6. GrantShape'
      BY <1>1, <2>1, <2>3, <2>5 DEF GInv, GrantShape
    <2>7. \A s \in GrantRequests : grantRequest'[s] = IF s = r THEN n ELSE grantRequest[s]
      BY <2>1 DEF GInv, GrantShape
    <2>8. Grows
      BY <1>1, <2>5 DEF GInv, GrantShape, GrantRow, WindowOrNone, Grants!Windows, Grants!NoWindow, Grows
    <2>9. grant.win[b] = w /\ grant.used[b] > 0
      BY <1>5
    <2>10. CountsKept'
      <3>1. \A s \in GrantRequests : \A c \in Grants!Budgets :
                /\ grantRequest'[s].took[c] = grantRequest[s].took[c]
                /\ grantRequest'[s].gave[c] = IF s = r /\ c = b THEN grant.win[b] ELSE grantRequest[s].gave[c]
        BY <2>3, <2>7, <2>9, AskFacts
      <3>2. Deployed' = Deployed
        BY <1>1, <2>3, <2>7 DEF Deployed
      <3>3. \A c \in Grants!Budgets : grant'.used[c] = IF c = b THEN grant.used[b] - 1 ELSE grant.used[c]
        BY <1>4, <2>5
      <3> HIDE DEF w
      <3> QED
        BY <1>1, <1>2, <1>3, <2>5, <2>6, <2>9, <3>1, <3>2, <3>3, UnitGiven
    <2>11. AskKnows(r)'
      <3>1. \A c \in Grants!Budgets : n.took[c] <= grant'.win[c] /\ n.gave[c] <= grant'.win[c]
        BY <1>1, <1>2, <2>3, <2>5, <2>9, AskFacts DEF AskKnows
      <3>2. \A c \in n.owed : n.gave[c] = Grants!NoWindow
        BY <1>1, <2>3, AskFacts DEF AskKnows, GrantRequestRecord
      <3>3. grantRequest'[r] = n
        BY <2>1, AskFacts
      <3> QED
        BY <2>3, <3>1, <3>2, <3>3 DEF AskKnows
    <2>12. \A s \in GrantRequests : AskKnows(s)'
      BY <2>6, <2>7, <2>8, <2>11, AskStays
    <2>13. RowFits'
      BY <1>1, <2>5 DEF GInv, RowFits
    <2> QED
      BY <2>6, <2>10, <2>12, <2>13 DEF GInv
  <1>6. CASE ~given
    <2> DEFINE n == [q EXCEPT !.owed = q.owed \ {b}]
    <2>0. grantRequest' = [grantRequest EXCEPT ![r].owed = @ \ {b}, ![r].gave[b] = @] /\ UNCHANGED grant
      BY <1>6 DEF Grants!refundBudget
    <2>1. grantRequest' = [grantRequest EXCEPT ![r] = n]
      <3>1. q.gave = [q.gave EXCEPT ![b] = @]
        BY AskFacts
      <3>2. [q EXCEPT !.owed = @ \ {b}, !.gave = [q.gave EXCEPT ![b] = @]] = n
        BY <1>1, <3>1 DEF GrantRequestRecord
      <3> QED
        BY <2>0, <3>2
    <2>2. n \in GrantRequestRecord /\ n.step = "refund" /\ n.took = q.took /\ n.gave = q.gave /\ n.owed = q.owed \ {b}
      BY <1>1 DEF GrantRequestRecord
    <2> HIDE DEF n
    <2>3. UNCHANGED <<grant, hour, edit, top>>
      BY <1>1, <2>0
    <2>4. grantRequest'[r] = n
      BY <2>1, AskFacts
    <2>5. AskKnows(r)'
      <3> HIDE DEF w
      <3> QED
        BY <1>1, <2>2, <2>3, <2>4 DEF AskKnows
    <2> QED
      BY <1>1, <2>1, <2>2, <2>3, <2>5, AskSet
  <1> QED
    BY <1>5, <1>6

-----------------------------------------------------------------------------
\* The job: a deploy is counted once and given back at most once.

LEMMA GrantRun ==
    ASSUME GInv, NEW r \in GrantRequests, Grants!RunJob(r)
    PROVE  GInv'
  <1> DEFINE q == grantRequest[r]
             n == [q EXCEPT !.step = "reserve", !.maxDeploys = grant.maxDeploys]
  <1>1. q \in GrantRequestRecord /\ AskKnows(r) /\ q.step = "queued" /\ UNCHANGED <<grant, hour, edit, top>>
    BY AskFacts DEF Grants!RunJob
  <1>2. CASE Grants!End(r, "ended")
    BY <1>1, <1>2, EndStep
  <1>3. CASE ~Grants!End(r, "ended")
    <2>1. grantRequest' = [grantRequest EXCEPT ![r] = n]
      BY <1>3 DEF Grants!RunJob
    <2>2. grant.maxDeploys \in Nat /\ grant.maxDeploys <= top["deploys"]
      BY DEF GInv, GrantShape, GrantRow, RowFits
    <2>3. n \in GrantRequestRecord /\ n.step = "reserve" /\ n.took = q.took /\ n.gave = q.gave /\ n.maxDeploys = grant.maxDeploys
      BY <1>1, <2>2 DEF GrantRequestRecord
    <2> HIDE DEF n
    <2>4. AskKnows(r)'
      BY <1>1, <2>1, <2>2, <2>3, AskFacts DEF AskKnows
    <2> QED
      BY <1>1, <2>1, <2>3, <2>4, AskSet
  <1> QED
    BY <1>2, <1>3

\* One request gets the record n and the row keeps its counters but for the deploys.
LEMMA DeploySet ==
    ASSUME GInv, NEW r \in GrantRequests, NEW n \in GrantRequestRecord, grantRequest' = [grantRequest EXCEPT ![r] = n],
           UNCHANGED <<hour, edit, top>>, n.took = grantRequest[r].took, n.gave = grantRequest[r].gave,
           n.step \in {"sent", "landed", "ended"}, grant' \in GrantRow,
           grant'.win = grant.win, grant'.used = grant.used, grant'.max = grant.max, grant'.maxDeploys = grant.maxDeploys,
           grant'.deploysUsed <= top["deploys"],
           grant'.deploysUsed = grant.deploysUsed + (IF n.step \in {"sent", "landed"} THEN 1 ELSE 0)
                                - (IF grantRequest[r].step \in {"sent", "landed"} THEN 1 ELSE 0),
           grantRequest[r].step \notin {"refund", "ended"}
    PROVE  GInv'
  <1> DEFINE q == grantRequest[r]
             D == {s \in GrantRequests \ {r} : grantRequest[s].step \in {"sent", "landed"}}
  <1>1. \A s \in GrantRequests : grantRequest'[s] = IF s = r THEN n ELSE grantRequest[s]
    BY DEF GInv, GrantShape
  <1>2. GrantShape'
    BY DEF GInv, GrantShape
  <1>3. Grows
    BY DEF GInv, GrantShape, GrantRow, WindowOrNone, Grants!Windows, Grants!NoWindow, Grows
  <1>4. \A b \in Grants!Budgets : \A v : Grants!Took(b, v)' = Grants!Took(b, v) /\ Grants!Gave(b, v)' = Grants!Gave(b, v)
    <2>1. \A s \in GrantRequests : grantRequest'[s].took = grantRequest[s].took /\ grantRequest'[s].gave = grantRequest[s].gave
      BY <1>1
    <2> QED
      BY <2>1 DEF Grants!Took, Grants!Gave
  <1>5. Grants!CountersExact'
    BY <1>4 DEF GInv, CountsKept, Grants!CountersExact
  <1>6. grant'.deploysUsed = Cardinality(Deployed')
    <2>1. IsFiniteSet(D) /\ Cardinality(D) \in Nat /\ r \notin D
      BY GrantAssumption, FS_Subset, FS_CardinalityType
    <2>2. Deployed = IF q.step \in {"sent", "landed"} THEN D \cup {r} ELSE D
      BY DEF Deployed
    <2>3. Deployed' = IF n.step \in {"sent", "landed"} THEN D \cup {r} ELSE D
      BY <1>1 DEF Deployed
    <2>4. Cardinality(D \cup {r}) = Cardinality(D) + 1
      BY <2>1, FS_AddElement
    <2>5. grant.deploysUsed = Cardinality(Deployed)
      BY DEF GInv, CountsKept
    <2> HIDE DEF D
    <2> QED
      BY <2>1, <2>2, <2>3, <2>4, <2>5
  <1>7. CountsKept'
    BY <1>4, <1>5, <1>6 DEF GInv, CountsKept
  <1>8. AskKnows(r)'
    BY <1>1, AskFacts DEF AskKnows
  <1>9. \A s \in GrantRequests : AskKnows(s)'
    BY <1>1, <1>2, <1>3, <1>8, AskStays
  <1>10. RowFits'
    BY DEF GInv, RowFits
  <1> QED
    BY <1>2, <1>7, <1>9, <1>10 DEF GInv

LEMMA GrantDeploy ==
    ASSUME GInv, NEW r \in GrantRequests, Grants!reserveDeployBudget(r) \/ Grants!recordDeployedContracts(r) \/ Grants!releaseDeployBudget(r)
    PROVE  GInv'
  <1> DEFINE q == grantRequest[r]
  <1>1. q \in GrantRequestRecord /\ AskKnows(r) /\ UNCHANGED <<hour, edit, top>> /\ q.step \in {"reserve", "sent"}
    BY AskFacts DEF Grants!reserveDeployBudget, Grants!recordDeployedContracts, Grants!releaseDeployBudget
  <1>2. grant \in GrantRow /\ grant.deploysUsed \in Nat /\ grant.deploysUsed <= top["deploys"] /\ top["deploys"] \in Nat
    BY DEF GInv, GrantShape, GrantRow, RowFits
  <1>3. CASE Grants!reserveDeployBudget(r)
    <2>1. CASE grant.active /\ grant.maxDeploys > 0 /\ grant.deploysUsed <= q.maxDeploys - 1
      <3> DEFINE n == [q EXCEPT !.step = "sent"]
      <3>1. grantRequest' = [grantRequest EXCEPT ![r] = n] /\ grant' = [grant EXCEPT !.deploysUsed = grant.deploysUsed + 1] /\ q.step = "reserve"
        BY <1>3, <2>1 DEF Grants!reserveDeployBudget
      <3>2. n \in GrantRequestRecord /\ n.step = "sent" /\ n.took = q.took /\ n.gave = q.gave
        BY <1>1 DEF GrantRequestRecord
      <3>3. q.maxDeploys \in Nat /\ q.maxDeploys <= top["deploys"]
        BY <1>1, <3>1 DEF AskKnows, GrantRequestRecord
      <3>4. grant' \in GrantRow /\ grant'.deploysUsed = grant.deploysUsed + 1 /\ grant'.win = grant.win /\ grant'.used = grant.used
            /\ grant'.max = grant.max /\ grant'.maxDeploys = grant.maxDeploys
        BY <1>2, <3>1 DEF GrantRow
      <3>5. grant'.deploysUsed <= top["deploys"]
        BY <1>2, <2>1, <3>3, <3>4
      <3> HIDE DEF n
      <3>6. grant'.deploysUsed = grant.deploysUsed + (IF n.step \in {"sent", "landed"} THEN 1 ELSE 0)
                                 - (IF q.step \in {"sent", "landed"} THEN 1 ELSE 0)
        BY <1>2, <3>1, <3>2, <3>4
      <3> QED
        BY <1>1, <1>2, <3>1, <3>2, <3>4, <3>5, <3>6, DeploySet
    <2>2. CASE ~(grant.active /\ grant.maxDeploys > 0 /\ grant.deploysUsed <= q.maxDeploys - 1)
      BY <1>1, <1>3, <2>2, EndStep DEF Grants!reserveDeployBudget
    <2> QED
      BY <2>1, <2>2
  <1>4. CASE Grants!recordDeployedContracts(r)
    <2> DEFINE n == [q EXCEPT !.step = "landed"]
    <2>1. grantRequest' = [grantRequest EXCEPT ![r] = n] /\ grant' = [grant EXCEPT !.deployed = @ \cup {r}] /\ q.step = "sent"
      BY <1>4 DEF Grants!recordDeployedContracts
    <2>2. n \in GrantRequestRecord /\ n.step = "landed" /\ n.took = q.took /\ n.gave = q.gave
      BY <1>1 DEF GrantRequestRecord
    <2>3. grant' \in GrantRow /\ grant'.deploysUsed = grant.deploysUsed /\ grant'.win = grant.win /\ grant'.used = grant.used
          /\ grant'.max = grant.max /\ grant'.maxDeploys = grant.maxDeploys
      BY <1>2, <2>1 DEF GrantRow
    <2>4. grant.deploysUsed = grant.deploysUsed + 1 - 1
      BY <1>2
    <2> HIDE DEF n
    <2> QED
      BY <1>1, <1>2, <2>1, <2>2, <2>3, <2>4, DeploySet
  <1>5. CASE Grants!releaseDeployBudget(r)
    <2> DEFINE n == [Grants!NewRequest EXCEPT !.step = "ended", !.took = q.took, !.gave = q.gave]
    <2>1. grantRequest' = [grantRequest EXCEPT ![r] = n] /\ q.step = "sent"
          /\ grant' = [grant EXCEPT !.deploysUsed = IF grant.deploysUsed >= 1 THEN grant.deploysUsed - 1 ELSE grant.deploysUsed]
      BY <1>5 DEF Grants!releaseDeployBudget, Grants!End
    <2>2. n \in GrantRequestRecord /\ n.step = "ended" /\ n.took = q.took /\ n.gave = q.gave
      BY NewAsk, AskFacts DEF GrantRequestRecord
    <2>3. grant.deploysUsed >= 1
      <3>1. r \in Deployed /\ IsFiniteSet(Deployed)
        BY <2>1, GrantAssumption, FS_Subset DEF Deployed
      <3>2. Cardinality(Deployed) # 0 /\ Cardinality(Deployed) \in Nat
        BY <3>1, FS_EmptySet, FS_CardinalityType
      <3> QED
        BY <3>2 DEF GInv, CountsKept
    <2>4. grant' \in GrantRow /\ grant'.deploysUsed = grant.deploysUsed - 1 /\ grant'.win = grant.win /\ grant'.used = grant.used
          /\ grant'.max = grant.max /\ grant'.maxDeploys = grant.maxDeploys
      BY <1>2, <2>1, <2>3 DEF GrantRow
    <2> HIDE DEF n
    <2>5. grant'.deploysUsed = grant.deploysUsed + (IF n.step \in {"sent", "landed"} THEN 1 ELSE 0)
                               - (IF q.step \in {"sent", "landed"} THEN 1 ELSE 0)
      BY <1>2, <2>1, <2>2, <2>4
    <2>6. grant'.deploysUsed <= top["deploys"]
      BY <1>2, <2>4
    <2> QED
      BY <1>1, <1>2, <2>1, <2>2, <2>4, <2>5, <2>6, DeploySet
  <1> QED
    BY <1>3, <1>4, <1>5

-----------------------------------------------------------------------------
\* The issuer and the clock.

LEMMA IssuerStep ==
    ASSUME GInv, GrantShape', Grows, grantRequest' = grantRequest,
           grant'.win = grant.win, grant'.used = grant.used, grant'.deploysUsed = grant.deploysUsed,
           grant'.maxDeploys <= top'["deploys"], \A b \in Grants!Budgets : grant'.max[b] <= top'[b]
    PROVE  GInv'
  <1>1. CountsKept'
    BY CountsStay
  <1>2. \A r \in GrantRequests : AskKnows(r)'
    BY AskStays
  <1>3. RowFits'
    <2>1. hour \in 0..hour' /\ hour \in 0..GrantHours /\ hour' \in 0..GrantHours
      BY DEF GInv, GrantShape, Grows
    <2>2. \A b \in Grants!Budgets : Grants!Window(b, hour) <= Grants!Window(b, hour') /\ Grants!Window(b, hour) \in Int /\ Grants!Window(b, hour') \in Int
      BY <2>1, WindowFacts DEF Grants!Windows
    <2>3. \A b \in Grants!Budgets : grant.win[b] <= Grants!Window(b, hour) /\ grant.win[b] \in Int
      BY DEF GInv, RowFits, GrantShape, GrantRow, WindowOrNone, Grants!Windows, Grants!NoWindow
    <2>4. \A b \in Grants!Budgets : grant'.win[b] <= Grants!Window(b, hour')
      BY <2>2, <2>3
    <2>5. grant.deploysUsed <= top["deploys"] /\ top["deploys"] <= top'["deploys"]
          /\ grant.deploysUsed \in Nat /\ top["deploys"] \in Nat /\ top'["deploys"] \in Nat
      BY DEF GInv, RowFits, Grows, GrantShape, GrantRow
    <2> QED
      BY <2>4, <2>5 DEF RowFits, Grants!Window
  <1> QED
    BY <1>1, <1>2, <1>3 DEF GInv

LEMMA GrantEditRead ==
    ASSUME GInv, NEW e \in GrantEditors, Grants!validateGrantShape(e)
    PROVE  GInv'
  <1> DEFINE read == [step |-> "write", contracts |-> grant.contracts, maxDeploys |-> grant.maxDeploys,
                      value |-> grant.max["value"], field |-> "none", hour |-> 0]
  <1>1. UNCHANGED <<grant, hour, grantRequest, top>>
    BY DEF Grants!validateGrantShape
  <1>2. grant.contracts \in GrantList /\ grant.maxDeploys \in Nat /\ grant.max["value"] \in Nat
    BY DEF GInv, GrantShape, GrantRow, Grants!Budgets
  <1>3. PICK n \in EditRecord : edit' = [edit EXCEPT ![e] = n] /\ n.contracts \in GrantList
    <2>1. CASE \E c \in GrantLists : edit' = [edit EXCEPT ![e] = [read EXCEPT !.field = "contracts", !.contracts = c]]
      <3> PICK c \in GrantLists : edit' = [edit EXCEPT ![e] = [read EXCEPT !.field = "contracts", !.contracts = c]]
        BY <2>1
      <3> DEFINE n == [read EXCEPT !.field = "contracts", !.contracts = c]
      <3>1. n \in EditRecord /\ n.contracts \in GrantList
        BY <1>2 DEF EditRecord, GrantList
      <3> QED
        BY <3>1
    <2>2. CASE \E n \in GrantMaxima : edit' = [edit EXCEPT ![e] = [read EXCEPT !.field = "maxDeploys", !.maxDeploys = n]]
      <3> PICK m \in GrantMaxima : edit' = [edit EXCEPT ![e] = [read EXCEPT !.field = "maxDeploys", !.maxDeploys = m]]
        BY <2>2
      <3> DEFINE n == [read EXCEPT !.field = "maxDeploys", !.maxDeploys = m]
      <3>1. n \in EditRecord /\ n.contracts \in GrantList
        BY <1>2, GrantAssumption DEF EditRecord, GrantList
      <3> QED
        BY <3>1
    <2>3. CASE \E n \in GrantMaxima : edit' = [edit EXCEPT ![e] = [read EXCEPT !.field = "hour", !.hour = n]]
      <3> PICK m \in GrantMaxima : edit' = [edit EXCEPT ![e] = [read EXCEPT !.field = "hour", !.hour = m]]
        BY <2>3
      <3> DEFINE n == [read EXCEPT !.field = "hour", !.hour = m]
      <3>1. n \in EditRecord /\ n.contracts \in GrantList
        BY <1>2, GrantAssumption DEF EditRecord, GrantList
      <3> QED
        BY <3>1
    <2> QED
      BY <2>1, <2>2, <2>3 DEF Grants!validateGrantShape
  <1>4. GrantShape'
    BY <1>1, <1>3 DEF GInv, GrantShape
  <1>5. Grows
    BY <1>1 DEF GInv, GrantShape, GrantRow, WindowOrNone, Grants!Windows, Grants!NoWindow, Grows
  <1>6. RowFits
    BY DEF GInv
  <1> QED
    BY <1>1, <1>4, <1>5, <1>6, IssuerStep DEF RowFits

LEMMA GrantEditWrite ==
    ASSUME GInv, NEW e \in GrantEditors, Grants!updateAgentGrant(e)
    PROVE  GInv'
  <1> DEFINE x == edit[e]
  <1>1. x \in EditRecord /\ x.step = "write" /\ x.contracts \in GrantList /\ UNCHANGED <<hour, grantRequest>>
        /\ edit' = [edit EXCEPT ![e] = Grants!NoEdit("done")]
    BY DEF GInv, GrantShape, Grants!updateAgentGrant
  <1>2. Grants!NoEdit("done") \in EditRecord /\ Grants!NoEdit("done").step = "done"
    BY DEF Grants!NoEdit, EditRecord
  <1>3. \A d \in GrantEditors : edit'[d] \in EditRecord /\ (edit'[d].step = "write" => edit'[d].contracts \in GrantList)
    BY <1>1, <1>2 DEF GInv, GrantShape
  <1>4. edit' \in [GrantEditors -> EditRecord]
    BY <1>1, <1>2 DEF GInv, GrantShape
  <1>5. CASE grant.active
    <2> DEFINE max1 == [grant.max EXCEPT !["value"] = x.value]
               max2 == [max1 EXCEPT !["hour"] = IF x.field = "hour" THEN x.hour ELSE @]
    <2>1. grant' = [grant EXCEPT !.contracts = x.contracts, !.maxDeploys = x.maxDeploys, !.max["value"] = x.value,
                                 !.max["hour"] = IF x.field = "hour" THEN x.hour ELSE @]
      BY <1>5 DEF Grants!updateAgentGrant
    <2>2. top' = [b \in DOMAIN top |-> Grants!Max2(top[b], IF b = "deploys" THEN x.maxDeploys ELSE grant'.max[b])]
      BY <1>5 DEF Grants!updateAgentGrant
    <2>3. grant \in GrantRow /\ grant.max \in [Grants!Budgets -> Nat] /\ top \in [Grants!Budgets \cup {"deploys"} -> Nat]
          /\ grant.win \in [Grants!Budgets -> WindowOrNone] /\ hour \in 0..GrantHours
      BY DEF GInv, GrantShape, GrantRow
    <2>4. x.value \in Nat /\ x.hour \in Nat /\ x.maxDeploys \in Nat
      BY <1>1 DEF EditRecord
    <2>5. max1 \in [Grants!Budgets -> Nat]
      BY <2>3, <2>4
    <2>6. max2 \in [Grants!Budgets -> Nat]
      BY <2>4, <2>5
    <2>7. grant' = [grant EXCEPT !.contracts = x.contracts, !.maxDeploys = x.maxDeploys, !.max = max2]
      BY <2>1
    <2> HIDE DEF max1, max2, x
    <2>8. grant' \in GrantRow /\ grant'.win = grant.win /\ grant'.used = grant.used /\ grant'.deploysUsed = grant.deploysUsed
          /\ grant'.max = max2 /\ grant'.maxDeploys = x.maxDeploys
      BY <1>1, <2>3, <2>4, <2>6, <2>7 DEF GrantRow
    <2>9. /\ top' \in [Grants!Budgets \cup {"deploys"} -> Nat]
          /\ \A b \in Grants!Budgets \cup {"deploys"} : top[b] <= top'[b]
          /\ top'["deploys"] >= x.maxDeploys /\ \A b \in Grants!Budgets : max2[b] <= top'[b]
      <3>1. "deploys" \notin Grants!Budgets
        BY DEF Grants!Budgets, Grants!Counted
      <3>2. \A b \in Grants!Budgets \cup {"deploys"} :
               top'[b] = Grants!Max2(top[b], IF b = "deploys" THEN x.maxDeploys ELSE max2[b])
        BY <2>2, <2>3, <2>8
      <3>3. \A m, n \in Nat : Grants!Max2(m, n) \in Nat /\ m <= Grants!Max2(m, n) /\ n <= Grants!Max2(m, n)
        BY DEF Grants!Max2
      <3>4. \A b \in Grants!Budgets \cup {"deploys"} : top[b] \in Nat /\ (IF b = "deploys" THEN x.maxDeploys ELSE max2[b]) \in Nat
        BY <2>3, <2>4, <2>6
      <3>5. \A b \in Grants!Budgets \cup {"deploys"} : top'[b] \in Nat /\ top[b] <= top'[b]
              /\ (IF b = "deploys" THEN x.maxDeploys ELSE max2[b]) <= top'[b]
        BY <3>2, <3>3, <3>4
      <3>6. top' \in [Grants!Budgets \cup {"deploys"} -> Nat]
        BY <2>2, <2>3, <3>5
      <3>7. x.maxDeploys <= top'["deploys"] /\ \A b \in Grants!Budgets : max2[b] <= top'[b]
        BY <3>1, <3>5
      <3> QED
        BY <2>4, <3>5, <3>6, <3>7
    <2>10. GrantShape'
      BY <1>1, <1>3, <1>4, <2>3, <2>8, <2>9 DEF GInv, GrantShape
    <2>11. Grows
      BY <1>1, <2>3, <2>8, <2>9 DEF WindowOrNone, Grants!Windows, Grants!NoWindow, Grows
    <2>12. grant'.maxDeploys <= top'["deploys"]
      BY <2>4, <2>8, <2>9
    <2> QED
      BY <1>1, <2>8, <2>9, <2>10, <2>11, <2>12, IssuerStep
  <1>6. CASE ~grant.active
    <2>1. UNCHANGED <<grant, top>>
      BY <1>6 DEF Grants!updateAgentGrant
    <2>2. GrantShape'
      BY <1>1, <1>3, <1>4, <2>1 DEF GInv, GrantShape
    <2>3. Grows
      BY <1>1, <2>1 DEF GInv, GrantShape, GrantRow, WindowOrNone, Grants!Windows, Grants!NoWindow, Grows
    <2>4. RowFits
      BY DEF GInv
    <2> QED
      BY <1>1, <2>1, <2>2, <2>3, <2>4, IssuerStep DEF RowFits
  <1> QED
    BY <1>5, <1>6

LEMMA GrantAround ==
    ASSUME GInv, Grants!revokeAgentGrant \/ Grants!rotateAgentGrantToken \/ Grants!NextHour
    PROVE  GInv'
  <1>1. UNCHANGED <<grantRequest, edit, top>>
    BY DEF Grants!revokeAgentGrant, Grants!rotateAgentGrantToken, Grants!NextHour
  <1>2. grant \in GrantRow /\ hour \in 0..GrantHours /\ RowFits
    BY DEF GInv, GrantShape
  <1>3. grant' \in GrantRow /\ grant'.win = grant.win /\ grant'.used = grant.used /\ grant'.deploysUsed = grant.deploysUsed
        /\ grant'.max = grant.max /\ grant'.maxDeploys = grant.maxDeploys
    BY <1>2 DEF GrantRow, Grants!revokeAgentGrant, Grants!rotateAgentGrantToken, Grants!NextHour
  <1>4. hour' \in 0..GrantHours /\ hour <= hour'
    BY <1>2, GrantAssumption DEF Grants!revokeAgentGrant, Grants!rotateAgentGrantToken, Grants!NextHour
  <1>5. GrantShape'
    BY <1>1, <1>3, <1>4 DEF GInv, GrantShape
  <1>6. Grows
    BY <1>1, <1>3, <1>4 DEF GInv, GrantShape, GrantRow, WindowOrNone, Grants!Windows, Grants!NoWindow, Grows
  <1> QED
    BY <1>1, <1>2, <1>3, <1>5, <1>6, IssuerStep DEF RowFits

LEMMA GrantInitInv == Grants!GrantInit => GInv
  <1> SUFFICES ASSUME Grants!GrantInit PROVE GInv
    OBVIOUS
  <1>1. PICK t \in GrantTerms : grant = Grants!newGrantRow(t.contracts, t.maxDeploys, t.max, t.until)
    BY DEF Grants!GrantInit
  <1>2. hour = 0 /\ grantRequest = [r \in GrantRequests |-> Grants!NewRequest] /\ edit = [e \in GrantEditors |-> Grants!NoEdit("new")]
        /\ top = [b \in Grants!Budgets \cup {"deploys"} |-> IF b = "deploys" THEN grant.maxDeploys ELSE grant.max[b]]
    BY DEF Grants!GrantInit
  <1>3. t.until \in Nat /\ t.maxDeploys \in Nat /\ t.max \in [Grants!Budgets -> Nat]
    <2>1. Grants!Budgets = {"hour", "day", "value"}
      BY DEF Grants!Budgets, Grants!Counted
    <2> QED
      BY <2>1, GrantAssumption
  <1>4. /\ grant \in GrantRow /\ grant.maxDeploys = t.maxDeploys /\ grant.max = t.max /\ grant.deploysUsed = 0
        /\ grant.win = [b \in Grants!Budgets |-> Grants!NoWindow]
    BY <1>1, <1>3 DEF Grants!newGrantRow, GrantRow, GrantList, WindowOrNone
  <1>5. \A r \in GrantRequests : /\ grantRequest[r].step = "new" /\ grantRequest[r].took = [b \in Grants!Budgets |-> Grants!NoWindow]
                                 /\ grantRequest[r].gave = [b \in Grants!Budgets |-> Grants!NoWindow]
    BY <1>2 DEF Grants!NewRequest
  <1>6. "deploys" \notin Grants!Budgets /\ "day" \in Grants!Budgets /\ "hour" \in Grants!Budgets /\ "value" \in Grants!Budgets
    BY DEF Grants!Budgets, Grants!Counted
  <1>7. top["deploys"] = t.maxDeploys /\ \A b \in Grants!Budgets : top[b] = t.max[b]
    BY <1>2, <1>4, <1>6
  <1>8. GrantShape
    <2>1. Grants!NoEdit("new") \in EditRecord /\ Grants!NoEdit("new").step = "new"
      BY DEF Grants!NoEdit, EditRecord
    <2>2. top \in [Grants!Budgets \cup {"deploys"} -> Nat]
      BY <1>2, <1>3, <1>4
    <2> QED
      BY <1>2, <1>4, <2>1, <2>2, NewAsk, GrantAssumption DEF GrantShape
  <1>9. RowFits
    <2>1. \A b \in Grants!Budgets : Grants!Window(b, 0) >= -1
      BY WindowFacts, GrantAssumption DEF Grants!Windows
    <2> QED
      BY <1>2, <1>3, <1>4, <1>7, <2>1 DEF RowFits, Grants!NoWindow
  <1>10. \A r \in GrantRequests : AskKnows(r)
    BY <1>4, <1>5, <1>6 DEF AskKnows, Grants!NoWindow
  <1>11. CountsKept
    <2>1. Deployed = {} /\ Cardinality({}) = 0
      BY <1>5, FS_EmptySet DEF Deployed
    <2>2. \A b \in Grants!Budgets, w \in Grants!Windows : Grants!Took(b, w) = {} /\ Grants!Gave(b, w) = {}
      BY <1>5 DEF Grants!Took, Grants!Gave, Grants!Windows, Grants!NoWindow
    <2>3. Grants!CountersExact
      BY <1>4 DEF Grants!CountersExact
    <2>4. \A b \in Grants!Budgets : top[b] \in Nat
      BY <1>3, <1>7
    <2>5. \A b \in Grants!Budgets, w \in Grants!Windows : Cardinality(Grants!Took(b, w)) <= Cardinality(Grants!Gave(b, w)) + top[b]
      BY <2>1, <2>2, <2>4
    <2> QED
      BY <1>4, <2>1, <2>3, <2>5 DEF CountsKept
  <1> QED
    BY <1>8, <1>9, <1>10, <1>11 DEF GInv

LEMMA GrantNextInv == GInv /\ [Grants!GrantNext]_grantVars => GInv'
  <1> SUFFICES ASSUME GInv, [Grants!GrantNext]_grantVars PROVE GInv'
    OBVIOUS
  <1>1. CASE Grants!GrantNext
    <2>1. ASSUME NEW r \in GrantRequests, NEW token \in {1, 2}, NEW event \in Grants!Events, NEW c \in Grants!ContractsOf(event),
                 Grants!enforceAgentGrant(r, token, event, c)
          PROVE  GInv'
      BY <2>1, GrantEnforce
    <2>2. ASSUME NEW r \in GrantRequests, Grants!resetWindow(r) \/ Grants!consumeBudget(r) \/ Grants!consumeValueBudget(r)
          PROVE  GInv'
      BY <2>2, GrantReset, GrantConsume, GrantConsumeValue
    <2>3. ASSUME NEW r \in GrantRequests, \/ Grants!Accept(r) \/ Grants!Fail(r) \/ Grants!Refunded(r)
                                           \/ \E b \in Grants!Budgets : Grants!refundBudget(r, b)
          PROVE  GInv'
      BY <2>3, GrantAccept, GrantRefund
    <2>4. ASSUME NEW r \in GrantRequests, \/ Grants!RunJob(r) \/ Grants!reserveDeployBudget(r)
                                           \/ Grants!recordDeployedContracts(r) \/ Grants!releaseDeployBudget(r)
          PROVE  GInv'
      BY <2>4, GrantRun, GrantDeploy
    <2>5. ASSUME NEW e \in GrantEditors, Grants!validateGrantShape(e) \/ Grants!updateAgentGrant(e)
          PROVE  GInv'
      BY <2>5, GrantEditRead, GrantEditWrite
    <2>6. CASE Grants!revokeAgentGrant \/ Grants!rotateAgentGrantToken \/ Grants!NextHour
      BY <2>6, GrantAround
    <2> QED
      BY <1>1, <2>1, <2>2, <2>3, <2>4, <2>5, <2>6 DEF Grants!GrantNext
  <1>2. CASE UNCHANGED grantVars
    <2>1. UNCHANGED <<grant, hour, grantRequest, edit, top>>
      BY <1>2 DEF grantVars
    <2>2. GrantShape' /\ RowFits
      BY <2>1 DEF GInv, GrantShape
    <2>3. Grows
      BY <2>1 DEF GInv, GrantShape, GrantRow, WindowOrNone, Grants!Windows, Grants!NoWindow, Grows
    <2> QED
      BY <2>1, <2>2, <2>3, IssuerStep DEF RowFits
  <1> QED
    BY <1>1, <1>2

LEMMA GrantInvHolds == GInv => Grants!GrantTypeOK /\ Grants!BudgetsHold
  <1> SUFFICES ASSUME GInv PROVE Grants!GrantTypeOK /\ Grants!BudgetsHold
    OBVIOUS
  <1>1. Grants!GrantTypeOK
    BY DEF GInv, GrantShape, GrantRow, GrantList, WindowOrNone, Grants!GrantTypeOK
  <1>2. ASSUME NEW b \in Grants!Budgets, NEW w \in Grants!Windows
        PROVE  Grants!Cardinality(Grants!Took(b, w) \ Grants!Gave(b, w)) <= top[b] + Grants!Cardinality(Grants!Gave(b, w) \ Grants!Took(b, w))
    <2> DEFINE T == Grants!Took(b, w)
               G == Grants!Gave(b, w)
    <2>1. IsFiniteSet(T) /\ IsFiniteSet(G) /\ Cardinality(T) <= Cardinality(G) + top[b] /\ top[b] \in Nat
      BY CountFacts DEF GInv, CountsKept, GrantShape
    <2> HIDE DEF T, G
    <2>2. /\ IsFiniteSet(T \cap G) /\ IsFiniteSet(T \ G) /\ IsFiniteSet(G \ T)
          /\ Cardinality(T \ G) = Cardinality(T) - Cardinality(T \cap G)
          /\ Cardinality(G \ T) = Cardinality(G) - Cardinality(T \cap G)
      <3>1. T \cap G = G \cap T
        OBVIOUS
      <3>2. IsFiniteSet(T \cap G) /\ IsFiniteSet(T \ G) /\ Cardinality(T \ G) = Cardinality(T) - Cardinality(T \cap G)
        BY <2>1, FS_Difference, FS_Intersection
      <3>3. IsFiniteSet(G \ T) /\ Cardinality(G \ T) = Cardinality(G) - Cardinality(G \cap T)
        BY <2>1, FS_Difference
      <3> QED
        BY <3>1, <3>2, <3>3
    <2>3. Cardinality(T) \in Nat /\ Cardinality(G) \in Nat /\ Cardinality(T \cap G) \in Nat
      BY <2>1, <2>2, FS_CardinalityType
    <2>4. Cardinality(T \ G) <= top[b] + Cardinality(G \ T)
      BY <2>1, <2>2, <2>3
    <2> QED
      BY <2>4, CountFacts DEF T, G
  <1>3. grant.deploysUsed <= top["deploys"]
    BY DEF GInv, RowFits
  <1>4. grant.deploysUsed = Grants!Cardinality({r \in GrantRequests : grantRequest[r].step \in {"sent", "landed"}})
    BY CountFacts DEF GInv, CountsKept, Deployed
  <1>5. Grants!CountersExact
    BY DEF GInv, CountsKept
  <1> QED
    BY <1>1, <1>2, <1>3, <1>4, <1>5 DEF Grants!BudgetsHold

GrantPart == part = "grants" => GInv

\* No window of a grant ever admits more than its largest budget, and its counters say what was taken and given back,
\* for every number of requests, refunds and edits and every length of a day (consumeBudget, refundBudget,
\* reserveDeployBudget).
THEOREM BudgetsHoldAlways == Spec => []BudgetsHold
  <1>1. Init => GrantPart
    BY GrantInitInv DEF Init, GrantPart
  <1>2. GrantPart /\ [Next]_vars => GrantPart'
    <2> SUFFICES ASSUME GrantPart, [Next]_vars PROVE GrantPart'
      OBVIOUS
    <2>1. CASE UNCHANGED <<part, grantVars>>
      BY <2>1, GrantNextInv DEF GrantPart, grantVars
    <2>2. CASE Only("grants") /\ Grants!GrantNext
      BY <2>2, GrantNextInv DEF GrantPart, Only
    <2>3. CASE part # "grants" /\ part' = part
      BY <2>3 DEF GrantPart
    <2>4. part = "grants" /\ Next => Only("grants") /\ Grants!GrantNext
      BY DEF Next, Only
    <2>5. Next => part' = part
      BY DEF Next, Only
    <2>6. UNCHANGED vars => UNCHANGED <<part, grantVars>>
      BY DEF vars
    <2> QED
      BY <2>1, <2>2, <2>3, <2>4, <2>5, <2>6
  <1>3. GrantPart => BudgetsHold
    BY GrantInvHolds DEF GrantPart, BudgetsHold
  <1> QED
    BY <1>1, <1>2, <1>3, PTL DEF Spec

-----------------------------------------------------------------------------
(* The rate limiter.                                                       *)

LEMMA LimitCardinality == \A S : Limiter!Cardinality(S) = Cardinality(S)
  BY DEF Limiter!Cardinality, Cardinality

\* What is recorded in a set of times is finite.
LEMMA RecordedFacts ==
    ASSUME NEW at \in Limiter!Times, NEW W \in SUBSET (0..LimitSeconds)
    PROVE  IsFiniteSet(Limiter!Recorded(at, W)) /\ Limiter!CountIn(at, W) = Cardinality(Limiter!Recorded(at, W))
           /\ Limiter!CountIn(at, W) \in Nat
  <1> DEFINE At(u) == {u} \X (1..at[u])
  <1>1. IsFiniteSet(W)
    <2>1. 0 \in Int /\ LimitSeconds \in Int
      BY LimitAssumption
    <2>2. IsFiniteSet(0..LimitSeconds)
      BY <2>1, FS_Interval
    <2> QED
      BY <2>2, FS_Subset
  <1>2. ASSUME NEW u \in W PROVE IsFiniteSet(At(u))
    <2>1. at[u] \in Int
      BY DEF Limiter!Times
    <2>2. IsFiniteSet({u})
      BY FS_Singleton
    <2>3. IsFiniteSet(1..at[u])
      BY <2>1, FS_Interval
    <2> QED
      BY <2>2, <2>3, FS_Product
  <1>3. IsFiniteSet({At(u) : u \in W})
    <2> DEFINE f == [u \in W |-> At(u)]
    <2>1. f \in Surjection(W, {At(u) : u \in W})
      BY DEF Surjection
    <2> HIDE DEF f
    <2> QED
      BY <1>1, <2>1, FS_Surjection
  <1>4. IsFiniteSet(UNION {At(u) : u \in W})
    <2> DEFINE U == {At(u) : u \in W}
    <2>1. \A T \in U : IsFiniteSet(T)
      BY <1>2
    <2> HIDE DEF U
    <2> SUFFICES IsFiniteSet(UNION U)
      BY DEF U
    <2> QED
      BY <1>3, <2>1, FS_UNION DEF U
  <1>5. IsFiniteSet(Limiter!Recorded(at, W))
    BY <1>4 DEF Limiter!Recorded
  <1> QED
    BY <1>5, LimitCardinality, FS_CardinalityType DEF Limiter!CountIn

\* Only the counts of the times matter, and times without a record do not.
LEMMA CountSame ==
    ASSUME NEW at \in Limiter!Times, NEW bt \in Limiter!Times, NEW V \in SUBSET (0..LimitSeconds), NEW W \in SUBSET (0..LimitSeconds),
           \A u \in V \cap W : at[u] = bt[u], \A u \in V \ W : at[u] = 0, \A u \in W \ V : bt[u] = 0
    PROVE  Limiter!CountIn(at, V) = Limiter!CountIn(bt, W)
  <1>1. ASSUME NEW x PROVE x \in Limiter!Recorded(at, V) <=> x \in Limiter!Recorded(bt, W)
    <2>1. x \in Limiter!Recorded(at, V) <=> \E u \in V : x \in {u} \X (1..at[u])
      BY DEF Limiter!Recorded
    <2>2. x \in Limiter!Recorded(bt, W) <=> \E u \in W : x \in {u} \X (1..bt[u])
      BY DEF Limiter!Recorded
    <2> QED
      BY <2>1, <2>2
  <1>2. Limiter!Recorded(at, V) = Limiter!Recorded(bt, W)
    BY <1>1
  <1> QED
    BY <1>2 DEF Limiter!CountIn

LEMMA CountLess ==
    ASSUME NEW at \in Limiter!Times, NEW V \in SUBSET (0..LimitSeconds), NEW W \in SUBSET (0..LimitSeconds), V \subseteq W
    PROVE  Limiter!CountIn(at, V) <= Limiter!CountIn(at, W)
  <1>1. Limiter!Recorded(at, V) \subseteq Limiter!Recorded(at, W)
    BY DEF Limiter!Recorded
  <1> QED
    BY <1>1, RecordedFacts, FS_Subset

LEMMA CountNone ==
    ASSUME NEW at \in Limiter!Times, NEW W \in SUBSET (0..LimitSeconds), Limiter!CountIn(at, W) = 0
    PROVE  \A u \in W : at[u] = 0
  <1>1. Limiter!Recorded(at, W) = {}
    BY RecordedFacts, FS_EmptySet
  <1>2. ASSUME NEW u \in W, at[u] # 0 PROVE FALSE
    <2>1. at[u] \in Nat
      BY DEF Limiter!Times
    <2>2. <<u, 1>> \in {u} \X (1..at[u])
      BY <1>2, <2>1
    <2>3. <<u, 1>> \in Limiter!Recorded(at, W)
      BY <2>2 DEF Limiter!Recorded
    <2> QED
      BY <1>1, <2>3
  <1> QED
    BY <1>2

\* New records at a time of the window add up.
LEMMA CountAdd ==
    ASSUME NEW at \in Limiter!Times, NEW W \in SUBSET (0..LimitSeconds), NEW c \in W, NEW n \in Nat
    PROVE  /\ [at EXCEPT ![c] = @ + n] \in Limiter!Times
           /\ Limiter!CountIn([at EXCEPT ![c] = @ + n], W) = Limiter!CountIn(at, W) + n
  <1> DEFINE bt == [at EXCEPT ![c] = @ + n]
             old == Limiter!Recorded(at, W)
             new == {c} \X ((at[c] + 1)..(at[c] + n))
  <1>1. bt \in Limiter!Times /\ at[c] \in Nat /\ bt[c] = at[c] + n /\ \A u \in W \ {c} : bt[u] = at[u]
    BY DEF Limiter!Times
  <1> HIDE DEF bt
  <1>2. ASSUME NEW x PROVE x \in Limiter!Recorded(bt, W) <=> x \in old \cup new
    <2>1. x \in old <=> \E u \in W : x \in {u} \X (1..at[u])
      BY DEF Limiter!Recorded
    <2>2. x \in Limiter!Recorded(bt, W) <=> \E u \in W : x \in {u} \X (1..bt[u])
      BY DEF Limiter!Recorded
    <2>3. x \in {c} \X (1..bt[c]) <=> x \in {c} \X (1..at[c]) \/ x \in new
      BY <1>1
    <2> QED
      BY <1>1, <2>1, <2>2, <2>3
  <1>3. Limiter!Recorded(bt, W) = old \cup new
    BY <1>2
  <1>4. old \cap new = {}
    <2> SUFFICES ASSUME NEW x \in old, x \in new PROVE FALSE
      OBVIOUS
    <2>1. PICK u \in W : x \in {u} \X (1..at[u])
      BY DEF Limiter!Recorded
    <2> QED
      BY <1>1, <2>1
  <1>5. IsFiniteSet(new) /\ Cardinality(new) = n
    <2>0. at[c] + 1 \in Int /\ at[c] + n \in Int
      BY <1>1
    <2>1. IsFiniteSet((at[c] + 1)..(at[c] + n)) /\ Cardinality((at[c] + 1)..(at[c] + n)) = n
      <3>1. /\ IsFiniteSet((at[c] + 1)..(at[c] + n))
            /\ Cardinality((at[c] + 1)..(at[c] + n)) = IF at[c] + 1 > at[c] + n THEN 0 ELSE (at[c] + n) - (at[c] + 1) + 1
        BY <2>0, FS_Interval
      <3> QED
        BY <1>1, <3>1
    <2>2. IsFiniteSet({c}) /\ Cardinality({c}) = 1
      BY FS_Singleton
    <2>3. Cardinality(new) = 1 * n /\ IsFiniteSet(new)
      BY <2>1, <2>2, FS_Product
    <2> QED
      BY <2>3
  <1>6. IsFiniteSet(old) /\ Cardinality(old) = Limiter!CountIn(at, W) /\ Cardinality(old) \in Nat
    BY RecordedFacts
  <1> HIDE DEF old, new
  <1>7. Cardinality(old \cup new) = Cardinality(old) + n
    BY <1>4, <1>5, <1>6, FS_Union, FS_EmptySet
  <1> QED
    BY <1>1, <1>3, <1>6, <1>7, RecordedFacts DEF bt

-----------------------------------------------------------------------------

\* What the table says of a key and a time.
Held(k, t) == IF k \in Limiter!Present THEN hits[k][t] ELSE 0

\* In the window under way, and after it, the table agrees with what was granted.
TableAgrees ==
    /\ \A k \in Limiter!Keys : \A t \in 0..LimitSeconds : t > clock - LimitWindow => granted[k][t] = Held(k, t)
    /\ \A k \in Limiter!Keys : \A t \in 0..LimitSeconds : t > clock => granted[k][t] = 0

LInv ==
    /\ Limiter!LimiterTypeOK /\ IsFiniteSet(Limiter!Present)
    /\ TableAgrees
    /\ Limiter!GroupCountsExact /\ Limiter!WindowHolds

LEMMA SpanFacts ==
    ASSUME NEW t \in 0..LimitSeconds
    PROVE  /\ Limiter!Span(t) \in SUBSET (0..LimitSeconds) /\ t \in Limiter!Span(t) /\ \A u \in Limiter!Span(t) : u <= t
           /\ \A u \in 0..LimitSeconds : u \in Limiter!Span(t) <=> u <= t /\ u > t - LimitWindow
  BY LimitAssumption DEF Limiter!Span

LEMMA NeverFacts == Limiter!Never \in Limiter!Times /\ \A W \in SUBSET (0..LimitSeconds) : Limiter!CountIn(Limiter!Never, W) = 0
  <1>1. Limiter!Never \in Limiter!Times
    BY DEF Limiter!Never, Limiter!Times
  <1>2. ASSUME NEW W \in SUBSET (0..LimitSeconds) PROVE Limiter!CountIn(Limiter!Never, W) = 0
    <2>1. Limiter!Recorded(Limiter!Never, W) = {}
      BY DEF Limiter!Recorded, Limiter!Never
    <2> QED
      BY <2>1, LimitCardinality, FS_EmptySet DEF Limiter!CountIn
  <1> QED
    BY <1>1, <1>2

LEMMA LInvInit == Limiter!LimiterInit => LInv
  <1> SUFFICES ASSUME Limiter!LimiterInit PROVE LInv
    OBVIOUS
  <1>1. Limiter!Present = {} /\ IsFiniteSet(Limiter!Present) /\ Cardinality(Limiter!Present) = 0
    BY FS_EmptySet DEF Limiter!LimiterInit, Limiter!Present
  <1>2. keyOrder \in Seq(Limiter!Present) /\ Len(keyOrder) = 0
    BY DEF Limiter!LimiterInit
  <1>3. Limiter!LimiterTypeOK
    BY <1>1, <1>2, NeverFacts, LimitCardinality, LimitAssumption DEF Limiter!LimiterInit, Limiter!LimiterTypeOK
  <1>4. TableAgrees
    BY <1>1 DEF Limiter!LimiterInit, TableAgrees, Held, Limiter!Never
  <1>5. Limiter!GroupCountsExact
    <2>1. \A g : Limiter!OfGroup(Limiter!Present, g) = {}
      BY <1>1 DEF Limiter!OfGroup
    <2>2. Limiter!Cardinality({}) = 0
      BY LimitCardinality, FS_EmptySet
    <2>3. \A g \in LimitGroups : Limiter!Cardinality(Limiter!OfGroup(Limiter!Present, g)) = 0
      BY <2>1, <2>2
    <2>4. Limiter!Cardinality(Limiter!Present) = 0
      BY <1>1, <2>2
    <2> QED
      BY <2>3, <2>4, LimitAssumption DEF Limiter!LimiterInit, Limiter!GroupCountsExact
  <1>6. Limiter!WindowHolds
    <2>1. ASSUME NEW k \in Limiter!Keys, NEW t \in 0..clock PROVE Limiter!CountIn(granted[k], Limiter!Span(t)) <= limit
      <3>1. t \in 0..LimitSeconds /\ granted[k] = Limiter!Never
        BY <2>1, LimitAssumption DEF Limiter!LimiterInit
      <3> QED
        BY <3>1, SpanFacts, NeverFacts, LimitAssumption DEF Limiter!LimiterInit
    <2> QED
      BY <2>1 DEF Limiter!WindowHolds, Limiter!LimiterInit
  <1> QED
    BY <1>1, <1>3, <1>4, <1>5, <1>6 DEF LInv

\* Keys that leave the table leave their group's count.
LEMMA DropFacts ==
    ASSUME LInv, NEW S \in SUBSET Limiter!Present
    PROVE  /\ Limiter!dropKeys(groupCounts, S) \in [LimitGroups -> Nat]
           /\ \A g \in LimitGroups : Limiter!dropKeys(groupCounts, S)[g] = Cardinality(Limiter!OfGroup(Limiter!Present \ S, g))
  <1> SUFFICES ASSUME NEW g \in LimitGroups
               PROVE  /\ Limiter!dropKeys(groupCounts, S)[g] \in Nat
                      /\ Limiter!dropKeys(groupCounts, S)[g] = Cardinality(Limiter!OfGroup(Limiter!Present \ S, g))
    BY DEF Limiter!dropKeys
  <1> DEFINE A == Limiter!OfGroup(Limiter!Present, g)
             B == Limiter!OfGroup(S, g)
             C == Limiter!OfGroup(Limiter!Present \ S, g)
  <1>1. B \subseteq A /\ C = A \ B /\ A \subseteq Limiter!Present /\ A \cap B = B
    BY DEF Limiter!OfGroup
  <1>2. IsFiniteSet(A) /\ IsFiniteSet(B) /\ IsFiniteSet(C)
    BY <1>1, FS_Subset DEF LInv
  <1>3. groupCounts[g] = Cardinality(A) /\ Limiter!Cardinality(B) = Cardinality(B)
    BY LimitCardinality DEF LInv, Limiter!GroupCountsExact
  <1> HIDE DEF A, B, C
  <1>9. Cardinality(A \ B) = Cardinality(A) - Cardinality(A \cap B)
    BY <1>2, FS_Difference
  <1>4. Cardinality(C) = Cardinality(A) - Cardinality(B) /\ Cardinality(A) \in Nat /\ Cardinality(B) \in Nat /\ Cardinality(C) \in Nat
    BY <1>1, <1>2, <1>9, FS_CardinalityType
  <1>5. Limiter!dropKeys(groupCounts, S)[g] = IF Cardinality(A) - Cardinality(B) <= 0 THEN 0 ELSE Cardinality(A) - Cardinality(B)
    BY <1>3 DEF Limiter!dropKeys, B
  <1> QED
    BY <1>4, <1>5 DEF C

\* the order of the keys that stay
LEMMA WithoutType ==
    ASSUME NEW S, IsFiniteSet(S), NEW q \in Limiter!Without(S)
    PROVE  q \in Seq(S) /\ Len(q) = Cardinality(S) /\ Cardinality(S) \in Nat
  <1>1. Cardinality(S) \in Nat /\ Limiter!Cardinality(S) = Cardinality(S)
    BY LimitCardinality, FS_CardinalityType
  <1>2. q \in [1..Cardinality(S) -> S]
    BY <1>1 DEF Limiter!Without
  <1>3. ASSUME NEW n \in Nat, q \in [1..n -> S] PROVE q \in Seq(S) /\ Len(q) = n
    BY <1>3
  <1> QED
    BY <1>1, <1>2, <1>3

-----------------------------------------------------------------------------

\* The oldest key makes room for a new one.
LEMMA EvictFacts ==
    ASSUME LInv, NEW k \in Limiter!Keys, ~Limiter!groupIsFull(k)
    PROVE  LET rest == Limiter!Present \ (Limiter!Evicted(k) \cup {k}) IN
           /\ Limiter!Evicted(k) \subseteq Limiter!Present /\ k \notin Limiter!Evicted(k)
           /\ IsFiniteSet(rest) /\ IsFiniteSet(rest \cup {k})
           /\ Cardinality(rest \cup {k}) = Cardinality(rest) + 1 /\ Cardinality(rest \cup {k}) <= LimitKeys
           /\ Limiter!admitKey(k) \in [LimitGroups -> Nat]
           /\ \A g \in LimitGroups : /\ Limiter!admitKey(k)[g] = Cardinality(Limiter!OfGroup(rest \cup {k}, g))
                                     /\ Limiter!admitKey(k)[g] <= LimitGroupKeys
  <1> DEFINE P == Limiter!Present
             E == Limiter!Evicted(k)
             rest == P \ (E \cup {k})
             table == rest \cup {k}
  <1> SUFFICES /\ E \subseteq P /\ k \notin E /\ IsFiniteSet(rest) /\ IsFiniteSet(table)
               /\ Cardinality(table) = Cardinality(rest) + 1 /\ Cardinality(table) <= LimitKeys
               /\ Limiter!admitKey(k) \in [LimitGroups -> Nat]
               /\ \A g \in LimitGroups : /\ Limiter!admitKey(k)[g] = Cardinality(Limiter!OfGroup(table, g))
                                         /\ Limiter!admitKey(k)[g] <= LimitGroupKeys
    OBVIOUS
  <1> HIDE DEF table
  <1>1. IsFiniteSet(P) /\ Cardinality(P) \in Nat /\ Cardinality(P) <= LimitKeys /\ keyOrder \in Seq(P) /\ Len(keyOrder) = Cardinality(P)
        /\ Limiter!Cardinality(P) = Cardinality(P)
    BY FS_CardinalityType, LimitCardinality DEF LInv, Limiter!LimiterTypeOK, Limiter!GroupCountsExact
  <1>2. CASE k \in P
    <2>1. E = {} /\ rest = P \ {k} /\ table = P
      BY <1>2 DEF table, Limiter!Evicted
    <2>2. IsFiniteSet(rest) /\ Cardinality(rest) = Cardinality(P) - 1
      BY <1>1, <1>2, <2>1, FS_RemoveElement
    <2>3. Limiter!admitKey(k) = groupCounts
      BY <1>2 DEF Limiter!admitKey
    <2>4. groupCounts \in [LimitGroups -> Nat] /\ \A g \in LimitGroups : groupCounts[g] = Cardinality(Limiter!OfGroup(P, g)) /\ groupCounts[g] <= LimitGroupKeys
      BY LimitCardinality DEF LInv, Limiter!LimiterTypeOK, Limiter!GroupCountsExact
    <2> HIDE DEF rest, E
    <2>5. IsFiniteSet(table) /\ Cardinality(table) = Cardinality(rest) + 1 /\ Cardinality(table) <= LimitKeys
      BY <1>1, <2>1, <2>2
    <2>6. \A g \in LimitGroups : Limiter!admitKey(k)[g] = Cardinality(Limiter!OfGroup(table, g)) /\ Limiter!admitKey(k)[g] <= LimitGroupKeys
      BY <2>1, <2>3, <2>4
    <2> QED
      BY <2>1, <2>2, <2>3, <2>4, <2>5, <2>6
  <1>3. CASE k \notin P
    <2>1. E \subseteq P /\ IsFiniteSet(P \ E) /\ Cardinality(P \ E) \in Nat /\ Cardinality(P \ E) + 1 <= LimitKeys /\ rest = P \ E
      <3>1. CASE Cardinality(P) >= LimitKeys
        <4>1. E = {Head(keyOrder)} /\ keyOrder # <<>>
          BY <1>1, <1>3, <3>1, LimitAssumption DEF Limiter!Evicted
        <4>2. Head(keyOrder) \in P
          BY <1>1, <4>1, HeadTailProperties
        <4>3. IsFiniteSet(P \ E) /\ Cardinality(P \ E) = Cardinality(P) - 1
          BY <1>1, <4>1, <4>2, FS_RemoveElement
        <4> QED
          BY <1>1, <1>3, <4>1, <4>2, <4>3, FS_CardinalityType
      <3>2. CASE ~(Cardinality(P) >= LimitKeys)
        BY <1>1, <1>3, <3>2, LimitAssumption DEF Limiter!Evicted
      <3> QED
        BY <3>1, <3>2
    <2>2. k \notin rest /\ IsFiniteSet(table) /\ Cardinality(table) = Cardinality(rest) + 1
      BY <1>3, <2>1, FS_AddElement DEF table
    <2>3. Limiter!admitKey(k) = [Limiter!dropKeys(groupCounts, E) EXCEPT ![k.group] = @ + 1]
      BY <1>3 DEF Limiter!admitKey
    <2>4. Limiter!dropKeys(groupCounts, E) \in [LimitGroups -> Nat]
          /\ \A g \in LimitGroups : Limiter!dropKeys(groupCounts, E)[g] = Cardinality(Limiter!OfGroup(P \ E, g))
      BY <2>1, DropFacts
    <2>5. k.group \in LimitGroups
      BY DEF Limiter!Keys
    <2>6. ASSUME NEW g \in LimitGroups
          PROVE  /\ Limiter!admitKey(k)[g] = Cardinality(Limiter!OfGroup(table, g))
                 /\ Limiter!admitKey(k)[g] <= LimitGroupKeys
      <3>1. groupCounts[g] = Cardinality(Limiter!OfGroup(P, g)) /\ groupCounts[g] <= LimitGroupKeys /\ groupCounts[g] \in Nat
        BY LimitCardinality DEF LInv, Limiter!LimiterTypeOK, Limiter!GroupCountsExact
      <3>2. Limiter!OfGroup(P \ E, g) \subseteq Limiter!OfGroup(P, g) /\ IsFiniteSet(Limiter!OfGroup(P, g)) /\ k \notin Limiter!OfGroup(P \ E, g)
        <4>1. Limiter!OfGroup(P, g) \subseteq P /\ Limiter!OfGroup(P \ E, g) \subseteq Limiter!OfGroup(P, g) /\ k \notin Limiter!OfGroup(P \ E, g)
          BY <1>3 DEF Limiter!OfGroup
        <4> QED
          BY <1>1, <4>1, FS_Subset
      <3>3. IsFiniteSet(Limiter!OfGroup(P \ E, g)) /\ Cardinality(Limiter!OfGroup(P \ E, g)) <= groupCounts[g]
            /\ Cardinality(Limiter!OfGroup(P \ E, g)) \in Nat
        BY <3>1, <3>2, FS_Subset, FS_CardinalityType
      <3>4. CASE g = k.group
        <4>1. Limiter!OfGroup(table, g) = Limiter!OfGroup(P \ E, g) \cup {k}
          BY <2>1, <3>4 DEF Limiter!OfGroup, table
        <4>2. Cardinality(Limiter!OfGroup(table, g)) = Cardinality(Limiter!OfGroup(P \ E, g)) + 1
          BY <3>2, <3>3, <4>1, FS_AddElement
        <4>3. groupCounts[g] < LimitGroupKeys
          BY <1>3, <3>1, <3>4, LimitAssumption DEF Limiter!groupIsFull
        <4>4. Limiter!admitKey(k)[g] = Limiter!dropKeys(groupCounts, E)[g] + 1
          BY <2>3, <2>4, <3>4
        <4>5. Limiter!dropKeys(groupCounts, E)[g] = Cardinality(Limiter!OfGroup(P \ E, g))
          BY <2>4
        <4> QED
          BY <3>1, <3>3, <4>2, <4>3, <4>4, <4>5, LimitAssumption
      <3>5. CASE g # k.group
        <4>1. Limiter!OfGroup(table, g) = Limiter!OfGroup(P \ E, g)
          BY <2>1, <3>5 DEF Limiter!OfGroup, table
        <4>2. Cardinality(Limiter!OfGroup(table, g)) = Cardinality(Limiter!OfGroup(P \ E, g))
          BY <4>1, Zenon
        <4>3. Limiter!admitKey(k)[g] = Limiter!dropKeys(groupCounts, E)[g]
          BY <2>3, <2>4, <2>5, <3>5
        <4>4. Limiter!dropKeys(groupCounts, E)[g] = Cardinality(Limiter!OfGroup(P \ E, g))
          BY <2>4
        <4> QED
          BY <3>1, <3>3, <4>2, <4>3, <4>4, LimitAssumption
      <3> QED
        BY <3>4, <3>5
    <2>7. Limiter!admitKey(k) \in [LimitGroups -> Nat]
      BY <2>3, <2>4, <2>5
    <2> HIDE DEF rest
    <2>8. IsFiniteSet(rest) /\ k \notin E /\ Cardinality(table) <= LimitKeys
      BY <1>3, <2>1, <2>2
    <2> HIDE DEF E
    <2> QED
      BY <2>1, <2>2, <2>6, <2>7, <2>8
  <1> QED
    BY <1>2, <1>3

\* A check of a key, whether its requests fit or not.
LEMMA LInvCheck ==
    ASSUME LInv, NEW k \in Limiter!Keys, NEW n \in LimitCounts, Limiter!checkMany(k, n)
    PROVE  LInv'
  <1> DEFINE P == Limiter!Present
             E == Limiter!Evicted(k)
             rest == P \ (E \cup {k})
             Of == Limiter!HitsOf(k)
             at == IF Limiter!fits(k, n) THEN [Of EXCEPT ![clock] = @ + n] ELSE Of
             grants == [granted[k] EXCEPT ![clock] = @ + n]
  <1>0. n \in Nat /\ LimitWindow \in Nat /\ clock \in 0..LimitSeconds /\ clock \in Nat /\ k.group \in LimitGroups /\ ~Limiter!groupIsFull(k)
    BY LimitAssumption DEF LInv, Limiter!LimiterTypeOK, Limiter!Keys, Limiter!checkMany
  <1>1. /\ E \subseteq P /\ k \notin E /\ IsFiniteSet(rest) /\ IsFiniteSet(rest \cup {k})
        /\ Cardinality(rest \cup {k}) = Cardinality(rest) + 1 /\ Cardinality(rest \cup {k}) <= LimitKeys
        /\ Limiter!admitKey(k) \in [LimitGroups -> Nat]
        /\ \A g \in LimitGroups : /\ Limiter!admitKey(k)[g] = Cardinality(Limiter!OfGroup(rest \cup {k}, g))
                                  /\ Limiter!admitKey(k)[g] <= LimitGroupKeys
    BY <1>0, EvictFacts
  <1>2. /\ groupCounts' = Limiter!admitKey(k) /\ hits' = [e \in rest \cup {k} |-> IF e = k THEN at ELSE hits[e]]
        /\ (\E q \in Limiter!Without(rest) : keyOrder' = Append(q, k)) /\ limit' = limit /\ clock' = clock
        /\ granted' = [e \in Limiter!Keys |-> IF e \in E THEN Limiter!Never
                                              ELSE IF e = k /\ Limiter!fits(k, n) THEN grants ELSE granted[e]]
    BY DEF Limiter!checkMany
  <1>3. P \subseteq Limiter!Keys /\ granted \in [Limiter!Keys -> Limiter!Times] /\ \A e \in P : hits[e] \in Limiter!Times
    BY DEF LInv, Limiter!LimiterTypeOK
  <1>4. Of \in Limiter!Times /\ \A t \in 0..LimitSeconds : Of[t] = IF t \in Limiter!Span(clock) THEN Held(k, t) ELSE 0
    <2>1. CASE k \in P
      BY <1>3, <2>1 DEF Limiter!HitsOf, Limiter!InWindow, Limiter!Times, Held
    <2>2. CASE k \notin P
      BY <2>2, NeverFacts DEF Limiter!HitsOf, Limiter!Never, Held
    <2> QED
      BY <2>1, <2>2
  <1>5. clock \in Limiter!Span(clock) /\ Limiter!Span(clock) \in SUBSET (0..LimitSeconds)
    BY <1>0, SpanFacts
  <1>6. [Of EXCEPT ![clock] = @ + n] \in Limiter!Times /\ grants \in Limiter!Times
        /\ \A W \in SUBSET (0..LimitSeconds) : clock \in W => Limiter!CountIn(grants, W) = Limiter!CountIn(granted[k], W) + n
    <2>1. [Of EXCEPT ![clock] = @ + n] \in Limiter!Times
      BY <1>0, <1>4, <1>5, CountAdd
    <2>2. granted[k] \in Limiter!Times
      BY <1>3
    <2>3. \A W \in SUBSET (0..LimitSeconds) : clock \in W =>
             grants \in Limiter!Times /\ Limiter!CountIn(grants, W) = Limiter!CountIn(granted[k], W) + n
      BY <1>0, <2>2, CountAdd
    <2> QED
      BY <1>5, <2>1, <2>3
  <1>7. at \in Limiter!Times
    BY <1>4, <1>6
  <1> HIDE DEF Of, at, grants
  <1> DEFINE table == rest \cup {k}
  <1>8. Limiter!Present' = table /\ P' = table
    BY <1>2 DEF Limiter!Present
  <1>9. Limiter!Cardinality(table) = Cardinality(table)
    BY LimitCardinality
  <1>10. table \subseteq Limiter!Keys /\ rest \subseteq table
    BY <1>3
  <1>11. keyOrder' \in Seq(table) /\ Len(keyOrder') = Cardinality(table)
    <2>1. PICK q \in Limiter!Without(rest) : keyOrder' = Append(q, k)
      BY <1>2
    <2>2. q \in Seq(rest) /\ Len(q) = Cardinality(rest)
      BY <1>1, <2>1, WithoutType
    <2>3. q \in Seq(table) /\ k \in table
      BY <1>10, <2>2
    <2> HIDE DEF table, rest
    <2>4. keyOrder' \in Seq(table) /\ Len(keyOrder') = Len(q) + 1
      BY <2>1, <2>3
    <2> QED
      BY <1>1, <2>2, <2>4 DEF table
  <1>12. Limiter!LimiterTypeOK'
    <2>1. \A e \in table : hits'[e] \in Limiter!Times
      BY <1>2, <1>3, <1>7
    <2>2. granted' \in [Limiter!Keys -> Limiter!Times]
      BY <1>2, <1>3, <1>6, NeverFacts
    <2>3. limit' \in LimitValues /\ clock' \in 0..LimitSeconds
      BY <1>0, <1>2 DEF LInv, Limiter!LimiterTypeOK
    <2>4. groupCounts' \in [LimitGroups -> Nat]
      BY <1>1, <1>2
    <2> HIDE DEF table
    <2> QED
      BY <1>8, <1>9, <1>10, <1>11, <2>1, <2>2, <2>3, <2>4 DEF Limiter!LimiterTypeOK
  <1>13. TableAgrees'
    <2> SUFFICES ASSUME NEW e \in Limiter!Keys, NEW t \in 0..LimitSeconds
                 PROVE  /\ t > clock - LimitWindow => granted'[e][t] = Held(e, t)'
                        /\ t > clock => granted'[e][t] = 0
      BY <1>2 DEF TableAgrees
    <2>1. /\ t > clock - LimitWindow => granted[e][t] = Held(e, t)
          /\ t > clock => granted[e][t] = 0
      BY DEF LInv, TableAgrees
    <2>2. CASE e \in E
      <3>1. e \notin table
        BY <1>1, <2>2
      <3>2. Held(e, t)' = 0
        BY <1>8, <3>1 DEF Held
      <3> QED
        BY <1>2, <2>2, <3>2 DEF Limiter!Never
    <2>3. CASE e = k
      <3>1. Held(k, t)' = at[t]
        BY <1>2, <1>8 DEF Held
      <3>2. t > clock - LimitWindow => granted[k][t] = Of[t]
        BY <1>0, <1>4, <2>1, <2>3, SpanFacts
      <3>3. t > clock => Of[t] = 0 /\ t # clock
        BY <1>0, <1>4, SpanFacts
      <3>4. CASE Limiter!fits(k, n)
        <4>1. granted'[k] = [granted[k] EXCEPT ![clock] = @ + n] /\ at = [Of EXCEPT ![clock] = @ + n]
          BY <1>1, <1>2, <3>4 DEF grants, at
        <4>2. granted[k] \in Limiter!Times
          BY <1>3
        <4> QED
          BY <1>0, <1>4, <2>1, <2>3, <3>1, <3>2, <3>3, <4>1, <4>2 DEF Limiter!Times
      <3>5. CASE ~Limiter!fits(k, n)
        BY <1>1, <1>2, <2>1, <2>3, <3>1, <3>2, <3>3, <3>5 DEF at
      <3> QED
        BY <3>4, <3>5
    <2>4. CASE e \notin E /\ e # k
      <3>1. Held(e, t)' = Held(e, t) /\ granted'[e] = granted[e]
        BY <1>2, <1>8, <2>4 DEF Held
      <3> QED
        BY <2>1, <3>1
    <2> QED
      BY <2>2, <2>3, <2>4
  <1>14. Limiter!GroupCountsExact'
    <2>1. \A g \in LimitGroups : /\ Limiter!admitKey(k)[g] = Cardinality(Limiter!OfGroup(table, g))
                                 /\ Limiter!admitKey(k)[g] <= LimitGroupKeys
      BY <1>1
    <2>2. Cardinality(table) <= LimitKeys
      BY <1>1
    <2> HIDE DEF table
    <2>3. \A g \in LimitGroups : groupCounts'[g] = Limiter!Cardinality(Limiter!OfGroup(Limiter!Present', g)) /\ groupCounts'[g] <= LimitGroupKeys
      BY <1>2, <1>8, <2>1, LimitCardinality
    <2>4. \A g : Limiter!OfGroup(Limiter!Present, g)' = Limiter!OfGroup(Limiter!Present', g)
      BY DEF Limiter!OfGroup
    <2> QED
      BY <1>8, <1>9, <2>2, <2>3, <2>4 DEF Limiter!GroupCountsExact
  <1>15. Limiter!WindowHolds'
    <2> SUFFICES ASSUME NEW e \in Limiter!Keys, NEW t \in 0..clock
                 PROVE  \E most \in LimitValues : Limiter!CountIn(granted'[e], Limiter!Span(t)) <= most
      BY <1>2 DEF Limiter!WindowHolds, Limiter!CountIn, Limiter!Recorded, Limiter!Span
    <2>0. t \in 0..LimitSeconds /\ Limiter!Span(t) \in SUBSET (0..LimitSeconds) /\ limit \in LimitValues /\ limit \in Nat
      BY <1>0, SpanFacts, LimitAssumption DEF LInv, Limiter!LimiterTypeOK
    <2>1. PICK most \in LimitValues : Limiter!CountIn(granted[e], Limiter!Span(t)) <= most
      BY DEF LInv, Limiter!WindowHolds
    <2>2. CASE e \in E
      BY <1>2, <2>0, <2>2, NeverFacts
    <2>3. CASE e = k /\ Limiter!fits(k, n) /\ t = clock
      <3>1. granted'[k] = grants
        BY <1>1, <1>2, <2>3
      <3>2. Limiter!CountIn(grants, Limiter!Span(clock)) = Limiter!CountIn(granted[k], Limiter!Span(clock)) + n
        BY <1>5, <1>6
      <3>3. \A u \in Limiter!Span(clock) : granted[k][u] = Of[u]
        BY <1>0, <1>4, SpanFacts DEF LInv, TableAgrees
      <3>4. Limiter!CountIn(granted[k], Limiter!Span(clock)) = Limiter!CountIn(Of, Limiter!Span(clock))
        BY <1>3, <1>4, <1>5, <3>3, CountSame
      <3>5. Limiter!CountIn(Of, Limiter!Span(clock)) + n <= limit
        BY <2>3 DEF Limiter!fits, Of
      <3> QED
        BY <2>0, <2>3, <3>1, <3>2, <3>4, <3>5
    <2>4. CASE e = k /\ Limiter!fits(k, n) /\ t # clock
      <3>1. \A u \in Limiter!Span(t) : u # clock
        BY <1>0, <2>0, <2>4, SpanFacts
      <3>2. granted'[k] = grants /\ \A u \in Limiter!Span(t) : grants[u] = granted[k][u]
        BY <1>1, <1>2, <1>3, <2>0, <2>4, <3>1 DEF grants, Limiter!Times
      <3>3. Limiter!CountIn(grants, Limiter!Span(t)) = Limiter!CountIn(granted[k], Limiter!Span(t))
        BY <1>3, <1>6, <2>0, <3>2, CountSame
      <3> QED
        BY <2>1, <2>4, <3>2, <3>3
    <2>5. CASE e \notin E /\ ~(e = k /\ Limiter!fits(k, n))
      BY <1>2, <2>1, <2>5
    <2> QED
      BY <2>2, <2>3, <2>4, <2>5
  <1> HIDE DEF rest
  <1> QED
    BY <1>1, <1>8, <1>12, <1>13, <1>14, <1>15 DEF LInv

\* The sweep drops keys that were granted nothing in the window.
LEMMA LInvSweep ==
    ASSUME LInv, Limiter!sweep
    PROVE  LInv'
  <1> DEFINE P == Limiter!Present
             stale == {k \in P : Limiter!CountIn(hits[k], Limiter!Span(clock)) = 0}
             kept == P \ stale
  <1>0. LimitWindow \in Nat /\ clock \in 0..LimitSeconds /\ clock \in Nat
    BY LimitAssumption DEF LInv, Limiter!LimiterTypeOK
  <1>1. hits' = [k \in kept |-> hits[k]] /\ keyOrder' \in Limiter!Without(kept) /\ groupCounts' = Limiter!dropKeys(groupCounts, stale)
        /\ limit' = limit /\ clock' = clock /\ granted' = granted
    BY DEF Limiter!sweep
  <1>2. P \subseteq Limiter!Keys /\ granted \in [Limiter!Keys -> Limiter!Times] /\ (\A e \in P : hits[e] \in Limiter!Times)
        /\ IsFiniteSet(P) /\ Cardinality(P) \in Nat /\ Cardinality(P) <= LimitKeys
    BY LimitCardinality, FS_CardinalityType DEF LInv, Limiter!LimiterTypeOK, Limiter!GroupCountsExact
  <1>3. Limiter!Present' = kept /\ stale \subseteq P
    BY <1>1 DEF Limiter!Present
  <1>4. ASSUME NEW k \in stale PROVE \A u \in Limiter!Span(clock) : hits[k][u] = 0
    BY <1>0, <1>2, <1>4, SpanFacts, CountNone
  <1>5. Limiter!dropKeys(groupCounts, stale) \in [LimitGroups -> Nat]
        /\ \A g \in LimitGroups : Limiter!dropKeys(groupCounts, stale)[g] = Cardinality(Limiter!OfGroup(kept, g))
    BY <1>3, DropFacts
  <1> HIDE DEF stale
  <1>6. kept \subseteq P /\ IsFiniteSet(kept) /\ Cardinality(kept) <= Cardinality(P) /\ Cardinality(kept) \in Nat
    BY <1>2, FS_Subset, FS_CardinalityType
  <1>7. keyOrder' \in Seq(kept) /\ Len(keyOrder') = Cardinality(kept)
    BY <1>1, <1>6, WithoutType
  <1>8. Limiter!LimiterTypeOK'
    <2>1. \A e \in kept : hits'[e] \in Limiter!Times
      BY <1>1, <1>2
    <2>2. limit' \in LimitValues /\ clock' \in 0..LimitSeconds
      BY <1>0, <1>1 DEF LInv, Limiter!LimiterTypeOK
    <2> HIDE DEF kept
    <2> QED
      BY <1>1, <1>2, <1>3, <1>5, <1>6, <1>7, <2>1, <2>2, LimitCardinality DEF Limiter!LimiterTypeOK
  <1>9. TableAgrees'
    <2> SUFFICES ASSUME NEW e \in Limiter!Keys, NEW t \in 0..LimitSeconds
                 PROVE  /\ t > clock - LimitWindow => granted[e][t] = Held(e, t)'
                        /\ t > clock => granted[e][t] = 0
      BY <1>1 DEF TableAgrees
    <2>1. /\ t > clock - LimitWindow => granted[e][t] = Held(e, t)
          /\ t > clock => granted[e][t] = 0
      BY DEF LInv, TableAgrees
    <2>2. CASE e \in stale
      <3>1. e \notin kept
        BY <2>2
      <3>2. Held(e, t)' = 0
        BY <1>3, <3>1 DEF Held
      <3>3. t <= clock /\ t > clock - LimitWindow => Held(e, t) = 0
        BY <1>0, <1>3, <1>4, <2>2, SpanFacts DEF Held
      <3> QED
        BY <1>0, <2>1, <3>2, <3>3
    <2>3. CASE e \notin stale
      <3>1. Held(e, t)' = Held(e, t)
        BY <1>1, <1>3, <2>3 DEF Held
      <3> QED
        BY <2>1, <3>1
    <2> QED
      BY <2>2, <2>3
  <1>10. Limiter!GroupCountsExact'
    <2> HIDE DEF kept
    <2>1. ASSUME NEW g \in LimitGroups
          PROVE  groupCounts'[g] = Limiter!Cardinality(Limiter!OfGroup(Limiter!Present', g)) /\ groupCounts'[g] <= LimitGroupKeys
      <3>1. Limiter!OfGroup(kept, g) \subseteq Limiter!OfGroup(P, g) /\ IsFiniteSet(Limiter!OfGroup(P, g))
        <4>1. Limiter!OfGroup(kept, g) \subseteq Limiter!OfGroup(P, g) /\ Limiter!OfGroup(P, g) \subseteq P
          BY <1>6 DEF Limiter!OfGroup
        <4> QED
          BY <1>2, <4>1, FS_Subset
      <3>2. Cardinality(Limiter!OfGroup(kept, g)) <= Cardinality(Limiter!OfGroup(P, g))
            /\ Cardinality(Limiter!OfGroup(kept, g)) \in Nat /\ Cardinality(Limiter!OfGroup(P, g)) \in Nat
        BY <3>1, FS_Subset, FS_CardinalityType
      <3>3. groupCounts[g] = Cardinality(Limiter!OfGroup(P, g)) /\ groupCounts[g] <= LimitGroupKeys
        BY LimitCardinality DEF LInv, Limiter!GroupCountsExact
      <3>4. groupCounts'[g] = Cardinality(Limiter!OfGroup(kept, g))
        BY <1>1, <1>5
      <3> QED
        BY <1>3, <3>2, <3>3, <3>4, LimitCardinality, LimitAssumption
    <2>2. Limiter!Cardinality(Limiter!Present)' = Cardinality(kept) /\ Cardinality(kept) <= LimitKeys
      BY <1>2, <1>3, <1>6, LimitCardinality, LimitAssumption
    <2>3. \A g : Limiter!OfGroup(Limiter!Present, g)' = Limiter!OfGroup(Limiter!Present', g)
      BY DEF Limiter!OfGroup
    <2> QED
      BY <2>1, <2>2, <2>3 DEF Limiter!GroupCountsExact
  <1>11. Limiter!WindowHolds'
    BY <1>1 DEF LInv, Limiter!WindowHolds, Limiter!CountIn, Limiter!Recorded, Limiter!Span
  <1> HIDE DEF kept
  <1> QED
    BY <1>3, <1>6, <1>8, <1>9, <1>10, <1>11 DEF LInv

\* A window that begins later is empty at its end.
LEMMA LInvPass ==
    ASSUME LInv, Limiter!Pass
    PROVE  LInv'
  <1>0. LimitWindow \in Nat \ {0} /\ clock \in Nat /\ clock' = clock + 1 /\ clock' \in 0..LimitSeconds /\ clock \in 0..LimitSeconds
        /\ UNCHANGED <<hits, keyOrder, groupCounts, limit, granted>> /\ granted \in [Limiter!Keys -> Limiter!Times]
    BY LimitAssumption DEF LInv, Limiter!LimiterTypeOK, Limiter!Pass
  <1>1. Limiter!LimiterTypeOK' /\ Limiter!GroupCountsExact' /\ IsFiniteSet(Limiter!Present)'
    BY <1>0 DEF LInv, Limiter!LimiterTypeOK, Limiter!GroupCountsExact, Limiter!Present, Limiter!OfGroup
  <1>2. TableAgrees'
    BY <1>0 DEF LInv, TableAgrees, Held, Limiter!Present
  <1>3. Limiter!WindowHolds'
    <2> SUFFICES ASSUME NEW k \in Limiter!Keys, NEW t \in 0..(clock + 1)
                 PROVE  \E most \in LimitValues : Limiter!CountIn(granted[k], Limiter!Span(t)) <= most
      BY <1>0 DEF Limiter!WindowHolds, Limiter!CountIn, Limiter!Recorded, Limiter!Span
    <2>1. CASE t \in 0..clock
      BY <2>1 DEF LInv, Limiter!WindowHolds
    <2>2. CASE t = clock + 1
      <3>1. PICK most \in LimitValues : Limiter!CountIn(granted[k], Limiter!Span(clock)) <= most
        BY <1>0 DEF LInv, Limiter!WindowHolds
      <3> DEFINE early == Limiter!Span(t) \ {t}
      <3>2. t \in 0..LimitSeconds /\ Limiter!Span(t) \in SUBSET (0..LimitSeconds) /\ Limiter!Span(clock) \in SUBSET (0..LimitSeconds)
        BY <1>0, <2>2, SpanFacts
      <3>3. early \subseteq Limiter!Span(clock) /\ granted[k][t] = 0
        BY <1>0, <2>2, <3>2, SpanFacts DEF LInv, TableAgrees
      <3>4. granted[k] \in Limiter!Times
        BY <1>0
      <3>5. Limiter!CountIn(granted[k], Limiter!Span(t)) = Limiter!CountIn(granted[k], early)
        BY <3>2, <3>3, <3>4, CountSame
      <3>6. Limiter!CountIn(granted[k], early) <= Limiter!CountIn(granted[k], Limiter!Span(clock))
        BY <3>2, <3>3, <3>4, CountLess
      <3>7. Limiter!CountIn(granted[k], early) \in Nat /\ Limiter!CountIn(granted[k], Limiter!Span(clock)) \in Nat
        BY <3>2, <3>4, RecordedFacts
      <3> QED
        BY <3>1, <3>5, <3>6, <3>7, LimitAssumption
    <2> QED
      BY <1>0, <2>1, <2>2
  <1> QED
    BY <1>1, <1>2, <1>3 DEF LInv

\* Steps that leave table, grants and clock alone.
LEMMA LInvStays ==
    ASSUME LInv, UNCHANGED <<hits, keyOrder, groupCounts, clock, granted>>, limit' \in LimitValues
    PROVE  LInv'
  <1>1. Limiter!LimiterTypeOK' /\ Limiter!GroupCountsExact' /\ IsFiniteSet(Limiter!Present)' /\ TableAgrees'
    BY DEF LInv, Limiter!LimiterTypeOK, Limiter!GroupCountsExact, Limiter!Present, Limiter!OfGroup, TableAgrees, Held
  <1>2. Limiter!WindowHolds'
    BY DEF LInv, Limiter!WindowHolds, Limiter!CountIn, Limiter!Recorded, Limiter!Span
  <1> QED
    BY <1>1, <1>2 DEF LInv

LEMMA LInvNext == LInv /\ (Limiter!LimiterNext \/ UNCHANGED limiterVars) => LInv'
  <1> SUFFICES ASSUME LInv, Limiter!LimiterNext \/ UNCHANGED limiterVars PROVE LInv'
    OBVIOUS
  <1>1. CASE \E k \in Limiter!Keys, n \in LimitCounts : Limiter!checkMany(k, n)
    BY <1>1, LInvCheck
  <1>2. CASE Limiter!sweep
    BY <1>2, LInvSweep
  <1>3. CASE Limiter!Pass
    BY <1>3, LInvPass
  <1>4. CASE Limiter!rateClassLimit
    BY <1>4, LInvStays DEF Limiter!rateClassLimit
  <1>5. limit \in LimitValues
    BY DEF LInv, Limiter!LimiterTypeOK
  <1>6. CASE UNCHANGED limiterVars
    BY <1>5, <1>6, LInvStays DEF limiterVars
  <1>7. CASE \E k \in Limiter!Keys : Limiter!refuseGroup(k)
    BY <1>5, <1>7, LInvStays DEF Limiter!refuseGroup, Limiter!limiterVars
  <1> QED
    BY <1>1, <1>2, <1>3, <1>4, <1>6, <1>7 DEF Limiter!LimiterNext

LimiterPart == part = "limiter" => LInv

\* No window admits more requests of a key than a limit allows and the counts of a caller's keys are exact, for any table size, window,
\* limits and callers (checkMany, dropKey, sweep).
THEOREM LimitsHoldAlways == Spec => []LimitsHold
  <1>1. Init => LimiterPart
    BY LInvInit DEF Init, LimiterPart
  <1>2. LimiterPart /\ [Next]_vars => LimiterPart'
    <2> SUFFICES ASSUME LimiterPart, [Next]_vars PROVE LimiterPart'
      OBVIOUS
    <2>1. CASE UNCHANGED <<part, limiterVars>>
      BY <2>1, LInvNext DEF LimiterPart, limiterVars
    <2>2. CASE Only("limiter") /\ Limiter!LimiterNext
      BY <2>2, LInvNext DEF LimiterPart, Only
    <2>3. CASE part # "limiter" /\ part' = part
      BY <2>3 DEF LimiterPart
    <2>4. part = "limiter" /\ Next => Only("limiter") /\ Limiter!LimiterNext
      BY DEF Next, Only
    <2>5. Next => part' = part
      BY DEF Next, Only
    <2>6. UNCHANGED vars => UNCHANGED <<part, limiterVars>>
      BY DEF vars
    <2> QED
      BY <2>1, <2>2, <2>3, <2>4, <2>5, <2>6
  <1>3. LimiterPart => LimitsHold
    BY DEF LimiterPart, LInv, LimitsHold
  <1> QED
    BY <1>1, <1>2, <1>3, PTL DEF Spec
=============================================================================
