------------------------------ MODULE RateLimiter ------------------------------
(***************************************************************************)
(* The sliding window rate limiter (utils/rate-limiter.ts) as the rate     *)
(* classes use it (utils/rate-classes.ts): one table of the hits of each   *)
(* key, in the order of last use, and a count of the keys of each caller.  *)
(* A key is [group, scope]: the caller and what the class is counted per.  *)
(* Recorded times are a count for each time.                               *)
(***************************************************************************)
EXTENDS Integers, Sequences, FiniteSets

CONSTANTS
    Groups, Scopes, \* callers, and the scopes of one class
    Limits,         \* values NIGHTGATE_RATE_... or its override may have
    Counts,         \* numbers of requests one check records
    Window,         \* windowMs
    MaxKeys,        \* maxKeys
    MaxKeysPerGroup,\* maxKeysPerGroup
    MaxClock        \* bound: the clock

VARIABLES
    hits,        \* the table: how many times of each key are recorded
    order,       \* its keys, least recently used first
    groupCounts, \* number of keys of each caller
    limit,       \* maxRequests, read at each check
    clock,
    granted      \* requests allowed for each key at each time since the full table last dropped the key

limiterVars == <<hits, order, groupCounts, limit, clock, granted>>

Keys == [group : Groups, scope : Scopes]
Present == DOMAIN hits
Times == [0..MaxClock -> Nat]
Never == [t \in 0..MaxClock |-> 0]

\* the window that ends at a time, and what is recorded in it
Span(t) == {u \in 0..t : u > t - Window}
Recorded(at, W) == UNION {{u} \X (1..at[u]) : u \in W}
CountIn(at, W) == Cardinality(Recorded(at, W))

LimiterTypeOK ==
    /\ Present \subseteq Keys /\ \A k \in Present : hits[k] \in Times
    /\ order \in Seq(Present) /\ Len(order) = Cardinality(Present)
    /\ groupCounts \in [Groups -> Nat] /\ limit \in Limits /\ clock \in 0..MaxClock
    /\ granted \in [Keys -> Times]

LimiterInit ==
    /\ hits = [k \in {} |-> Never]
    /\ order = <<>>
    /\ groupCounts = [g \in Groups |-> 0]
    /\ limit \in Limits
    /\ clock = 0
    /\ granted = [k \in Keys |-> Never]

-----------------------------------------------------------------------------
InWindow(at) == [t \in 0..MaxClock |-> IF t \in Span(clock) THEN at[t] ELSE 0]
HitsOf(k) == IF k \in Present THEN InWindow(hits[k]) ELSE Never

\* the keys of a set that stay, in their order (the only member of this set)
Without(S) ==
    LET Position(k) == CHOOSE i \in DOMAIN order : order[i] = k
    IN  {q \in [1..Cardinality(S) -> S] : \A i, j \in DOMAIN q : i < j => Position(q[i]) < Position(q[j])}

OfGroup(S, g) == {k \in S : k.group = g}

\* dropKey for each of a set of keys
dropKeys(counts, S) ==
    LET left(g) == counts[g] - Cardinality(OfGroup(S, g))
    IN  [g \in Groups |-> IF left(g) <= 0 THEN 0 ELSE left(g)]

\* the table before the key's entry is looked at: a new key may push the oldest one out
Evicted(k) == IF k \notin Present /\ Cardinality(Present) >= MaxKeys THEN {Head(order)} ELSE {}

admitKey(k) == IF k \in Present THEN groupCounts ELSE [dropKeys(groupCounts, Evicted(k)) EXCEPT ![k.group] = @ + 1]

groupIsFull(k) == k \notin Present /\ groupCounts[k.group] >= MaxKeysPerGroup

\* Mutant: the requests at hand are not counted.
fitsBefore(k, n) == CountIn(HitsOf(k), Span(clock)) < limit

fits(k, n) == CountIn(HitsOf(k), Span(clock)) + n <= limit

\* all n requests are recorded or none; the key becomes the most recently used in either case
checkMany(k, n) ==
    LET at == IF fits(k, n) THEN [HitsOf(k) EXCEPT ![clock] = @ + n] ELSE HitsOf(k)
        rest == Present \ (Evicted(k) \cup {k})
    IN  /\ ~groupIsFull(k)
        /\ groupCounts' = admitKey(k)
        /\ hits' = [e \in rest \cup {k} |-> IF e = k THEN at ELSE hits[e]]
        /\ \E q \in Without(rest) : order' = Append(q, k)
        /\ granted' = [e \in Keys |-> IF e \in Evicted(k) THEN Never
                                      ELSE IF e = k /\ fits(k, n) THEN [granted[k] EXCEPT ![clock] = @ + n]
                                      ELSE granted[e]]
        /\ UNCHANGED <<limit, clock>>

\* a caller with too many keys is refused before the table changes
refuseGroup(k) == groupIsFull(k) /\ UNCHANGED limiterVars

\* the timer removes the keys without a hit in the window
sweep ==
    LET stale == {k \in Present : CountIn(hits[k], Span(clock)) = 0} IN
    /\ Present # {}
    /\ hits' = [k \in Present \ stale |-> hits[k]]
    /\ order' \in Without(Present \ stale)
    /\ groupCounts' = dropKeys(groupCounts, stale)
    /\ UNCHANGED <<limit, clock, granted>>

\* the operator changes the limit while the server runs
rateClassLimit ==
    /\ limit' \in Limits \ {limit}
    /\ UNCHANGED <<hits, order, groupCounts, clock, granted>>

Pass ==
    /\ clock < MaxClock
    /\ clock' = clock + 1
    /\ UNCHANGED <<hits, order, groupCounts, limit, granted>>

LimiterNext ==
    \/ \E k \in Keys : refuseGroup(k) \/ \E n \in Counts : checkMany(k, n)
    \/ sweep \/ rateClassLimit \/ Pass

LimiterSpec == LimiterInit /\ [][LimiterNext]_limiterVars

-----------------------------------------------------------------------------
(* Properties.                                                             *)

\* The count of a caller's keys is the number of its keys in the table, whatever was evicted, swept
\* and inserted again: a count that drifts up would lock the caller out for good (groupCounts,
\* dropKey), one that drifts down would let it fill the table.
GroupCountsExact ==
    /\ \A g \in Groups : groupCounts[g] = Cardinality(OfGroup(Present, g))
    /\ \A g \in Groups : groupCounts[g] <= MaxKeysPerGroup
    /\ Cardinality(Present) <= MaxKeys

\* In no window of the given length are more requests of a key allowed than some limit in force allows, as long
\* as the full table does not drop the key (checkMany, sweep).
WindowHolds == \A k \in Keys : \A t \in 0..clock : \E most \in Limits : CountIn(granted[k], Span(t)) <= most

=============================================================================
