----------------------------- MODULE BlockAuthors -----------------------------
(***************************************************************************)
(* The validator of each stored block (crawler/block-author.ts): the       *)
(* authority of the block's slot in the list its parent left, proven by    *)
(* the seal. The crawler names it before it stores a block, and a pass     *)
(* over the blocks of an older release (crawler/BlockAuthorBackfill.ts)    *)
(* names it afterwards. Each has a resolver that remembers the list after  *)
(* the last block it saw; blocks do not arrive in chain order when the     *)
(* chain forks or two of them are in work.                                 *)
(***************************************************************************)
EXTENDS Integers, Sequences, FiniteSets

CONSTANTS
    Ids,         \* blocks of the node, numbers
    BlockOf,     \* [Ids -> [parent (0 for the start), slot (-1 for none), change (<<>> for none), signer]]
    ListAfter,   \* [{0} \cup Ids -> list of authorities], Aura::Authorities in the state of each
    Works,       \* blocks the crawler may have in work at once
    Batch,       \* batchSize of the pass
    MaxRollbacks, \* bound: rollbacks
    MaxFailures   \* bound: failed storage reads

VARIABLES
    rows,      \* Blocks: sequence of [id, author, slot], from the start height up
    memory,    \* next of each resolver: the block whose children it knows the list of, and the list
    work,      \* each block in work: step, block, author found
    pass,      \* the pass: step; per place in rows the unresolved block it read there, and the producer found so far
    cursor,    \* authorBackfillHeight; height is the place in rows, 0 for none
    finished,  \* authorsBackfilledAt
    rollbacks, failures

authorVars == <<rows, memory, work, pass, cursor, finished, rollbacks, failures>>

Nobody == "nobody"
Unknown == "unknown"
Resolvers == {"crawler", "pass"}
Idle == [step |-> "idle", id |-> 0, list |-> <<>>, author |-> Unknown]
Between == [step |-> "idle", ids |-> <<>>, found |-> <<>>, last |-> 0]

\* what readAuthorities asks the node for
authoritiesAfter(b) == ListAfter[b]

\* the authority of the slot, when the seal is its own
producer(b, list) ==
    LET a == list[(BlockOf[b].slot % Len(list)) + 1]
    IN  IF BlockOf[b].slot = -1 \/ list = <<>> THEN Nobody ELSE IF BlockOf[b].signer = a THEN a ELSE Nobody

Tip == IF rows = <<>> THEN 0 ELSE rows[Len(rows)].id

\* Mutant: the remembered list is used for any block.
RemembersAny(r, b) == memory[r].parent # -1

Remembers(r, b) == memory[r].parent = BlockOf[b].parent
After(b, list) == IF BlockOf[b].change # <<>> THEN BlockOf[b].change ELSE list

\* resolve: the remembered list, or the one of the parent's state; then the list for the next block
resolve(r, b, list) ==
    IF BlockOf[b].slot = -1 THEN memory
    ELSE [memory EXCEPT ![r] = [parent |-> b, list |-> After(b, list)]]

------------------------------------------------------------------------------
(* The crawler.                                                             *)

fetchBlock(w, b) ==
    /\ work[w].step = "idle"
    /\ work' = [work EXCEPT ![w] = [Idle EXCEPT !.step = "resolve", !.id = b]]
    /\ UNCHANGED <<rows, memory, pass, cursor, finished, rollbacks, failures>>

\* with the remembered list nothing is awaited before the list of the next block is set
resolveBlock(w) ==
    LET b == work[w].id IN
    /\ work[w].step = "resolve"
    /\ IF BlockOf[b].slot = -1 \/ Remembers("crawler", b)
       THEN /\ memory' = resolve("crawler", b, memory["crawler"].list)
            /\ work' = [work EXCEPT ![w].step = "store", ![w].author = producer(b, memory["crawler"].list)]
       ELSE work' = [work EXCEPT ![w].step = "read"] /\ UNCHANGED memory
    /\ UNCHANGED <<rows, pass, cursor, finished, rollbacks, failures>>

\* a failed read throws: the block is not stored with a guessed author
readAuthorities(w) ==
    LET b == work[w].id  list == authoritiesAfter(BlockOf[b].parent) IN
    /\ work[w].step = "read"
    /\ \/ /\ memory' = resolve("crawler", b, list)
          /\ work' = [work EXCEPT ![w].step = "store", ![w].author = producer(b, list)]
          /\ UNCHANGED failures
       \/ /\ failures < MaxFailures /\ failures' = failures + 1
          /\ work' = [work EXCEPT ![w] = Idle]
          /\ UNCHANGED memory
    /\ UNCHANGED <<rows, pass, cursor, finished, rollbacks>>

\* a block whose parent is not the tip is not stored
storeBlock(w) ==
    LET b == work[w].id IN
    /\ work[w].step = "store"
    /\ rows' = IF BlockOf[b].parent = Tip
               THEN Append(rows, [id |-> b, author |-> work[w].author, slot |-> BlockOf[b].slot # -1]) ELSE rows
    /\ work' = [work EXCEPT ![w] = Idle]
    /\ UNCHANGED <<memory, pass, cursor, finished, rollbacks, failures>>

\* the cursor of the pass is not lowered
rollback(k) ==
    /\ rollbacks < MaxRollbacks /\ rollbacks' = rollbacks + 1
    /\ k \in 0..(Len(rows) - 1)
    /\ rows' = SubSeq(rows, 1, k)
    /\ UNCHANGED <<memory, work, pass, cursor, finished, failures>>

------------------------------------------------------------------------------
(* The pass.                                                                *)

\* one batch above the cursor, or the end
runOnce ==
    LET top == IF cursor + Batch < Len(rows) THEN cursor + Batch ELSE Len(rows)
        unresolved == {i \in (cursor + 1)..top : ~rows[i].slot}
    IN  /\ pass.step = "idle" /\ ~finished
        /\ IF cursor >= Len(rows)
           THEN finished' = TRUE /\ UNCHANGED pass
           ELSE /\ pass' = [step |-> "resolve", ids |-> [i \in unresolved |-> rows[i].id], found |-> <<>>, last |-> top]
                /\ UNCHANGED finished
        /\ UNCHANGED <<rows, memory, work, cursor, rollbacks, failures>>

\* header by header; a header or a list the node does not give ends the pass, which starts again
resolveRow ==
    /\ pass.step = "resolve"
    /\ \E k \in DOMAIN pass.ids \ DOMAIN pass.found :
          LET b == pass.ids[k]
              list == IF Remembers("pass", b) THEN memory["pass"].list ELSE authoritiesAfter(BlockOf[b].parent)
          IN  /\ \A j \in DOMAIN pass.ids \ DOMAIN pass.found : k <= j
              /\ memory' = resolve("pass", b, list)
              /\ pass' = [pass EXCEPT !.found = [j \in DOMAIN @ \cup {k} |-> IF j = k THEN producer(b, list) ELSE @[j]]]
    /\ UNCHANGED <<rows, work, cursor, finished, rollbacks, failures>>

resolveRowFails ==
    /\ pass.step = "resolve" /\ DOMAIN pass.found # DOMAIN pass.ids
    /\ failures < MaxFailures /\ failures' = failures + 1
    /\ pass' = Between
    /\ UNCHANGED <<rows, memory, work, cursor, finished, rollbacks>>

\* by the ID of the row: a row a rollback removed is not written
writeRows ==
    LET Named(r) == {k \in DOMAIN pass.ids : pass.ids[k] = r.id} IN
    /\ pass.step = "resolve" /\ DOMAIN pass.found = DOMAIN pass.ids
    /\ rows' = [i \in DOMAIN rows |->
                  IF Named(rows[i]) = {} \/ rows[i].slot THEN rows[i]
                  ELSE LET k == CHOOSE k \in Named(rows[i]) : TRUE
                       IN  [id |-> rows[i].id, author |-> pass.found[k], slot |-> BlockOf[rows[i].id].slot # -1]]
    /\ cursor' = pass.last
    /\ pass' = Between
    /\ UNCHANGED <<memory, work, finished, rollbacks, failures>>

\* a restart: the resolvers and the work are gone
restart ==
    /\ rollbacks < MaxRollbacks /\ rollbacks' = rollbacks + 1
    /\ memory' = [r \in Resolvers |-> [parent |-> -1, list |-> <<>>]]
    /\ work' = [w \in Works |-> Idle] /\ pass' = Between
    /\ UNCHANGED <<rows, cursor, finished, failures>>

\* blocks of the older release: any chain from the start, without a slot
Oldest == {q \in UNION {[1..n -> Ids] : n \in 0..Cardinality(Ids)} :
             \A i \in DOMAIN q : BlockOf[q[i]].parent = IF i = 1 THEN 0 ELSE q[i - 1]}

AuthorInit ==
    /\ \E q \in Oldest : rows = [i \in DOMAIN q |-> [id |-> q[i], author |-> Unknown, slot |-> FALSE]]
    /\ memory = [r \in Resolvers |-> [parent |-> -1, list |-> <<>>]]
    /\ work = [w \in Works |-> Idle] /\ pass = Between
    /\ cursor = 0 /\ finished = FALSE /\ rollbacks = 0 /\ failures = 0

AuthorNext ==
    \/ \E w \in Works : (\E b \in Ids : fetchBlock(w, b)) \/ resolveBlock(w) \/ readAuthorities(w) \/ storeBlock(w)
    \/ \E k \in 0..Len(rows) : rollback(k)
    \/ runOnce \/ resolveRow \/ resolveRowFails \/ writeRows \/ restart

AuthorSpec == AuthorInit /\ [][AuthorNext]_authorVars

------------------------------------------------------------------------------
(* Properties.                                                              *)

\* A block is never stored or rewritten with a wrong validator, whatever order blocks of two forks
\* are resolved in and whatever list the resolvers remember; and once the pass has ended no block
\* is left without one, also when a rollback removed rows it had read (resolve, runOnce).
AuthorsAreTrue ==
    /\ \A i \in DOMAIN rows :
          rows[i].author # Unknown => rows[i].author = producer(rows[i].id, authoritiesAfter(BlockOf[rows[i].id].parent))
    /\ finished => \A i \in DOMAIN rows : rows[i].author # Unknown

==============================================================================
