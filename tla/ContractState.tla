---------------------------- MODULE ContractState ----------------------------
(***************************************************************************)
(* What the indexer adds to the indexed blocks (IndexerSupplement.ts,       *)
(* indexer-supplement.ts) and how a contract's state is stored and read     *)
(* (contract-state.ts): the supplement walks the stored blocks behind its   *)
(* own cursor, the crawler stores and rolls back blocks beside it, and a    *)
(* reader asks for the current state or the state at a height. Every        *)
(* database transaction is a step, and so is every answer of the indexer.   *)
(*                                                                         *)
(* One contract. A block is [params, txs]: the ledger parameters in effect  *)
(* and, for each transaction, how many actions of the contract the node's   *)
(* events hold (mine) and the indexer reports (theirs); the two differ for  *)
(* a partly failed transaction. The true state after an action is named by  *)
(* the action: <<height, transaction, index>>. The chain is final, so only  *)
(* a reindex removes blocks, and the same blocks are stored again.          *)
(***************************************************************************)
EXTENDS Integers, Sequences, FiniteSets, FiniteSetsExt

CONSTANTS
    Chains,          \* final chains to explore: sequences of blocks
    Batch,           \* blocks of one supplement run
    KeepsHistory,    \* keepsStateHistory: full states stay on the actions
    MaxRollbacks,    \* bound on rollbacks
    MaxFailures      \* bound on indexer calls that fail

VARIABLES
    chain,       \* the final chain
    ixHeight,    \* blocks the indexer has
    blocks,      \* Blocks: [gen, params] per height; gen tells a re-indexed row from the old one
    states,      \* ContractActions: [action -> [hash, full]] of the stored blocks
    current,     \* the ContractStates row of the contract, or NoState
    cursor,      \* SyncState.lastSupplementedHeight
    generation,  \* SyncState.reorgGeneration
    run,         \* the supplement's run and its cached parameters
    read,        \* one reader; known is the block of the newest action stored when it asked
    failures     \* indexer calls that failed

stateVars == <<chain, ixHeight, blocks, states, current, cursor, generation, run, read, failures>>

NoAction == <<0, 0, 0>>
NoState == [height |-> 0, action |-> NoAction, gen |-> 0, state |-> NoAction]
NoAnswer == [kind |-> "none", height |-> 0, state |-> NoAction, verified |-> "null"]
IdleRun == [pc |-> "idle", from |-> 0, gen |-> 0, list |-> <<>>, at |-> 1, tx |-> 1, found |-> 0]
IdleRead == [pc |-> "idle", height |-> 0, row |-> NoState, newest |-> NoAction, stale |-> 0, gen |-> 0, known |-> 0, fetched |-> NoAction, answer |-> NoAnswer]

Height == Len(blocks)
Mine(h) == UNION { {h} \X {i} \X (1..chain[h].txs[i].mine) : i \in DOMAIN chain[h].txs }
Theirs(h) == UNION { {h} \X {i} \X (1..chain[h].txs[i].theirs) : i \in DOMAIN chain[h].txs }
\* Mutant: the counts of the two sides are not compared.
pairedAnyway(h, i) == TRUE

paired(h, i) == chain[h].txs[i].mine = chain[h].txs[i].theirs

Later(a, b) == a[1] > b[1] \/ (a[1] = b[1] /\ (a[2] > b[2] \/ (a[2] = b[2] /\ a[3] > b[3])))
Newest(S) == IF S = {} THEN NoAction ELSE CHOOSE a \in S : \A b \in S \ {a} : Later(a, b)
StoredUpTo(h) == { a \in DOMAIN states : a[1] <= h }

------------------------------------------------------------------------------
(* The crawler and the indexer                                              *)

\* persistBlock stores the block's actions without a state
persistBlock ==
    /\ Height < Len(chain)
    /\ LET h == Height + 1
       IN  /\ blocks' = Append(blocks, [gen |-> generation, params |-> 0])
           /\ states' = [a \in DOMAIN states \cup Mine(h) |-> IF a \in DOMAIN states THEN states[a] ELSE [hash |-> NoAction, full |-> FALSE]]
    /\ UNCHANGED <<chain, ixHeight, current, cursor, generation, run, read, failures>>

\* rollbackIndexedDataFromHeight: the removed blocks' rows, the contract's state if it is from one of them, and the cursor
rollbackIndexedDataFromHeight(from) ==
    /\ from <= Height
    /\ generation < MaxRollbacks
    /\ generation' = generation + 1
    /\ blocks' = SubSeq(blocks, 1, from - 1)
    /\ states' = [a \in StoredUpTo(from - 1) |-> states[a]]
    /\ current' = IF current.height >= from THEN NoState ELSE current
    /\ cursor' = Min({cursor, from - 1})
    /\ UNCHANGED <<chain, ixHeight, run, read, failures>>

indexerAdvances ==
    /\ ixHeight < Len(chain)
    /\ ixHeight' = ixHeight + 1
    /\ UNCHANGED <<chain, blocks, states, current, cursor, generation, run, read, failures>>

------------------------------------------------------------------------------
(* The supplement                                                           *)

Supplemented == UNCHANGED <<chain, ixHeight, generation, read>>

\* readPassWindow, blocksInRange and the parameter cache: a rollback since the last run clears it
runOnce ==
    /\ run.s.pc = "idle"
    /\ cursor < Height
    /\ run' = [s |-> [IdleRun EXCEPT !.pc = "fetch", !.from = cursor, !.gen = generation,
                         !.list = [k \in 1..Min({Batch, Height - cursor}) |-> [height |-> cursor + k, gen |-> blocks[cursor + k].gen]]],
               lastLedgerParameters |-> IF run.cachedGeneration = generation THEN run.lastLedgerParameters ELSE 0,
               cachedGeneration |-> generation]
    /\ UNCHANGED <<blocks, states, current, cursor, failures>> /\ Supplemented

\* advancePassCursor: nothing is saved when the cursor or the counter moved meanwhile
setCursor(to) ==
    /\ cursor' = IF generation = run.s.gen /\ cursor = run.s.from THEN to ELSE cursor
    /\ run' = [run EXCEPT !.s = IdleRun]

Block == run.s.list[run.s.at]

\* fetchBlock; a block the indexer does not have yet, or a stop, ends the run before it (endBefore)
fetchBlock ==
    /\ run.s.pc = "fetch"
    /\ \/ /\ Block.height <= ixHeight
          /\ run' = [run EXCEPT !.s.pc = "fields"]
          /\ UNCHANGED cursor
       \/ IF run.s.at = 1 THEN run' = [run EXCEPT !.s = IdleRun] /\ UNCHANGED cursor ELSE setCursor(Block.height - 1)
    /\ UNCHANGED <<blocks, states, current, failures>> /\ Supplemented

\* the pass fails: nothing is saved, the next run starts at the cursor again
passFails ==
    /\ run.s.pc # "idle"
    /\ failures < MaxFailures
    /\ failures' = failures + 1
    /\ run' = [run EXCEPT !.s = IdleRun]
    /\ UNCHANGED <<blocks, states, current, cursor>> /\ Supplemented

\* readParametersBelow: the newest stored parameters under a height, 0 for none
readParametersBelow(h) ==
    LET set == { k \in 1..Min({h - 1, Height}) : blocks[k].params # 0 } IN IF set = {} THEN 0 ELSE blocks[Max(set)].params

\* applyBlockFields: parameters are stored where they differ from the ones before
applyBlockFields ==
    /\ run.s.pc = "fields"
    /\ LET h == Block.height
           last == IF run.lastLedgerParameters = 0 THEN readParametersBelow(h) ELSE run.lastLedgerParameters
           alive == h <= Height /\ blocks[h].gen = Block.gen
       IN  /\ blocks' = IF last # chain[h].params /\ alive THEN [blocks EXCEPT ![h].params = chain[h].params] ELSE blocks
           /\ run' = [run EXCEPT !.lastLedgerParameters = chain[h].params, !.s.pc = "rows"]
    /\ UNCHANGED <<states, current, cursor, failures>> /\ Supplemented

\* applyBlock: the stored transactions with the reported hashes; a re-indexed block has new rows
applyBlock ==
    /\ run.s.pc = "rows"
    /\ run' = [run EXCEPT !.s.found = IF Block.height <= Height THEN blocks[Block.height].gen ELSE -1, !.s.tx = 1, !.s.pc = "tx"]
    /\ UNCHANGED <<blocks, states, current, cursor, failures>> /\ Supplemented

\* upsertCurrentState: a state of a later block stays
upsertCurrentState(row, a, gen) ==
    IF row.height > a[1] THEN row ELSE [height |-> a[1], action |-> a, gen |-> gen, state |-> a]

\* applyContractState for one transaction: the actions are paired in order, and only if both sides have the same count
applyContractState ==
    /\ run.s.pc = "tx"
    /\ run.s.tx <= Len(chain[Block.height].txs)
    /\ LET h == Block.height
           i == run.s.tx
           alive == h <= Height /\ blocks[h].gen = run.s.found
           mine == { a \in Mine(h) : a[2] = i }
           applies == alive /\ mine # {} /\ paired(h, i)
       IN  /\ states' = IF applies THEN [a \in DOMAIN states |-> IF a \in mine THEN [hash |-> a, full |-> KeepsHistory] ELSE states[a]] ELSE states
           /\ current' = IF applies THEN upsertCurrentState(current, Newest(mine), run.s.found) ELSE current
    /\ run' = [run EXCEPT !.s.tx = @ + 1]
    /\ UNCHANGED <<blocks, cursor, failures>> /\ Supplemented

\* the next block of the batch, or the cursor after the last one
nextBlock ==
    /\ run.s.pc = "tx"
    /\ run.s.tx > Len(chain[Block.height].txs)
    /\ IF run.s.at < Len(run.s.list)
       THEN run' = [run EXCEPT !.s.at = @ + 1, !.s.pc = "fetch"] /\ UNCHANGED cursor
       ELSE setCursor(Block.height)
    /\ UNCHANGED <<blocks, states, current, failures>> /\ Supplemented

\* compactStoredContractState, run while the pass is stopped: the newest full state becomes the current one, the others keep their hash
compactStoredContractState ==
    /\ run.s.pc = "idle"
    /\ LET full == { a \in DOMAIN states : states[a].full }
       IN  /\ full # {}
           /\ current' = upsertCurrentState(current, Newest(full), blocks[Newest(full)[1]].gen)
           /\ states' = [a \in DOMAIN states |-> [states[a] EXCEPT !.full = FALSE]]
    /\ UNCHANGED <<blocks, cursor, failures, run>> /\ Supplemented

------------------------------------------------------------------------------
(* A reader: contractStateAt, height 0 for the current state                *)

Reads == UNCHANGED <<chain, ixHeight, blocks, states, current, cursor, generation, run, failures>>

contractStateAt(height) ==
    /\ read.pc = "idle"
    /\ read' = [IdleRead EXCEPT !.pc = "newest", !.height = height, !.row = current, !.gen = generation, !.known = IF height = 0 THEN Newest(DOMAIN states)[1] ELSE 0]
    /\ Reads

Answers(kind, height, state, verified) ==
    read' = [read EXCEPT !.pc = "done", !.newest = NoAction, !.stale = 0, !.fetched = NoAction, !.answer = [kind |-> kind, height |-> height, state |-> state, verified |-> verified]]

fromCurrent == Answers("current", read.row.height, read.row.state, "null")

\* Mutant: the stored state is served without a look at newer actions.
readStored ==
    /\ read.pc = "newest" /\ read.height = 0
    /\ IF read.row = NoState THEN read' = [read EXCEPT !.pc = "fetch"] ELSE fromCurrent
    /\ Reads

\* the current state: fromCurrent unless the crawler already stored an action of a later block
readCurrent ==
    /\ read.pc = "newest" /\ read.height = 0
    /\ IF read.row = NoState THEN read' = [read EXCEPT !.pc = "fetch"]
       ELSE LET newest == Newest(DOMAIN states)
            IN  IF newest = NoAction \/ newest[1] <= read.row.height THEN fromCurrent
                ELSE read' = [read EXCEPT !.pc = "fetch", !.newest = newest, !.stale = newest[1]]
    /\ Reads

\* the state at a height the index covers: from the action's own row, or from the current state if that is the action's
readHistory ==
    /\ read.pc = "newest" /\ read.height > 0
    /\ LET newest == IF read.height <= Height THEN Newest(StoredUpTo(read.height)) ELSE NoAction
       IN  IF newest # NoAction /\ states[newest].full THEN Answers("history", newest[1], states[newest].hash, "null")
           ELSE IF newest # NoAction /\ read.row.action = newest /\ read.row.gen = blocks[newest[1]].gen THEN fromCurrent
           ELSE read' = [read EXCEPT !.pc = "fetch", !.newest = newest]
    /\ Reads

\* fetchContractState: the newest action the indexer has up to the height asked for
fetchContractState ==
    /\ read.pc = "fetch"
    /\ LET asked == IF read.stale > 0 THEN read.stale ELSE IF read.height > 0 THEN read.height ELSE ixHeight
           got == Newest(UNION { Theirs(h) : h \in 1..Min({asked, ixHeight}) })
       IN  read' = [read EXCEPT !.pc = "check", !.fetched = got]
    /\ Reads

\* the block of a stale state must be the one the indexer answered for; else the indexer is behind
checkFetched ==
    /\ read.pc = "check"
    /\ LET missing == read.fetched = NoAction
           other == read.stale > 0 /\ ~missing /\ read.stale <= Height /\ read.fetched[1] # read.stale
           expected == IF read.newest \in DOMAIN states THEN states[read.newest].hash ELSE NoAction
       IN  IF other \/ (missing /\ read.stale > 0) THEN Answers("behind", 0, NoAction, "null")
           ELSE IF missing THEN Answers("unknown", 0, NoAction, "null")
           ELSE Answers("indexer", read.newest[1], read.fetched,
                        IF expected = NoAction THEN "null" ELSE IF expected = read.fetched THEN "true" ELSE "false")
    /\ Reads

readAgain == read.pc = "done" /\ read' = IdleRead /\ Reads

StateInit ==
    /\ chain \in Chains /\ ixHeight = 0 /\ blocks = <<>> /\ states = [a \in {} |-> NoAction] /\ current = NoState /\ cursor = 0
    /\ generation = 0 /\ run = [s |-> IdleRun, lastLedgerParameters |-> 0, cachedGeneration |-> -1] /\ read = IdleRead /\ failures = 0

StateNext ==
    \/ persistBlock
    \/ \E from \in 1..Height : rollbackIndexedDataFromHeight(from)
    \/ indexerAdvances
    \/ runOnce \/ fetchBlock \/ passFails \/ applyBlockFields \/ applyBlock \/ applyContractState \/ nextBlock
    \/ compactStoredContractState
    \/ \E height \in 0..Len(chain) : contractStateAt(height)
    \/ readCurrent \/ readHistory \/ fetchContractState \/ checkFetched \/ readAgain

StateSpec == StateInit /\ [][StateNext]_stateVars

------------------------------------------------------------------------------
\* the indexer reports as many actions of a's transaction as the node's events hold
SameCount(a) == LET tx == chain[a[1]].txs[a[2]] IN tx.mine = tx.theirs

\* Up to the supplement's cursor the stored parameters are the chain's, every paired action has its own state's hash, and the
\* stored current state is the newest of them; an unpaired action never has one, whatever rollbacks and failed runs
\* overlap with the pass.  About applyBlockFields, applyContractState and the cursor ("no state is better than a wrong one").
SupplementIsTrue ==
    /\ \A h \in 1..cursor : readParametersBelow(h + 1) = chain[h].params
    /\ \A a \in DOMAIN states : states[a].hash = NoAction \/ (states[a].hash = a /\ SameCount(a))
    /\ \A a \in StoredUpTo(cursor) : SameCount(a) => states[a].hash = a /\ (current # NoState => current.height >= a[1])

\* With no rollback meanwhile the current state that is served is not older than the newest action stored when it was asked
\* for, once the contract has a stored state; and a covered height is answered with the state of its newest action.
\* About contractStateAt and IndexerBehind.
ServedStateIsNotOlder ==
    read.pc = "done" /\ generation = read.gen /\ read.answer.kind \in {"current", "history", "indexer"} =>
        /\ read.height = 0 /\ read.row # NoState => read.answer.state[1] >= read.known
        /\ read.height > 0 /\ read.answer.kind # "indexer" =>
             \A a \in StoredUpTo(read.height) : ~Later(a, read.answer.state)
==============================================================================
