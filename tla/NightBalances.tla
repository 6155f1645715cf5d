---------------------------- MODULE NightBalances ----------------------------
(***************************************************************************)
(* The UTXO rows and the NightBalances table. BlockProcessor writes a      *)
(* block's transactions, outputs and spends and updates the balances by    *)
(* what the block changed; a rollback (crawler/rollback.ts) deletes the    *)
(* rows of the removed blocks and computes the balances of the touched     *)
(* addresses anew. Both must give the same figures, in any order of        *)
(* blocks and rollbacks. Each of the two is one database transaction.      *)
(*                                                                         *)
(* The chain is a set of possible transactions. One reads its events as    *)
(* [created, spent]: created is a sequence of outputs, spent a set of      *)
(* outputs <<transaction, index>> or of outputs older than the index.      *)
(***************************************************************************)
EXTENDS Integers, Sequences, FiniteSets, FiniteSetsExt, SequencesExt

CONSTANTS
    Events,      \* [transaction name -> [created, spent]]
    Addresses,   \* owners of outputs
    Old,         \* outputs created before the first indexed block: [owner, token, value]
    MaxHeight,   \* bound: blocks of the index
    BlockSize    \* bound: transactions of a block

VARIABLES
    blocks,      \* the indexed blocks, oldest first: sequences of transaction names
    txRows,      \* Transactions: sender, receiver and amount of each indexed transaction
    utxos,       \* UnshieldedUtxos
    balances     \* NightBalances: [address -> figures or NoRow]

balanceVars == <<blocks, txRows, utxos, balances>>

NoOne == "none"
NoRow == [balance |-> 0, utxoCount |-> 0, totalReceived |-> 0, txReceivedCount |-> 0, totalSent |-> 0, txSentCount |-> 0,
          firstSeenHeight |-> -1, lastActivityHeight |-> -1]

SumOver(S, f(_)) == FoldSet(LAMBDA x, acc : f(x) + acc, 0, S)

isNight(u) == u.token = "night"

\* the output an event names, whether it is indexed or not
outputOf(id) == IF id[1] = "old" THEN Old[id[2]] ELSE Events[id[1]].created[id[2]]

\* projectTransfer: one sender and at most one other receiver, else nobody
projectTransfer(t) ==
    LET senders == { outputOf(id).owner : id \in Events[t].spent }
        sender == CHOOSE s \in senders : TRUE
        receivers == { Events[t].created[i].owner : i \in DOMAIN Events[t].created } \ {sender}
        receiver == CHOOSE r \in receivers : TRUE
        amount == SumOver({ i \in DOMAIN Events[t].created : Events[t].created[i].owner = receiver /\ isNight(Events[t].created[i]) },
                          LAMBDA i : Events[t].created[i].value)
    IN  IF Cardinality(senders) # 1 \/ Cardinality(receivers) > 1 THEN [sender |-> NoOne, receiver |-> NoOne, nightAmount |-> 0]
        ELSE IF receivers = {} THEN [sender |-> sender, receiver |-> NoOne, nightAmount |-> 0]
        ELSE [sender |-> sender, receiver |-> receiver, nightAmount |-> amount]

\* a transfer that counts as sent
countsAsSent(row, a) == row.sender = a /\ row.receiver \notin {NoOne, a} /\ row.nightAmount > 0

heightOf(t) == CHOOSE h \in DOMAIN blocks : \E i \in DOMAIN blocks[h] : blocks[h][i] = t
Indexed == { t \in DOMAIN Events : \E h \in DOMAIN blocks : \E i \in DOMAIN blocks[h] : blocks[h][i] = t }

------------------------------------------------------------------------------
(* A block                                                                  *)

\* the rows of a block's outputs
utxoRowsOf(block) ==
    { [id |-> <<block[p[1]], p[2]>>, owner |-> Events[block[p[1]]].created[p[2]].owner, token |-> Events[block[p[1]]].created[p[2]].token,
       value |-> Events[block[p[1]]].created[p[2]].value, createdAt |-> block[p[1]], spentAt |-> NoOne] :
        p \in { q \in (DOMAIN block) \X (1..3) : q[2] \in DOMAIN Events[block[q[1]]].created } }

\* applySpends: an output that was never indexed is passed over
applySpends(rows, block) ==
    { LET spender == { i \in DOMAIN block : u.id \in Events[block[i]].spent }
      IN  IF spender # {} /\ u.spentAt = NoOne THEN [u EXCEPT !.spentAt = block[Min(spender)]] ELSE u : u \in rows }

\* what a block changes for one address; NoRow for nothing
deltaFor(a, block, rows, spent) ==
    LET created == { u \in utxoRowsOf(block) : u.owner = a /\ isNight(u) }
        gone == { u \in rows : u.owner = a /\ isNight(u) /\ u.spentAt = NoOne /\ \E v \in spent : v.id = u.id /\ v.spentAt # NoOne }
        sent == { i \in DOMAIN block : countsAsSent(projectTransfer(block[i]), a) }
        val(u) == u.value
        amount(i) == projectTransfer(block[i]).nightAmount
    IN  [touched |-> created # {} \/ gone # {} \/ sent # {},
         balance |-> SumOver(created, val) - SumOver(gone, val), utxoCount |-> Cardinality(created) - Cardinality(gone),
         totalReceived |-> SumOver(created, val), txReceivedCount |-> Cardinality(created),
         totalSent |-> SumOver(sent, amount), txSentCount |-> Cardinality(sent)]

\* applyBalanceDelta: adds the block's change to the row
applyBalanceDelta(row, delta, height) ==
    IF ~delta.touched THEN row
    ELSE [balance |-> row.balance + delta.balance, utxoCount |-> row.utxoCount + delta.utxoCount,
          totalReceived |-> row.totalReceived + delta.totalReceived, txReceivedCount |-> row.txReceivedCount + delta.txReceivedCount,
          totalSent |-> row.totalSent + delta.totalSent, txSentCount |-> row.txSentCount + delta.txSentCount,
          firstSeenHeight |-> IF row = NoRow THEN height ELSE Min({row.firstSeenHeight, height}), lastActivityHeight |-> height]

\* what the chain allows next: transactions not included yet, whose outputs exist and are unspent
canFollow(block) ==
    /\ IsInjective(block)
    /\ \A i \in DOMAIN block :
         /\ block[i] \notin Indexed
         /\ \A id \in Events[block[i]].spent :
              /\ id[1] = "old" \/ id[1] \in Indexed \/ \E j \in 1..(i - 1) : block[j] = id[1]
              /\ \A t \in Indexed \cup { block[j] : j \in 1..(i - 1) } : id \notin Events[t].spent

\* persistBlock: the outputs go in before the spends, so an output spent in its own block is found
persistBlock(block) ==
    /\ Len(blocks) < MaxHeight
    /\ canFollow(block)
    /\ LET rows == utxos \cup utxoRowsOf(block)
           spent == applySpends(rows, block)
           height == Len(blocks) + 1
       IN  /\ utxos' = spent
           /\ txRows' = [t \in Indexed \cup { block[i] : i \in DOMAIN block } |-> IF t \in Indexed THEN txRows[t] ELSE projectTransfer(t)]
           /\ balances' = [a \in Addresses |-> applyBalanceDelta(balances[a], deltaFor(a, block, rows, spent), height)]
    /\ blocks' = Append(blocks, block)

------------------------------------------------------------------------------
(* A rollback                                                               *)

\* Mutant: owners of outputs that a removed transaction spent are left out.
createdAddresses(gone) ==
    { a \in Addresses : \/ \E t \in gone : a \in {txRows[t].sender, txRows[t].receiver}
                        \/ \E u \in utxos : u.owner = a /\ u.createdAt \in gone }

\* the addresses whose figures a rollback may change, collected before anything is deleted
affectedAddresses(gone) ==
    { a \in Addresses : \/ \E t \in gone : a \in {txRows[t].sender, txRows[t].receiver}
                        \/ \E u \in utxos : u.owner = a /\ (u.createdAt \in gone \/ u.spentAt \in gone) }

\* computeNightBalance over the remaining rows; NoRow without any NIGHT activity
computeNightBalance(a, rows, txs) ==
    LET mine == { u \in rows : u.owner = a /\ isNight(u) }
        unspent == { u \in mine : u.spentAt = NoOne }
        sent == { t \in DOMAIN txs : countsAsSent(txs[t], a) }
        activity == { u.createdAt : u \in mine } \cup ({ u.spentAt : u \in mine } \ {NoOne}) \cup sent
        heights == { heightOf(t) : t \in activity }
        val(u) == u.value
        amount(t) == txs[t].nightAmount
    IN  IF mine = {} /\ sent = {} THEN NoRow
        ELSE [balance |-> SumOver(unspent, val), utxoCount |-> Cardinality(unspent),
              totalReceived |-> SumOver(mine, val), txReceivedCount |-> Cardinality(mine),
              totalSent |-> SumOver(sent, amount), txSentCount |-> Cardinality(sent),
              firstSeenHeight |-> Min(heights), lastActivityHeight |-> Max(heights)]

\* recomputeNightBalance: the row is replaced, or removed with the last activity
recomputeNightBalance(a, rows, txs) == computeNightBalance(a, rows, txs)

\* the rows left when the transactions of the removed blocks are gone
remainingUtxos(gone) ==
    { IF u.spentAt \in gone THEN [u EXCEPT !.spentAt = NoOne] ELSE u : u \in { v \in utxos : v.createdAt \notin gone } }

rollbackIndexedDataFromHeight(from) ==
    /\ from <= Len(blocks)
    /\ LET gone == { t \in Indexed : heightOf(t) >= from }
           rows == remainingUtxos(gone)
           txs == [t \in Indexed \ gone |-> txRows[t]]
       IN  /\ balances' = [a \in Addresses |-> IF a \in affectedAddresses(gone) THEN recomputeNightBalance(a, rows, txs) ELSE balances[a]]
           /\ utxos' = rows
           /\ txRows' = txs
    /\ blocks' = SubSeq(blocks, 1, from - 1)

BalanceInit == blocks = <<>> /\ txRows = [t \in {} |-> NoOne] /\ utxos = {} /\ balances = [a \in Addresses |-> NoRow]

BalanceNext ==
    \/ \E block \in UNION { [1..n -> DOMAIN Events] : n \in 0..BlockSize } : persistBlock(block)
    \/ \E from \in 1..MaxHeight : rollbackIndexedDataFromHeight(from)

BalanceSpec == BalanceInit /\ [][BalanceNext]_balanceVars

------------------------------------------------------------------------------
\* The table always says what the blocks of the index say, computed from the chain and not from the rows: after any order of
\* blocks and rollbacks the balance is the value of the NIGHT outputs of the indexed blocks that no indexed block
\* spends, and the first and last heights are those of the first and last block that touches the address.
\* About applyBalanceDelta and recomputeNightBalance, which must agree.
BalancesMatchChain ==
    \A a \in Addresses :
      LET outputs == { o \in Indexed \X (1..3) : LET created == Events[o[1]].created
                                                 IN  o[2] \in DOMAIN created /\ created[o[2]].owner = a /\ isNight(created[o[2]]) }
          spentIn(t) == { id \in Events[t].spent : id \in outputs }
          kept == { o \in outputs : \A t \in Indexed : o \notin Events[t].spent }
          touches(t) == (\E o \in outputs : o[1] = t) \/ spentIn(t) # {} \/ countsAsSent(projectTransfer(t), a)
          heights == { heightOf(t) : t \in { s \in Indexed : touches(s) } }
      IN  /\ balances[a].balance = SumOver(kept, LAMBDA o : outputOf(o).value)
          /\ balances[a].utxoCount = Cardinality(kept)
          /\ balances[a].firstSeenHeight = IF heights = {} THEN -1 ELSE Min(heights)
          /\ balances[a].lastActivityHeight = IF heights = {} THEN -1 ELSE Max(heights)
==============================================================================
