---------------------------- MODULE KeyRotation ----------------------------
(***************************************************************************)
(* The encryption keys of one account: the server's key ring, the account's*)
(* data key (DEK) sealed under the ring and under the viewing key, the     *)
(* rows encrypted with it, and the offline tool nightgate-rewrap-keys that *)
(* moves every stored value to the active key.                             *)
(*                                                                         *)
(* The operator follows docs/operations.md: a new key is added beside the  *)
(* old one, the tool runs with the server stopped, and the old key leaves  *)
(* the ring after the tool exited 0.  Everything else is the code's: the   *)
(* server and the tool may be killed between any two writes, and several   *)
(* requests of the server look the data key up at once.                    *)
(*                                                                         *)
(* A sealed value is reduced to the id of the ring key, whether it is bound*)
(* to its row (version 3; 2 stands for both unbound formats) and whether   *)
(* its bytes are intact.                                                   *)
(***************************************************************************)
EXTENDS Naturals, FiniteSets, Sequences

CONSTANTS Callers,      \* requests of the server that need the data key
          MaxDeks       \* bound on the data keys ever drawn

VARIABLES ring,         \* [keys, active] the next process starts with
          process,      \* "off", "server" or "tool"
          envelope,     \* [EnvelopeColumns -> a sealed value or NoValue]
          account,      \* the AccountKeys row or NoAccount
          rows,         \* [DekTables -> a row encrypted per account, or NoRow]
          cache,        \* the data key in memory or NoKey
          inflight,     \* the lookup later callers join, None for none
          caller,       \* each request's progress
          nextDek,      \* the next data key to be drawn; 1 is the one of an existing row
          tool          \* the rewrap tool's progress and exit code

rotationVars == <<ring, process, envelope, account, rows, cache, inflight, caller, nextDek, tool>>

None == "none"
NoKey == 0
NoExit == 2       \* no exit code of a full run yet
Keys == {"old", "new"}

\* What the key ring holds over a rotation: spec.keys and activeId.
KeyRing == { [keys |-> {"old"}, active |-> "old"],
             [keys |-> Keys, active |-> "new"],
             [keys |-> {"new"}, active |-> "new"] }

\* The session's viewing key stands for every ring-encrypted column outside AccountKeys.
EnvelopeColumns == {"encryptedViewingKey"}
DekTables == {"PrivateStates", "WalletSyncStates"}
Sealed == [key : Keys, version : {2, 3}, good : BOOLEAN]
NoValue == [key |-> None, version |-> 0, good |-> FALSE]
Bare == [key |-> "viewingKey", version |-> 1, good |-> TRUE]     \* a vk1 seal without the server-key layer
NoAccount == [dek |-> NoKey, wrapped |-> NoValue, byViewingKey |-> NoValue]

\* A row encrypted per account: under the data key (keyScheme dek1), or with a
\* legacy password (keyScheme null) derived from a ring key or the viewing key alone.
LegacyPasswords == Keys \cup {"viewingKey", "garbled"}
DekRow == [scheme : {"dek1"}, by : {"dek"}, dek : 1..MaxDeks] \cup [scheme : {"null"}, by : LegacyPasswords, dek : {NoKey}]
NoRow == [scheme |-> "absent", by |-> None, dek |-> NoKey]
underDek(dek) == [scheme |-> "dek1", by |-> "dek", dek |-> dek]

\* encrypt(): always the active key, bound to the row.
encrypt == [key |-> ring.active, version |-> 3, good |-> TRUE]

\* decrypt(): the outcome, in the order of its checks.
decrypt(v, allowUnbound) ==
    CASE v.version < 3 /\ ~allowUnbound -> "unbound"
      [] ~(v.version < 3 /\ ~allowUnbound) /\ v.key \notin ring.keys -> "unknownKey"
      [] ~(v.version < 3 /\ ~allowUnbound) /\ v.key \in ring.keys /\ ~v.good -> "fails"
      [] OTHER -> "ok"

\* keyIdFromPrefix over every ring-encrypted column.
scanStoredKeyIds ==
    { envelope[c].key : c \in { d \in EnvelopeColumns : envelope[d] # NoValue } }
    \cup (IF account = NoAccount THEN {}
          ELSE {account.wrapped.key} \cup (IF account.byViewingKey \in {NoValue, Bare} THEN {} ELSE {account.byViewingKey.key}))

assertStoredKeyIdsKnown == scanStoredKeyIds \subseteq ring.keys

\* privateStatePasswordCandidates, syncStatePassphraseCandidates: the derivation that wrote a legacy row.
passwordCandidates == ring.keys \cup {"viewingKey"}

countLegacyRows == Cardinality({ t \in DekTables : rows[t].scheme = "null" })

------------------------------------------------------------------------------
\* unwrapDek, then openDekByViewingKey: how a stored data key is opened.
ringRead(row) == decrypt(row.wrapped, FALSE)
vkRead(row) == CASE row.byViewingKey = NoValue -> "absent"
                 [] row.byViewingKey = Bare -> "ok"
                 [] OTHER -> decrypt(row.byViewingKey, FALSE)

\* Every caller gives the storage password of the right viewing key.
dekOpens(row) ==
    /\ "unbound" \notin {ringRead(row), vkRead(row)}
    /\ ringRead(row) = "ok" \/ vkRead(row) = "ok"
    /\ vkRead(row) # "fails"

\* The row with each copy that is not under the active key sealed again.
resealed(row) ==
    [row EXCEPT
        !.wrapped = IF @.key # ring.active \/ @.version # 3 \/ ringRead(row) # "ok" THEN encrypt ELSE @,
        !.byViewingKey =
            IF @ \in {NoValue, Bare} THEN encrypt
            ELSE IF vkRead(row) # "unknownKey" /\ @.key # ring.active THEN encrypt
            ELSE @]

idle == [pc |-> "idle", create |-> FALSE, joined |-> None, row |-> NoAccount, got |-> NoKey]

\* resolveAccountDek: the cached key, the lookup in flight, or a new lookup.
resolveAccountDek(c, create) ==
    /\ process = "server"
    /\ caller[c].pc = "idle"
    /\ caller' = [caller EXCEPT ![c] =
            IF cache # NoKey THEN [idle EXCEPT !.pc = "done", !.create = create, !.got = cache]
            ELSE IF inflight # None THEN [idle EXCEPT !.pc = "joined", !.create = create, !.joined = inflight]
            ELSE [idle EXCEPT !.pc = "read", !.create = create]]
    /\ inflight' = IF cache = NoKey /\ inflight = None THEN c ELSE inflight
    /\ UNCHANGED <<ring, process, envelope, account, rows, cache, nextDek, tool>>

\* A lookup's result reaches its own caller and everyone who joined it; the
\* cache keeps it only while the lookup is still the current one.
answer(c, dek, keep) ==
    /\ caller' = [d \in Callers |->
            IF d = c \/ (caller[d].pc = "joined" /\ caller[d].joined = c)
            THEN [caller[d] EXCEPT !.pc = "done", !.got = dek, !.row = NoAccount]
            ELSE caller[d]]
    /\ cache' = IF keep /\ inflight = c THEN dek ELSE cache
    /\ inflight' = IF inflight = c THEN None ELSE inflight

\* resolveUncached reads the row and decides what to do with it.
resolveUncached(c) ==
    /\ process = "server"
    /\ caller[c].pc = "read"
    /\ CASE account = NoAccount /\ ~caller[c].create -> answer(c, NoKey, FALSE) /\ UNCHANGED nextDek
         [] account = NoAccount /\ caller[c].create ->
                /\ nextDek <= MaxDeks
                /\ caller' = [caller EXCEPT ![c].pc = "insert", ![c].row.dek = nextDek]
                /\ nextDek' = nextDek + 1
                /\ UNCHANGED <<cache, inflight>>
         [] account # NoAccount /\ ~dekOpens(account) -> answer(c, NoKey, FALSE) /\ UNCHANGED nextDek
         [] account # NoAccount /\ dekOpens(account) /\ resealed(account) = account ->
                answer(c, account.dek, TRUE) /\ UNCHANGED nextDek
         [] OTHER -> /\ caller' = [caller EXCEPT ![c].pc = "update", ![c].row = resealed(account)]
                     /\ UNCHANGED <<cache, inflight, nextDek>>
    /\ UNCHANGED <<ring, process, envelope, account, rows, tool>>

\* The UPDATE of the copies that were not under the active key.
updateDek(c) ==
    /\ process = "server"
    /\ caller[c].pc = "update"
    /\ account' = caller[c].row
    /\ answer(c, caller[c].row.dek, TRUE)
    /\ UNCHANGED <<ring, process, envelope, rows, nextDek, tool>>

\* The INSERT of a new key. A row that is there already makes it fail, and the
\* lookup starts again with that row.
insertDek(c) ==
    /\ process = "server"
    /\ caller[c].pc = "insert"
    /\ IF account = NoAccount
       THEN /\ account' = [dek |-> caller[c].row.dek, wrapped |-> encrypt, byViewingKey |-> encrypt]
            /\ answer(c, caller[c].row.dek, TRUE)
       ELSE /\ caller' = [caller EXCEPT ![c].pc = "read", ![c].row = NoAccount]
            /\ UNCHANGED <<account, cache, inflight>>
    /\ UNCHANGED <<ring, process, envelope, rows, nextDek, tool>>

\* evictAccountDek, on disconnect: a lookup still running no longer counts as current.
evictAccountDek ==
    /\ process = "server"
    /\ cache # NoKey \/ inflight # None
    /\ cache' = NoKey
    /\ inflight' = None
    /\ UNCHANGED <<ring, process, envelope, account, rows, caller, nextDek, tool>>

\* A request with the key writes its row under it (set, saveSyncState), or reads
\* a legacy row and writes it back under the key (decryptStored).
useDek(c, t) ==
    /\ process = "server"
    /\ caller[c].pc = "done"
    /\ caller[c].got # NoKey
    /\ \/ rows[t] = NoRow
       \/ rows[t].scheme = "null" /\ rows[t].by \in passwordCandidates
       \/ rows[t].scheme = "null" /\ t = "WalletSyncStates"     \* an unreadable snapshot is replaced
    /\ rows' = [rows EXCEPT ![t] = underDek(caller[c].got)]
    /\ UNCHANGED <<ring, process, envelope, account, cache, inflight, caller, nextDek, tool>>

finishCaller(c) ==
    /\ process = "server"
    /\ caller[c].pc = "done"
    /\ caller' = [caller EXCEPT ![c] = idle]
    /\ UNCHANGED <<ring, process, envelope, account, rows, cache, inflight, nextDek, tool>>

\* connectWallet, and a job enqueued: a column is written with the active key.
writeEnvelope(col) ==
    /\ process = "server"
    /\ envelope' = [envelope EXCEPT ![col] = encrypt]
    /\ UNCHANGED <<ring, process, account, rows, cache, inflight, caller, nextDek, tool>>

------------------------------------------------------------------------------
\* The tool: each ring-encrypted column in turn, then the legacy rows, then the count.
ToolSteps == <<"encryptedViewingKey", "wrapped", "byViewingKey", "migrate", "drop", "count">>

startTool(drop) ==
    /\ process = "off"
    /\ assertStoredKeyIdsKnown
    /\ process' = "tool"
    /\ tool' = [step |-> 1, drop |-> drop, exit |-> NoExit, migrated |-> FALSE]
    /\ UNCHANGED <<ring, envelope, account, rows, cache, inflight, caller, nextDek>>

\* rewrapStoredCiphertexts on one value: left alone when it is under the active
\* key already, or when it cannot be read.
rewrapped(v) ==
    CASE v = NoValue -> v
      [] v = Bare -> encrypt
      [] v.version = 3 /\ v.key = ring.active -> v
      [] OTHER -> IF decrypt(v, TRUE) = "ok" THEN encrypt ELSE v

rewrapStoredCiphertexts ==
    /\ process = "tool"
    /\ LET col == ToolSteps[tool.step] IN
        CASE col \in EnvelopeColumns ->
                /\ envelope' = [envelope EXCEPT ![col] = rewrapped(@)]
                /\ UNCHANGED account
          [] col \in {"wrapped", "byViewingKey"} ->
                /\ account' = IF account = NoAccount THEN account ELSE [account EXCEPT ![col] = rewrapped(@)]
                /\ UNCHANGED envelope
          [] OTHER -> FALSE
    /\ tool' = [tool EXCEPT !.step = @ + 1]
    /\ UNCHANGED <<ring, process, rows, cache, inflight, caller, nextDek>>

\* migrateLegacyRows: with a readable viewing key, the data key is looked up or
\* created and the legacy rows are written again under it, the private state
\* only if one of the older passwords opens it, a snapshot in any case.
migrateLegacyRows ==
    /\ process = "tool"
    /\ ToolSteps[tool.step] = "migrate"
    /\ LET session == envelope["encryptedViewingKey"]
           reachable == session # NoValue /\ decrypt(session, TRUE) = "ok"
           opened == reachable /\ (account = NoAccount \/ dekOpens(account))
           key == IF account = NoAccount THEN nextDek ELSE account.dek
           moves(t) == /\ rows[t].scheme = "null"
                       /\ t = "WalletSyncStates" \/ rows[t].by \in passwordCandidates
       IN /\ opened /\ account = NoAccount => nextDek <= MaxDeks
          /\ account' = IF ~opened THEN account
                        ELSE IF account = NoAccount THEN [dek |-> nextDek, wrapped |-> encrypt, byViewingKey |-> encrypt]
                        ELSE resealed(account)
          /\ nextDek' = IF opened /\ account = NoAccount THEN nextDek + 1 ELSE nextDek
          /\ rows' = [t \in DekTables |-> IF opened /\ moves(t) THEN underDek(key) ELSE rows[t]]
          /\ tool' = [tool EXCEPT !.step = @ + 1, !.migrated = opened /\ \E t \in DekTables : moves(t)]
    /\ UNCHANGED <<ring, process, envelope, cache, inflight, caller>>

dropLegacySyncStates ==
    /\ process = "tool"
    /\ ToolSteps[tool.step] = "drop"
    /\ rows' = IF /\ tool.drop
                  /\ ~tool.migrated
                  /\ rows["WalletSyncStates"].scheme = "null"
               THEN [rows EXCEPT !["WalletSyncStates"] = NoRow]
               ELSE rows
    /\ tool' = [tool EXCEPT !.step = @ + 1]
    /\ UNCHANGED <<ring, process, envelope, account, cache, inflight, caller, nextDek>>

\* Mutant: the tool exits 0 although it left rows behind.
exitAlways ==
    /\ process = "tool"
    /\ ToolSteps[tool.step] = "count"
    /\ tool' = [tool EXCEPT !.exit = 0]
    /\ process' = "off"
    /\ UNCHANGED <<ring, envelope, account, rows, cache, inflight, caller, nextDek>>

exitTool ==
    /\ process = "tool"
    /\ ToolSteps[tool.step] = "count"
    /\ tool' = [tool EXCEPT !.exit = IF countLegacyRows > 0 THEN 1 ELSE 0]
    /\ process' = "off"
    /\ UNCHANGED <<ring, envelope, account, rows, cache, inflight, caller, nextDek>>

------------------------------------------------------------------------------
\* initialize: the server starts only when the ring knows every stored key id.
startServer ==
    /\ process = "off"
    /\ assertStoredKeyIdsKnown
    /\ process' = "server"
    /\ tool' = [tool EXCEPT !.exit = NoExit]
    /\ UNCHANGED <<ring, envelope, account, rows, cache, inflight, caller, nextDek>>

\* A stop or a kill between any two steps: memory is gone, the rows stay.
stop ==
    /\ process # "off"
    /\ process' = "off"
    /\ cache' = NoKey
    /\ inflight' = None
    /\ caller' = [c \in Callers |-> idle]
    /\ UNCHANGED <<ring, envelope, account, rows, nextDek, tool>>

\* The operator's steps: the new key joins the ring and becomes the active
\* one; the old key leaves only after the tool exited 0.
addKey ==
    /\ process = "off"
    /\ ring.keys = {"old"}
    /\ ring' = [keys |-> Keys, active |-> "new"]
    /\ tool' = [tool EXCEPT !.exit = NoExit]
    /\ UNCHANGED <<process, envelope, account, rows, cache, inflight, caller, nextDek>>

removeKey ==
    /\ process = "off"
    /\ ring.keys = Keys
    /\ tool.exit = 0
    /\ ring' = [keys |-> {"new"}, active |-> "new"]
    /\ UNCHANGED <<process, envelope, account, rows, cache, inflight, caller, nextDek, tool>>

RotationInit ==
    /\ ring = [keys |-> {"old"}, active |-> "old"]
    /\ process = "off"
    /\ envelope \in [EnvelopeColumns -> {NoValue} \cup { v \in Sealed : v.key = "old" }]
    /\ account \in {NoAccount} \cup [dek : {1}, wrapped : { v \in Sealed : v.key = "old" },
                                     byViewingKey : {NoValue, Bare} \cup { v \in Sealed : v.key = "old" }]
    /\ rows \in [DekTables -> {NoRow} \cup { r \in DekRow :
            IF r.scheme = "null" THEN r.by # "new" ELSE r.dek = 1 /\ account # NoAccount }]
    /\ cache = NoKey
    /\ inflight = None
    /\ caller = [c \in Callers |-> idle]
    /\ nextDek = 2
    /\ tool = [step |-> 1, drop |-> FALSE, exit |-> NoExit, migrated |-> FALSE]

RotationNext ==
    \/ \E c \in Callers :
        \/ \E create \in BOOLEAN : resolveAccountDek(c, create)
        \/ resolveUncached(c)
        \/ updateDek(c)
        \/ insertDek(c)
        \/ \E t \in DekTables : useDek(c, t)
        \/ finishCaller(c)
    \/ evictAccountDek
    \/ \E col \in EnvelopeColumns : writeEnvelope(col)
    \/ \E drop \in BOOLEAN : startTool(drop)
    \/ rewrapStoredCiphertexts
    \/ migrateLegacyRows
    \/ dropLegacySyncStates
    \/ exitTool
    \/ startServer
    \/ stop
    \/ addKey
    \/ removeKey

RotationSpec == RotationInit /\ [][RotationNext]_rotationVars
------------------------------------------------------------------------------
\* Values the code can still open: sealed under a key of the ring with intact
\* bytes, or encrypted under a data key that can be opened.
openable(v) == v \in {NoValue, Bare} \/ (v.good /\ v.key \in ring.keys)

\* A rotation done as documented loses nothing: once the old key has left the
\* ring, every stored value whose bytes were intact is readable with the new key alone, no
\* row is left under a legacy password, and the private state's data key is the account's.
\* About rewrapStoredCiphertexts, migrateLegacyRows and the exit code.
RotationLosesNothing ==
    ring.keys = {"new"} =>
        /\ \A c \in EnvelopeColumns : envelope[c].good => openable(envelope[c])
        /\ account.wrapped.good => openable(account.wrapped)
        /\ \A t \in DekTables : rows[t].scheme # "null"

\* One account, one data key: whatever lookups, evictions and restarts overlap,
\* every key handed to a request, kept in the cache, or used for a row is the
\* one the AccountKeys row stores.  About resolveUncached and storeDek.
OneDataKey ==
    /\ \A c \in Callers : caller[c].pc = "done" /\ caller[c].got # NoKey => caller[c].got = account.dek
    /\ cache # NoKey => cache = account.dek
    /\ \A t \in DekTables : rows[t].scheme = "dek1" => rows[t].dek = account.dek
==============================================================================
