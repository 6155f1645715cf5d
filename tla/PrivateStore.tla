----------------------------- MODULE PrivateStore -----------------------------
(***************************************************************************)
(* The store of a contract's private states, and by the same code of its   *)
(* signing keys (midnight/CapDbPrivateStateProvider.ts). Every submission   *)
(* has a provider of its own, and each database access is a step: a write   *)
(* looks whether the row is there first, a read of a row under an older     *)
(* password writes it again under the current one. Operations overlap when  *)
(* submissions of an account do, or when the worker stopped waiting for one *)
(* (worker/private-state.ts) and asks for the next. A refused import or     *)
(* export (its format, version, size or password) does nothing.             *)
(***************************************************************************)
EXTENDS Integers, FiniteSets

CONSTANTS
    Providers,
    N,         \* private state ids are 1..N, imported in this order
    Values,
    MaxUses    \* bound: operations begun

VARIABLES
    privRows, \* PrivateStates: [value, by], by: the password whose salt the ciphertext has
    use,      \* each provider's operation under way
    export,   \* the export a caller keeps
    uses

storeVars == <<privRows, use, export, uses>>

Ids == 1..N
NoRow == [value |-> 0, by |-> "none"]
Unreadable == -1
Contents == [Ids -> Values \cup {0, Unreadable}]
\* the current password, an older one among the fallbacks, one that is in neither
Rows == {NoRow} \cup [value : Values, by : {"current", "older", "lost"}]
Content(stored) == [i \in Ids |-> IF stored[i].by = "lost" THEN Unreadable ELSE stored[i].value]
NoExport == [i \in Ids |-> 0]
NoUse == [kind |-> "none", step |-> "idle", id |-> 0, value |-> 0, strategy |-> "none", checked |-> FALSE, conflicts |-> 0,
          snapshot |-> [i \in Ids |-> NoRow], loaded |-> NoRow, existed |-> FALSE, got |-> NoExport, result |-> "none",
          before |-> NoExport, after |-> NoExport, alone |-> TRUE]

StoreTypeOK ==
    /\ privRows \in [Ids -> Rows]
    /\ export \in [Ids -> Values \cup {0}]
    /\ uses \in 0..MaxUses
    /\ \A p \in Providers : /\ use[p].kind \in {"none", "set", "get", "remove", "clear", "export", "import"}
                            /\ use[p].step \in {"idle", "load", "rewrite", "rewriting", "put", "putting", "done"}
                            /\ use[p].strategy \in {"none", "skip", "overwrite", "error"}
                            /\ use[p].result \in {"none", "ok", "unreadable", "conflict", "duplicate"}
                            /\ use[p].loaded \in Rows /\ use[p].snapshot \in [Ids -> Rows] /\ use[p].before \in Contents /\ use[p].after \in Contents

StoreInit ==
    /\ privRows \in [Ids -> Rows]
    /\ use = [p \in Providers |-> NoUse]
    /\ export = NoExport
    /\ uses = 0

-----------------------------------------------------------------------------
(* Beginning and ending an operation.                                      *)

Busy(p) == use[p].step \notin {"idle", "done"}

\* An operation begins, an export by reading all rows; one that overlaps another is not alone, and neither is the other.
Begin(p, kind, step, id, value, strategy) ==
    LET others == {q \in Providers \ {p} : Busy(q)}
    IN  /\ ~Busy(p) /\ uses < MaxUses
        /\ uses' = uses + 1
        /\ use' = [q \in Providers |->
              IF q = p THEN [NoUse EXCEPT !.kind = kind, !.step = step, !.id = id, !.value = value, !.strategy = strategy,
                                          !.checked = strategy # "error", !.before = Content(privRows), !.alone = others = {},
                                          !.got = IF kind = "import" THEN export ELSE @,
                                          !.snapshot = IF kind = "export" THEN privRows ELSE @]
              ELSE IF q \in others THEN [use[q] EXCEPT !.alone = FALSE] ELSE use[q]]
        /\ UNCHANGED <<privRows, export>>

Done(u, result, stored) ==
    [u EXCEPT !.step = "done", !.result = result, !.after = Content(stored), !.loaded = NoRow, !.snapshot = NoUse.snapshot, !.existed = FALSE]

set(p) == \E i \in Ids, v \in Values : Begin(p, "set", "put", i, v, "none")
get(p) == \E i \in Ids : Begin(p, "get", "load", i, 0, "none")
exportPrivateStates(p) == Begin(p, "export", "load", 1, 0, "none")
importPrivateStates(p) == \E s \in {"skip", "overwrite", "error"} : export # NoExport /\ Begin(p, "import", "load", 1, 0, s)

Removing(p, kind, ids) ==
    /\ ~Busy(p) /\ uses < MaxUses
    /\ uses' = uses + 1
    /\ privRows' = [i \in Ids |-> IF i \in ids THEN NoRow ELSE privRows[i]]
    /\ use' = [q \in Providers |->
          IF q = p THEN Done([NoUse EXCEPT !.kind = kind, !.before = Content(privRows)], "ok", privRows')
          ELSE IF Busy(q) THEN [use[q] EXCEPT !.alone = FALSE] ELSE use[q]]
    /\ UNCHANGED export

remove(p) == \E i \in Ids : Removing(p, "remove", {i})
clear(p) == Removing(p, "clear", Ids)

-----------------------------------------------------------------------------
(* Its steps.                                                              *)

\* What an operation does with the row it was given: a get answers, an export and an import go on to the next id.
\* An import under 'error' counts the conflicts of all ids before it writes the first.
Advance(u, stored) ==
    LET next == [u EXCEPT !.id = @ + 1, !.step = "load"]
        last == u.id = N
        there == u.loaded # NoRow
        counted == u.conflicts + (IF there THEN 1 ELSE 0)
    IN  CASE u.kind = "get" -> Done([u EXCEPT !.got[u.id] = u.loaded.value], "ok", stored)
          [] u.kind = "export" -> LET kept == [u EXCEPT !.got[u.id] = u.loaded.value]
                                  IN  IF last THEN Done(kept, "ok", stored) ELSE [kept EXCEPT !.id = @ + 1]
          [] u.kind = "import" /\ ~u.checked ->
                IF ~last THEN [next EXCEPT !.conflicts = counted]
                ELSE IF counted > 0 THEN Done(u, "conflict", stored)
                ELSE [u EXCEPT !.checked = TRUE, !.id = 1]
          [] u.kind = "import" /\ u.checked /\ there /\ u.strategy = "skip" -> IF last THEN Done(u, "ok", stored) ELSE next
          [] OTHER -> [u EXCEPT !.step = "put", !.value = u.got[u.id]]

Wanted(u) == u.kind # "import" \/ u.got[u.id] # 0

\* passes over an id the import does not have
passOver(u, stored) ==
    IF u.id < N THEN [u EXCEPT !.id = @ + 1]
    ELSE IF u.checked THEN Done(u, "ok", stored)
    ELSE IF u.conflicts > 0 THEN Done(u, "conflict", stored)
    ELSE [u EXCEPT !.checked = TRUE, !.id = 1]

\* get: reads the row, and decryptStored opens it
load(p) ==
    LET row == IF use[p].kind = "export" THEN use[p].snapshot[use[p].id] ELSE privRows[use[p].id]
        u == [use[p] EXCEPT !.loaded = row]
    IN  /\ use[p].step = "load"
        /\ use' = [use EXCEPT ![p] = IF ~Wanted(u) THEN passOver(use[p], privRows)
                                     ELSE IF row.by = "lost" THEN Done(u, "unreadable", privRows)
                                     ELSE IF row.by = "older" THEN [u EXCEPT !.step = "rewrite"]
                                     ELSE Advance(u, privRows)]
        /\ UNCHANGED <<privRows, export, uses>>

\* upsertPrivateState: looks whether the row is there ...
lookUp(p) ==
    /\ use[p].step \in {"rewrite", "put"}
    /\ use' = [use EXCEPT ![p].existed = privRows[use[p].id] # NoRow, ![p].step = IF @ = "put" THEN "putting" ELSE "rewriting"]
    /\ UNCHANGED <<privRows, export, uses>>

\* ... and updates it, which does nothing if it has gone, or inserts it, which fails if it has come
Written(u, value) ==
    IF u.existed = (privRows[u.id] # NoRow) THEN [privRows EXCEPT ![u.id] = [value |-> value, by |-> "current"]] ELSE privRows

\* decryptStored: whether or not the row could be saved again, its value is the answer
rewrite(p) ==
    /\ use[p].step = "rewriting"
    /\ privRows' \in {Written(use[p], use[p].loaded.value), privRows}
    /\ use' = [use EXCEPT ![p] = Advance([use[p] EXCEPT !.step = "load"], privRows')]
    /\ UNCHANGED <<export, uses>>

put(p) ==
    LET u == use[p]
    IN  /\ u.step = "putting"
        /\ privRows' = Written(u, u.value)
        /\ use' = [use EXCEPT ![p] = IF ~u.existed /\ privRows[u.id] # NoRow THEN Done(u, "duplicate", privRows')
                                     ELSE IF u.kind = "import" /\ u.id < N THEN [u EXCEPT !.id = @ + 1, !.step = "load"]
                                     ELSE Done(u, "ok", privRows')]
        /\ UNCHANGED <<export, uses>>

\* the caller keeps a finished export
keepExport(p) ==
    /\ use[p].kind = "export" /\ use[p].step = "done" /\ use[p].result = "ok" /\ export # use[p].got
    /\ export' = use[p].got
    /\ UNCHANGED <<privRows, use, uses>>

StoreNext ==
    \E p \in Providers : \/ set(p) \/ get(p) \/ remove(p) \/ clear(p) \/ exportPrivateStates(p) \/ importPrivateStates(p)
                         \/ load(p) \/ lookUp(p) \/ rewrite(p) \/ put(p) \/ keepExport(p)

StoreSpec == StoreInit /\ [][StoreNext]_storeVars

-----------------------------------------------------------------------------
(* Properties.                                                             *)

\* What `before` becomes by importing: all of it, what was missing, or nothing if there was a conflict.
Imported(u) ==
    [i \in Ids |-> IF u.got[i] # 0 /\ (u.before[i] = 0 \/ u.strategy = "overwrite") THEN u.got[i] ELSE u.before[i]]

\* An operation that no other overlapped does to the stored values what it would do to a plain map, whatever passwords they are
\* under: saving a row again on a read changes no value, an import that finds a conflict under 'error' writes nothing, and one that
\* meets a value it cannot open leaves every id as it was or as imported.
StoreIsAMap ==
    \A p \in Providers : LET u == use[p] IN u.step = "done" /\ u.alone =>
        CASE u.kind = "get" /\ u.result = "ok" -> u.after = u.before /\ u.got[u.id] = u.before[u.id]
          [] u.kind = "export" /\ u.result = "ok" -> u.after = u.before /\ u.got = u.before
          [] u.kind = "set" -> u.result = "ok" /\ u.after = [u.before EXCEPT ![u.id] = u.value]
          [] u.kind \in {"get", "export"} /\ u.result # "ok" -> u.after = u.before /\ u.before[u.id] = Unreadable
          [] u.kind = "import" /\ u.result = "conflict" -> u.after = u.before /\ (\E i \in Ids : u.before[i] # 0)
          [] u.kind = "import" /\ u.result = "unreadable" -> /\ \A i \in Ids : u.after[i] \in {u.before[i], Imported(u)[i]}
                                                            /\ \E i \in Ids : u.before[i] = Unreadable /\ u.after[i] = Unreadable
          [] u.kind = "import" /\ u.result = "ok" -> u.after = Imported(u)
          [] u.kind = "remove" -> \A i \in Ids : u.after[i] \in {u.before[i], 0}
          [] OTHER -> TRUE
=============================================================================
