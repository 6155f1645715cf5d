----------------------------- MODULE SchemaDelta -----------------------------
(***************************************************************************)
(* Upgrades of an SQLite database: the offline tool nightgate-schema-delta *)
(* (scripts/apply-schema-delta.mjs), the server's check at the start       *)
(* (ensureSchemaDeployed of src/index.ts) and its secondary indexes        *)
(* (utils/db-indexes.ts). A release comes with a model; an operator may    *)
(* skip releases, start the server before the tool, and add indexes and    *)
(* views of his own. The tool's work is one database transaction: a        *)
(* statement that fails, or a kill, leaves the database as it was.         *)
(*                                                                         *)
(* A model is [tables, views]; a table of it is [cols, unique], a column   *)
(* [notNull, default] with the default Null for none. A table of the       *)
(* database also has its indexes and rows. The rows of the chain, which    *)
(* the tool corrects, are reduced to one value of each kind in book.       *)
(***************************************************************************)
EXTENDS Integers, Sequences, FiniteSets

CONSTANTS
    Models,         \* the releases' models, oldest first
    Required,       \* table -> columns the server probes at its start
    Indexes,        \* NIGHTGATE_INDEXES: [name, table, over, unique, replaces]
    Firsts,         \* what the tables of the database may be when the first of the releases runs on it
    Ids, Values,    \* keys and other values of rows
    KeepsHistory    \* the server keeps the full state of contract actions

VARIABLES
    installed,      \* the installed release
    migrated,       \* the release of the last migration that committed
    serving,        \* the server runs
    db,             \* the tables
    views,
    own,            \* names of the operator's own indexes and views
    written,        \* history: rows the server wrote, as it wrote them
    book            \* the chain's rows

deltaVars == <<installed, migrated, serving, db, views, own, written, book>>

Null == 0
Key == "id"
Model == Models[installed]

\* rows of a release before 0.23 (envelope bytes stored as text, a copy of them as state, amounts read from the
\* envelope, the state root in the wrong column), and of a database without blocks
Legacy == [raw |-> "lossy", state |-> TRUE, derived |-> "wrong", root |-> "none", params |-> "root"]
Empty == [raw |-> "none", state |-> FALSE, derived |-> "none", root |-> "none", params |-> "none"]

DeltaInit ==
    /\ installed = 1 /\ migrated = 1 /\ serving = FALSE
    /\ db \in Firsts /\ views = Models[1].views /\ own = {}
    /\ written = UNION { { [table |-> t, row |-> r] : r \in db[t].rows } : t \in DOMAIN db }
    /\ book \in {Legacy, Empty}

-----------------------------------------------------------------------------
(* What SQLite accepts.                                                    *)

\* no two rows agree on the columns; a null agrees with nothing
Distinct(rows, over) ==
    \A r, s \in rows : (\A c \in over : r[c] = s[c] /\ r[c] # Null) => r = s

Accepts(table) ==
    /\ \A r \in table.rows, c \in DOMAIN table.cols : table.cols[c].notNull => r[c] # Null
    /\ \A over \in table.unique \cup {{Key}} : Distinct(table.rows, over)
    /\ \A x \in table.indexes : x.over \subseteq DOMAIN table.cols /\ (x.unique => Distinct(table.rows, x.over))

\* a row under other columns: new ones take their default
Carried(row, cols) == [c \in DOMAIN cols |-> IF c \in DOMAIN row THEN row[c] ELSE cols[c].default]

-----------------------------------------------------------------------------
(* The tool.                                                               *)

\* columns of table t that the database and the model both have, without the key
Shared(t) == (DOMAIN db[t].cols \cap DOMAIN Model.tables[t].cols) \ {Key}

relaxedColumns(t) == { c \in Shared(t) : db[t].cols[c].notNull /\ ~Model.tables[t].cols[c].notNull }

tightenedColumns(t) ==
    { c \in Shared(t) : LET target == Model.tables[t].cols[c]
                        IN  ~db[t].cols[c].notNull /\ target.notNull /\ target.default # Null }

uniqueKeysChanged(t) == db[t].unique # Model.tables[t].unique

\* a column that is added loses a bare NOT NULL
Added(col) == [col EXCEPT !.notNull = col.notNull /\ col.default # Null]

\* the new table has the model's columns and unique keys, the old rows, and the indexes
rebuildTable(t) ==
    LET have == DOMAIN db[t].cols
        cols == [c \in DOMAIN Model.tables[t].cols |->
                    IF c \in have THEN Model.tables[t].cols[c] ELSE Added(Model.tables[t].cols[c])]
        filled(row) == [c \in have |-> IF c \in tightenedColumns(t) /\ row[c] = Null THEN Model.tables[t].cols[c].default ELSE row[c]]
    IN  [cols |-> cols, unique |-> Model.tables[t].unique, indexes |-> db[t].indexes,
         rows |-> { Carried(filled(r), cols) : r \in db[t].rows }]

addColumns(t) ==
    LET have == DOMAIN db[t].cols
        cols == [c \in have \cup DOMAIN Model.tables[t].cols |->
                    IF c \in have THEN db[t].cols[c] ELSE Added(Model.tables[t].cols[c])]
    IN  [db[t] EXCEPT !.cols = cols, !.rows = { Carried(r, cols) : r \in db[t].rows }]

\* what a CREATE TABLE of the model does to the database
reconcile(t) ==
    IF t \notin DOMAIN db
    THEN [cols |-> Model.tables[t].cols, unique |-> Model.tables[t].unique, indexes |-> {}, rows |-> {}]
    ELSE IF relaxedColumns(t) # {} \/ tightenedColumns(t) # {} \/ uniqueKeysChanged(t) THEN rebuildTable(t)
    ELSE addColumns(t)

\* each index that can be made is there, and replaces the older one
ensureIndexes(t, table) ==
    LET made == { s \in Indexes : /\ s.table = t /\ s.over \subseteq DOMAIN table.cols
                                  /\ s.unique => Distinct(table.rows, s.over) }
    IN  [table EXCEPT !.indexes = { x \in @ : x.name \notin { s.replaces : s \in made } }
                                  \cup { [name |-> s.name, over |-> s.over, unique |-> s.unique] : s \in made }]

\* lossy bytes and what was derived from them are cleared, and any stored state of an action counts as such a copy
cleared(b) ==
    IF b.raw = "lossy" \/ b.state
    THEN [b EXCEPT !.raw = IF @ = "lossy" THEN "none" ELSE @, !.state = FALSE, !.derived = "none"]
    ELSE b

\* the state root goes to its own column
rootMoved(b) == IF b.root = "none" /\ b.params # "none" THEN [b EXCEPT !.root = b.params, !.params = "none"] ELSE b

migrate ==
    /\ ~serving
    /\ LET tables == [t \in DOMAIN db \cup DOMAIN Model.tables |-> IF t \in DOMAIN Model.tables THEN reconcile(t) ELSE db[t]]
       IN  /\ \A t \in DOMAIN tables : Accepts(tables[t])                 \* else a statement fails
           /\ (views \ Model.views) \cap DOMAIN tables = {}               \* a view cannot be restored beside such a table
           /\ db' = [t \in DOMAIN tables |-> ensureIndexes(t, tables[t])]
    /\ views' = views \cup Model.views
    /\ book' = rootMoved(cleared(book))
    /\ migrated' = installed
    /\ UNCHANGED <<installed, serving, own, written>>

-----------------------------------------------------------------------------
(* The server and the operator.                                            *)

\* ensureSchemaDeployed: the probed tables and columns are there; the indexes are made
start ==
    /\ ~serving
    /\ \A t \in DOMAIN Required[installed] : t \in DOMAIN db /\ Required[installed][t] \subseteq DOMAIN db[t].cols
    /\ serving' = TRUE
    /\ db' = [t \in DOMAIN db |-> ensureIndexes(t, db[t])]
    /\ UNCHANGED <<installed, migrated, views, own, written, book>>

stop ==
    /\ serving /\ serving' = FALSE
    /\ UNCHANGED <<installed, migrated, db, views, own, written, book>>

upgrade(release) ==
    /\ ~serving /\ release > installed
    /\ installed' = release
    /\ UNCHANGED <<migrated, serving, db, views, own, written, book>>

\* rows the model allows in table t
Rows(t) ==
    LET cols == Model.tables[t].cols
    IN  { r \in [DOMAIN cols -> Ids \cup Values \cup {Null}] :
            /\ r[Key] \in Ids
            /\ \A c \in DOMAIN cols \ {Key} : r[c] \in Values \cup (IF cols[c].notNull THEN {} ELSE {Null}) }

\* an INSERT of the server; the database may refuse it
write(t, row) ==
    /\ serving /\ t \in DOMAIN db /\ DOMAIN row \subseteq DOMAIN db[t].cols
    /\ \A r \in db[t].rows : r[Key] # row[Key]
    /\ LET table == [db[t] EXCEPT !.rows = @ \cup {Carried(row, db[t].cols)}]
       IN  Accepts(table) /\ db' = [db EXCEPT ![t] = table]
    /\ written' = written \cup {[table |-> t, row |-> row]}
    /\ UNCHANGED <<installed, migrated, serving, views, own, book>>

\* the crawler stores the chain from genesis on: a first start, or reindexFromHeight(0)
index ==
    /\ serving /\ book # [raw |-> "bytes", state |-> FALSE, derived |-> "true", root |-> "root", params |-> "none"]
    /\ book' = [raw |-> "bytes", state |-> FALSE, derived |-> "true", root |-> "root", params |-> "none"]
    /\ UNCHANGED <<installed, migrated, serving, db, views, own, written>>

\* the supplement adds parameters, and under contractStateHistory the full states
supplement ==
    /\ serving /\ book.raw = "bytes" /\ book.params = "none"
    /\ book' = [book EXCEPT !.params = "params", !.state = KeepsHistory]
    /\ UNCHANGED <<installed, migrated, serving, db, views, own, written>>

addIndex(t, c) ==
    /\ ~serving /\ own = {}
    /\ db' = [db EXCEPT ![t].indexes = @ \cup {[name |-> "mine", over |-> {c}, unique |-> FALSE]}]
    /\ own' = {"mine"}
    /\ UNCHANGED <<installed, migrated, serving, views, written, book>>

addView(name) ==
    /\ ~serving /\ own = {} /\ name \notin views /\ name \notin DOMAIN db
    /\ views' = views \cup {name} /\ own' = {name}
    /\ UNCHANGED <<installed, migrated, serving, db, written, book>>

DeltaNext ==
    \/ migrate \/ start \/ stop \/ index \/ supplement
    \/ \E release \in DOMAIN Models : upgrade(release)
    \/ \E t \in DOMAIN Model.tables : \E row \in Rows(t) : write(t, row)
    \/ \E t \in DOMAIN db : \E c \in DOMAIN db[t].cols : addIndex(t, c)
    \/ \E name \in {"view", "u"} : addView(name)

DeltaSpec == DeltaInit /\ [][DeltaNext]_deltaVars

-----------------------------------------------------------------------------
\* A migrated database takes every row its model allows: it has the tables, columns, unique keys and views of the model,
\* and requires no value the model does not; another run would rebuild no table (relaxedColumns, uniqueKeysChanged, rebuildTable).
SchemaFits ==
    migrated = installed =>
        /\ Model.views \subseteq views
        /\ \A t \in DOMAIN Model.tables :
              /\ t \in DOMAIN db /\ db[t].unique = Model.tables[t].unique
              /\ DOMAIN Model.tables[t].cols \subseteq DOMAIN db[t].cols
              /\ \A c \in DOMAIN db[t].cols : db[t].cols[c].notNull => IF c \in DOMAIN Model.tables[t].cols
                    THEN Model.tables[t].cols[c].notNull ELSE db[t].cols[c].default # Null
              /\ relaxedColumns(t) = {} /\ tightenedColumns(t) = {}

\* Whatever releases a database went through, a row has the values it was written with in all columns its model still has
\* (a null may have become the column's default), the operator's indexes and views are there, and no index is dropped before
\* the one that replaces it (rebuildTable, ensureIndexes).
RowsKept ==
    /\ \A w \in written : \E r \in db[w.table].rows :
          /\ r[Key] = w.row[Key]
          /\ \A c \in DOMAIN w.row \cap DOMAIN r \cap DOMAIN Model.tables[w.table].cols :
                r[c] = w.row[c] \/ (w.row[c] = Null /\ r[c] = Model.tables[w.table].cols[c].default)
    /\ own \subseteq views \cup UNION { { x.name : x \in db[t].indexes } : t \in DOMAIN db }
    /\ \A s \in Indexes : \E x \in db[s.table].indexes : x.name \in {s.name, s.replaces}

\* "Only a database with lossy raw values reaches this" (apply-schema-delta.mjs), "additive, keeps data" (src/index.ts): what a
\* current release indexed stays.
OnlyLossyIsCleared == book.raw = "bytes" => book.derived = "true"
=============================================================================
