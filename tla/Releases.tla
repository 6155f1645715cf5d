------------------------------ MODULE Releases ------------------------------
(***************************************************************************)
(* Small models of five releases for SchemaDelta. The second adds columns, *)
(* for which ALTER TABLE is enough; the third allows nulls in one column;  *)
(* the fourth forbids them in another, has other unique keys and a new     *)
(* table and view; the fifth no longer has a column. An older database may *)
(* hold two rows with the same value of a, which a unique index refuses.   *)
(***************************************************************************)
EXTENDS Integers

Column(n, d) == [notNull |-> n, default |-> d]
Must == Column(TRUE, 0)
May == Column(FALSE, 0)
Table(c, u) == [cols |-> c, unique |-> u]
ReleaseModels ==
    <<[tables |-> [t |-> Table([id |-> Must, a |-> Must, b |-> May], {})],
       views |-> {"v"}],
      [tables |-> [t |-> Table([id |-> Must, a |-> Must, b |-> May, c |-> Must, d |-> Column(TRUE, 1)], {})],
       views |-> {"v"}],
      [tables |-> [t |-> Table([id |-> Must, a |-> May, b |-> May, c |-> Must, d |-> Column(TRUE, 1)], {})],
       views |-> {"v"}],
      [tables |-> [t |-> Table([id |-> Must, a |-> May, b |-> Column(TRUE, 1), c |-> Must, d |-> Column(TRUE, 1)], {{"a", "b"}}),
                   u |-> Table([id |-> Must], {})],
       views |-> {"v", "w"}],
      [tables |-> [t |-> Table([id |-> Must, a |-> May, c |-> Must, d |-> Column(TRUE, 1)], {{"a"}}),
                   u |-> Table([id |-> Must], {})],
       views |-> {"w"}]>>

\* releases probe what they added; changed constraints are not probed
Since2 == [t |-> {"id", "c", "d"}]
Since4 == [t |-> {"id", "c", "d"}, u |-> {"id"}]
ProbedColumns == <<[t |-> {"id"}], Since2, Since2, Since4, Since4>>

SecondaryIndexes == {[name |-> "ng_a_unique", table |-> "t", over |-> {"a"}, unique |-> TRUE, replaces |-> "ng_a"]}

OldTable(rows) ==
    [t |-> [cols |-> ReleaseModels[1].tables.t.cols, unique |-> {}, rows |-> rows,
            indexes |-> {[name |-> "ng_a", over |-> {"a"}, unique |-> FALSE]}]]
OldRow(i, b) == [id |-> i, a |-> 1, b |-> b]
OldDatabases == {OldTable({}), OldTable({OldRow(1, 2)}), OldTable({OldRow(1, 0), OldRow(2, 2)})}
=============================================================================
