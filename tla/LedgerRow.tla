----------------------------- MODULE LedgerRow -----------------------------
(***************************************************************************)
(* What the SQLite row adapter does to one row of its table                *)
(* (adapters/sqlite_db.py), as functions of the row it finds.  Each of the *)
(* adapter's calls opens its own connection, so each is one step on the    *)
(* row and anything may happen between two of them.                        *)
(*                                                                         *)
(* An update adds one to the version; an insert starts it at 0 again.  The *)
(* compensation of an update also adds one, but no compensation looks at   *)
(* the version it finds.                                                   *)
(***************************************************************************)
EXTENDS Naturals

Operations == {"insert", "update", "delete"}

\* The row that _fetch does not find.
Absent == [here |-> FALSE, balance |-> 0, version |-> 0]

Row(balance, version) == [here |-> TRUE, balance |-> balance, version |-> version]

\* prepare: what the manifest records of the row: the version to find at the
\* commit (the fingerprint) and the balance to restore, if there is a row.
PrepareRow(operation, new, row) ==
    [operation |-> operation,
     new       |-> new,
     version   |-> IF operation = "insert" THEN 0 ELSE row.version,
     restore   |-> row.here,
     previous  |-> row.balance]

\* A mutant of Satisfied: the version is not compared.
SatisfiedByPresence(manifest, row) == row.here <=> manifest.operation # "insert"

\* validate_preconditions
Satisfied(manifest, row) ==
    IF manifest.operation = "insert"
    THEN ~row.here
    ELSE row.here /\ row.version = manifest.version

\* commit: the statement repeats the condition in its WHERE clause or in the
\* primary key, and a statement that finds no row is a failed CommitResult.
CommitRow(manifest, row) ==
    IF ~Satisfied(manifest, row)
    THEN [success |-> FALSE, row |-> row]
    ELSE [success |-> TRUE,
          row     |-> CASE manifest.operation = "insert" -> Row(manifest.new, 0)
                        [] manifest.operation = "update" -> Row(manifest.new, row.version + 1)
                        [] manifest.operation = "delete" -> Absent]

\* verify
Matches(manifest, row) ==
    IF manifest.operation = "delete"
    THEN ~row.here
    ELSE row.here /\ row.balance = manifest.new

\* The change compensate makes when it restores a balance, without the version
\* column: a mistake the version column invites.
RestoreInPlace(manifest, row) == Row(manifest.previous, row.version)

RestoreBalance(manifest, row) == Row(manifest.previous, row.version + 1)

\* compensate: an insert is deleted, an update restored, a deletion refused.
CompensateRow(manifest, row) ==
    IF manifest.operation = "delete" \/ (manifest.operation = "update" /\ ~manifest.restore)
    THEN [attempted |-> FALSE, succeeded |-> FALSE, row |-> row]
    ELSE IF ~row.here
    THEN [attempted |-> TRUE, succeeded |-> FALSE, row |-> row]
    ELSE [attempted |-> TRUE, succeeded |-> TRUE,
          row |-> IF manifest.operation = "insert" THEN Absent ELSE RestoreBalance(manifest, row)]
=============================================================================
