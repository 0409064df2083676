----------------------------- MODULE Repository -----------------------------
(***************************************************************************)
(* What the services rely on when they call a TypeORM Repository.          *)
(*                                                                         *)
(* `findOne` hands the caller a private copy (the entity) of a row.  The   *)
(* caller changes fields of its copy and calls `save(entity)`, which       *)
(*   1. reads the row again and compares it with the entity, column by     *)
(*      column, before any transaction is open;                            *)
(*   2. issues one UPDATE that sets exactly the columns that differed, to  *)
(*      the entity's values; no UPDATE at all when nothing differed.       *)
(* Both are round trips the handler awaits, so other requests run between  *)
(* the findOne and the re-read, and between the re-read and the UPDATE.    *)
(* No entity of this service has a @VersionColumn and no query takes a     *)
(* lock, so nothing rejects the save of a stale copy.                      *)
(*                                                                         *)
(* A row is a record; its columns are the record's fields.                 *)
(***************************************************************************)

(* The columns `save(entity)` finds changed when it re-reads `row`.        *)
Diff(entity, row) == {c \in DOMAIN row : entity[c] # row[c]}

(* `row` after the UPDATE that sets the columns `cols` from `entity`.      *)
Patch(row, entity, cols) ==
    [c \in DOMAIN row |-> IF c \in cols THEN entity[c] ELSE row[c]]

=============================================================================
