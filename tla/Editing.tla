------------------------------ MODULE Editing ------------------------------
(***************************************************************************)
(* One table under handlers that edit its rows through a TypeORM           *)
(* Repository, for the services that do nothing else: findOne, change the  *)
(* entity, `save(entity)` (a second read and an UPDATE, see Repository) or *)
(* `softDelete(id)`.  Every await is a step of its own.  A handler stands  *)
(* for one request at a time and is used again.                            *)
(***************************************************************************)
EXTENDS Repository

CONSTANTS
    Ids,            \* ids of rows
    Handlers,       \* requests handled at a time
    NoRow,          \* no row has this id
    Null            \* the column IS NULL; no value

VARIABLES
    rows,           \* the table
    pc,             \* the await each handler stands at
    op,             \* its operation
    at,             \* the row it works on
    entity,         \* its copy of that row
    cols,           \* columns the save() in progress is about to UPDATE
    raced           \* history: rows two requests were at work on at once

locals  == <<pc, op, at, entity, cols>>
editing == <<rows, pc, op, at, entity, cols, raced>>

EditingInit ==
    /\ rows = [i \in Ids |-> NoRow]
    /\ pc = [h \in Handlers |-> "idle"]
    /\ op = [h \in Handlers |-> Null]
    /\ at = [h \in Handlers |-> Null]
    /\ entity = [h \in Handlers |-> NoRow]
    /\ cols = [h \in Handlers |-> {}]
    /\ raced = {}

(* findOne sees the rows that are not soft-deleted, in a table that has a  *)
(* deleted_at.                                                             *)
Live(i) == rows[i] # NoRow /\ ~rows[i].deleted

Busy(i) == \E h \in Handlers : at[h] = i

(* save() of an entity that has no id yet.                                 *)
Insert(i, row) ==
    /\ rows[i] = NoRow
    /\ rows' = [rows EXCEPT ![i] = row]
    /\ UNCHANGED <<locals, raced>>

(* save() of an entity that has no id yet, by a handler that then awaits p.*)
InsertBy(h, o, i, row, p) ==
    /\ pc[h] = "idle" /\ rows[i] = NoRow
    /\ rows' = [rows EXCEPT ![i] = row]
    /\ pc' = [pc EXCEPT ![h] = p]
    /\ op' = [op EXCEPT ![h] = o]
    /\ at' = [at EXCEPT ![h] = i]
    /\ entity' = [entity EXCEPT ![h] = row]
    /\ UNCHANGED <<cols, raced>>

(* Request o is past its findOne and its checks, with `copy` in its hands, *)
(* and awaits p.                                                           *)
Begin(h, o, i, copy, p) ==
    /\ pc[h] = "idle" /\ rows[i] # NoRow
    /\ pc' = [pc EXCEPT ![h] = p]
    /\ op' = [op EXCEPT ![h] = o]
    /\ at' = [at EXCEPT ![h] = i]
    /\ entity' = [entity EXCEPT ![h] = copy]
    /\ raced' = raced \cup {j \in {i} : Busy(j)}
    /\ UNCHANGED <<rows, cols>>

(* The response leaves, or an exception.                                   *)
Finish(h) ==
    /\ pc' = [pc EXCEPT ![h] = "idle"]
    /\ op' = [op EXCEPT ![h] = Null]
    /\ at' = [at EXCEPT ![h] = Null]
    /\ entity' = [entity EXCEPT ![h] = NoRow]
    /\ cols' = [cols EXCEPT ![h] = {}]

(* The handler is through with what it awaited and awaits p.               *)
Resume(h, p) ==
    IF p = "idle" THEN Finish(h)
    ELSE /\ pc' = [pc EXCEPT ![h] = p]
         /\ cols' = [cols EXCEPT ![h] = {}]
         /\ UNCHANGED <<op, at, entity>>

(* save(entity) reads the row again, deleted or not, and compares.         *)
Reload(h, next) ==
    LET changed == Diff(entity[h], rows[at[h]]) IN
    /\ pc[h] = "reload"
    /\ IF changed = {} THEN Resume(h, next)
       ELSE /\ pc' = [pc EXCEPT ![h] = "write"]
            /\ cols' = [cols EXCEPT ![h] = changed]
            /\ UNCHANGED <<op, at, entity>>
    /\ UNCHANGED <<rows, raced>>

(* save(entity) writes the columns that differed.                          *)
Write(h, next) ==
    /\ pc[h] = "write"
    /\ rows' = [rows EXCEPT ![at[h]] = Patch(@, entity[h], cols[h])]
    /\ Resume(h, next)
    /\ UNCHANGED raced

(* softDelete(id): an UPDATE of deleted_at that does not say whether the   *)
(* row was still live; every caller ends with it.                          *)
SoftDelete(h) ==
    /\ pc[h] = "softDelete"
    /\ rows' = [rows EXCEPT ![at[h]].deleted = TRUE]
    /\ Finish(h)
    /\ UNCHANGED raced

(* What the handler awaits rejects, or the process dies, before the        *)
(* database has changed anything.                                          *)
Rejects(h) ==
    /\ pc[h] # "idle"
    /\ Finish(h)
    /\ UNCHANGED <<rows, raced>>

(* A row no two requests were at work on at once has one handler.          *)
Sole ==
    \A g, h \in Handlers :
        at[g] = at[h] /\ at[h] # Null /\ at[h] \notin raced => g = h

(* What a handler holds fits where it stands, and the row it works on      *)
(* exists; Row is the set of rows, Pcs what may be awaited.                *)
EditingOK(Row, Ops, Pcs) ==
    /\ rows \in [Ids -> Row \cup {NoRow}]
    /\ pc \in [Handlers -> Pcs] /\ op \in [Handlers -> Ops \cup {Null}]
    /\ at \in [Handlers -> Ids \cup {Null}]
    /\ entity \in [Handlers -> Row \cup {NoRow}]
    /\ cols = [h \in Handlers |-> cols[h]]
    /\ raced \subseteq Ids
    /\ \A h \in Handlers :
          /\ pc[h] = "idle" <=> at[h] = Null
          /\ pc[h] = "idle" => cols[h] = {}
          /\ pc[h] # "idle" =>
                /\ op[h] # Null /\ rows[at[h]] # NoRow /\ entity[h] # NoRow
                /\ cols[h] \subseteq DOMAIN rows[at[h]]

=============================================================================
