--------------------------- MODULE EditingProofs ---------------------------
(***************************************************************************)
(* What each step of Editing keeps, whatever the table: stated once, cited *)
(* by the proofs about the services that are built from these steps.       *)
(***************************************************************************)
EXTENDS Editing, TLAPS

(* What a service must say of its rows for the lemmas to apply to it.      *)
Sound(Row, Ops, Pcs) ==
    /\ NoRow \notin Row /\ Null \notin Ids \cup Ops /\ "idle" \in Pcs
    /\ \A row, copy \in Row : \A columns : Patch(row, copy, columns) \in Row

-----------------------------------------------------------------------------
(* An UPDATE keeps the columns a row has.                                  *)
LEMMA PatchDomain ==
    ASSUME NEW row, NEW copy, NEW columns
    PROVE  DOMAIN Patch(row, copy, columns) = DOMAIN row
  BY DEF Patch

(* Before the first request nothing is inconsistent.                       *)
LEMMA InitFits ==
    ASSUME NEW Row, NEW Ops, NEW Pcs, Sound(Row, Ops, Pcs), EditingInit
    PROVE  EditingOK(Row, Ops, Pcs) /\ Sole
  BY DEF EditingInit, EditingOK, Sound, Sole

(* The table, and one handler's part of EditingOK.                         *)
TableFits(Row) ==
    rows \in [Ids -> Row \cup {NoRow}] /\ raced \subseteq Ids

HandlerFits(Row, Ops, Pcs, h) ==
    /\ pc[h] \in Pcs /\ op[h] \in Ops \cup {Null} /\ at[h] \in Ids \cup {Null}
    /\ entity[h] \in Row \cup {NoRow}
    /\ pc[h] = "idle" <=> at[h] = Null
    /\ pc[h] = "idle" => cols[h] = {}
    /\ pc[h] # "idle" =>
          /\ op[h] # Null /\ rows[at[h]] # NoRow /\ entity[h] # NoRow
          /\ cols[h] \subseteq DOMAIN rows[at[h]]

(* A step of handler h changes no other handler's locals, and takes no row *)
(* or column away.                                                         *)
StepOf(h) ==
    /\ pc' = [pc EXCEPT ![h] = pc'[h]] /\ op' = [op EXCEPT ![h] = op'[h]]
    /\ at' = [at EXCEPT ![h] = at'[h]] /\ entity' = [entity EXCEPT ![h] = entity'[h]]
    /\ cols' = [cols EXCEPT ![h] = cols'[h]]
    /\ \A i \in Ids : rows[i] # NoRow =>
          rows'[i] # NoRow /\ DOMAIN rows'[i] = DOMAIN rows[i]

LEMMA Parts ==
    ASSUME NEW Row, NEW Ops, NEW Pcs, EditingOK(Row, Ops, Pcs)
    PROVE  TableFits(Row) /\ \A h \in Handlers : HandlerFits(Row, Ops, Pcs, h)
  BY DEF EditingOK, TableFits, HandlerFits

(* So it is enough to look at the table and at the handler itself.         *)
LEMMA Assemble ==
    ASSUME NEW Row, NEW Ops, NEW Pcs, Sound(Row, Ops, Pcs), EditingOK(Row, Ops, Pcs),
           NEW h \in Handlers, StepOf(h), TableFits(Row)',
           HandlerFits(Row, Ops, Pcs, h)'
    PROVE  EditingOK(Row, Ops, Pcs)'
<1>1. ASSUME NEW g \in Handlers
      PROVE  HandlerFits(Row, Ops, Pcs, g)'
  <2>1. CASE g = h
    BY <2>1
  <2>2. CASE g # h
    <3>1. /\ pc'[g] = pc[g] /\ op'[g] = op[g] /\ at'[g] = at[g]
          /\ entity'[g] = entity[g] /\ cols'[g] = cols[g]
      BY <2>2 DEF StepOf, EditingOK
    <3>2. pc[g] # "idle" => at[g] \in Ids /\ rows[at[g]] # NoRow
      BY DEF EditingOK
    <3>3. pc[g] # "idle" => /\ rows'[at[g]] # NoRow
                            /\ DOMAIN rows'[at[g]] = DOMAIN rows[at[g]]
      BY <3>2 DEF StepOf
    <3> QED
      BY <3>1, <3>3, Parts DEF HandlerFits
  <2> QED
    BY <2>1, <2>2
<1>2. /\ pc' \in [Handlers -> Pcs] /\ op' \in [Handlers -> Ops \cup {Null}]
      /\ at' \in [Handlers -> Ids \cup {Null}]
      /\ entity' \in [Handlers -> Row \cup {NoRow}]
      /\ cols' = [g \in Handlers |-> cols'[g]]
  <2>1. /\ pc'[h] \in Pcs /\ op'[h] \in Ops \cup {Null}
        /\ at'[h] \in Ids \cup {Null} /\ entity'[h] \in Row \cup {NoRow}
    BY DEF HandlerFits
  <2> QED
    BY <2>1 DEF StepOf, EditingOK
<1>3. EditingOK(Row, Ops, Pcs)' <=>
        /\ rows' \in [Ids -> Row \cup {NoRow}]
        /\ pc' \in [Handlers -> Pcs] /\ op' \in [Handlers -> Ops \cup {Null}]
        /\ at' \in [Handlers -> Ids \cup {Null}]
        /\ entity' \in [Handlers -> Row \cup {NoRow}]
        /\ cols' = [g \in Handlers |-> cols'[g]]
        /\ raced' \subseteq Ids
        /\ \A g \in Handlers :
              /\ pc'[g] = "idle" <=> at'[g] = Null
              /\ pc'[g] = "idle" => cols'[g] = {}
              /\ pc'[g] # "idle" =>
                    /\ op'[g] # Null /\ rows'[at'[g]] # NoRow /\ entity'[g] # NoRow
                    /\ cols'[g] \subseteq DOMAIN rows'[at'[g]]
  BY DEF EditingOK
<1> QED
  BY <1>1, <1>2, <1>3 DEF TableFits, HandlerFits

(* An INSERT of a row by a request that does nothing else.                 *)
LEMMA InsertFits ==
    ASSUME NEW Row, NEW Ops, NEW Pcs, Sound(Row, Ops, Pcs),
           EditingOK(Row, Ops, Pcs), NEW i \in Ids, NEW row \in Row, Insert(i, row)
    PROVE  EditingOK(Row, Ops, Pcs)'
  BY DEF Insert, EditingOK, Sound, locals

(* An INSERT by a request that goes on with the row.                       *)
LEMMA InsertByFits ==
    ASSUME NEW Row, NEW Ops, NEW Pcs, Sound(Row, Ops, Pcs),
           EditingOK(Row, Ops, Pcs), NEW h \in Handlers, NEW o \in Ops,
           NEW i \in Ids, NEW row \in Row, NEW p \in Pcs \ {"idle"},
           InsertBy(h, o, i, row, p)
    PROVE  EditingOK(Row, Ops, Pcs)'
  BY DEF InsertBy, EditingOK, Sound

(* A request past its findOne and its checks.                              *)
LEMMA BeginFits ==
    ASSUME NEW Row, NEW Ops, NEW Pcs, Sound(Row, Ops, Pcs),
           EditingOK(Row, Ops, Pcs), NEW h \in Handlers, NEW o \in Ops,
           NEW i \in Ids, NEW copy \in Row, NEW p \in Pcs \ {"idle"},
           Begin(h, o, i, copy, p)
    PROVE  EditingOK(Row, Ops, Pcs)'
<1>1. raced' \subseteq Ids
  BY DEF Begin, EditingOK
<1>2. StepOf(h)
  BY DEF Begin, EditingOK, StepOf
<1>3. /\ pc'[h] = p /\ op'[h] = o /\ at'[h] = i /\ entity'[h] = copy
      /\ cols'[h] = {} /\ rows' = rows /\ rows[i] # NoRow
  BY DEF Begin, EditingOK
<1>4. HandlerFits(Row, Ops, Pcs, h)'
  BY <1>3 DEF HandlerFits, Sound
<1> QED
  BY <1>1, <1>2, <1>3, <1>4, Assemble DEF TableFits, EditingOK

(* A handler that ends, or goes on, without touching the table.            *)
LEMMA ResumeFits ==
    ASSUME NEW Row, NEW Ops, NEW Pcs, Sound(Row, Ops, Pcs),
           EditingOK(Row, Ops, Pcs), NEW h \in Handlers, NEW p \in Pcs,
           pc[h] # "idle", Resume(h, p), UNCHANGED <<rows, raced>>
    PROVE  EditingOK(Row, Ops, Pcs)'
<1>1. TableFits(Row)'
  BY DEF TableFits, EditingOK
<1>2. CASE p = "idle"
  <2>1. StepOf(h)
    BY <1>2 DEF Resume, Finish, EditingOK, StepOf
  <2>2. HandlerFits(Row, Ops, Pcs, h)'
    BY <1>2 DEF Resume, Finish, EditingOK, HandlerFits, Sound
  <2> QED
    BY <1>1, <2>1, <2>2, Assemble
<1>3. CASE p # "idle"
  <2>1. StepOf(h)
    BY <1>3 DEF Resume, EditingOK, StepOf
  <2>2. HandlerFits(Row, Ops, Pcs, h)'
    BY <1>3 DEF Resume, EditingOK, HandlerFits, Sound
  <2> QED
    BY <1>1, <2>1, <2>2, Assemble
<1> QED
  BY <1>2, <1>3

(* The second read of save().                                              *)
LEMMA ReloadFits ==
    ASSUME NEW Row, NEW Ops, NEW Pcs, Sound(Row, Ops, Pcs),
           EditingOK(Row, Ops, Pcs), NEW h \in Handlers,
           NEW next \in Pcs, "write" \in Pcs, pc[h] # "idle", Reload(h, next)
    PROVE  EditingOK(Row, Ops, Pcs)'
<1>1. CASE Resume(h, next)
  BY <1>1, ResumeFits DEF Reload
<1>2. CASE /\ pc' = [pc EXCEPT ![h] = "write"]
           /\ cols' = [cols EXCEPT ![h] = Diff(entity[h], rows[at[h]])]
           /\ UNCHANGED <<op, at, entity>>
  BY <1>2 DEF Reload, Diff, EditingOK, Sound
<1> QED
  BY <1>1, <1>2 DEF Reload

(* The UPDATE of save().                                                   *)
LEMMA WriteFits ==
    ASSUME NEW Row, NEW Ops, NEW Pcs, Sound(Row, Ops, Pcs),
           EditingOK(Row, Ops, Pcs), NEW h \in Handlers,
           NEW next \in Pcs, Write(h, next)
    PROVE  EditingOK(Row, Ops, Pcs)'
<1> DEFINE patched == Patch(rows[at[h]], entity[h], cols[h])
<1>1. /\ at[h] \in Ids /\ rows[at[h]] \in Row /\ entity[h] \in Row
      /\ pc[h] = "write" /\ pc[h] # "idle"
  BY DEF Write, EditingOK, Sound
<1>2. patched \in Row /\ DOMAIN patched = DOMAIN rows[at[h]]
  BY <1>1, PatchDomain DEF Sound
<1>3. rows' = [rows EXCEPT ![at[h]] = patched] /\ Resume(h, next) /\ raced' = raced
  BY DEF Write
<1>4. TableFits(Row)'
  BY <1>1, <1>2, <1>3 DEF TableFits, EditingOK
<1>5. \A i \in Ids : rows[i] # NoRow =>
          rows'[i] # NoRow /\ DOMAIN rows'[i] = DOMAIN rows[i]
  BY <1>1, <1>2, <1>3 DEF EditingOK, Sound
<1> HIDE DEF patched
<1>6. CASE next = "idle"
  <2>1. StepOf(h)
    BY <1>3, <1>5, <1>6 DEF Resume, Finish, EditingOK, StepOf
  <2>2. HandlerFits(Row, Ops, Pcs, h)'
    BY <1>3, <1>6 DEF Resume, Finish, EditingOK, HandlerFits, Sound
  <2> QED
    BY <2>1, <2>2, <1>4, Assemble
<1>7. CASE next # "idle"
  <2>1. StepOf(h)
    BY <1>3, <1>5, <1>7 DEF Resume, EditingOK, StepOf
  <2>2. HandlerFits(Row, Ops, Pcs, h)'
    BY <1>1, <1>3, <1>5, <1>7 DEF Resume, EditingOK, HandlerFits, Sound
  <2> QED
    BY <2>1, <2>2, <1>4, Assemble
<1> QED
  BY <1>6, <1>7

(* The UPDATE of softDelete(), in a table whose rows can be deleted.       *)
LEMMA SoftDeleteFits ==
    ASSUME NEW Row, NEW Ops, NEW Pcs, Sound(Row, Ops, Pcs),
           \A row \in Row : [row EXCEPT !.deleted = TRUE] \in Row,
           EditingOK(Row, Ops, Pcs), NEW h \in Handlers, SoftDelete(h)
    PROVE  EditingOK(Row, Ops, Pcs)'
<1>1. /\ at[h] \in Ids /\ rows[at[h]] \in Row
      /\ rows' = [rows EXCEPT ![at[h]].deleted = TRUE] /\ raced' = raced
  BY DEF SoftDelete, EditingOK, Sound
<1> DEFINE new == [rows[at[h]] EXCEPT !.deleted = TRUE]
<1>2. rows' = [rows EXCEPT ![at[h]] = new]
  BY <1>1
<1>3. new \in Row /\ DOMAIN new = DOMAIN rows[at[h]]
  BY <1>1
<1> HIDE DEF new
<1>4. TableFits(Row)'
  BY <1>1, <1>2, <1>3 DEF TableFits, EditingOK
<1>5. \A i \in Ids : rows[i] # NoRow =>
          rows'[i] # NoRow /\ DOMAIN rows'[i] = DOMAIN rows[i]
  BY <1>1, <1>2, <1>3 DEF EditingOK, Sound
<1>6. StepOf(h)
  BY <1>5 DEF SoftDelete, Finish, EditingOK, StepOf
<1>7. HandlerFits(Row, Ops, Pcs, h)'
  BY DEF SoftDelete, Finish, EditingOK, HandlerFits, Sound
<1> QED
  BY <1>4, <1>6, <1>7, Assemble

(* An await that rejects.                                                  *)
LEMMA RejectsFits ==
    ASSUME NEW Row, NEW Ops, NEW Pcs, Sound(Row, Ops, Pcs),
           EditingOK(Row, Ops, Pcs), NEW h \in Handlers, Rejects(h)
    PROVE  EditingOK(Row, Ops, Pcs)'
  BY DEF Rejects, Finish, EditingOK, Sound

-----------------------------------------------------------------------------
(* A step in which a handler goes on, or ends, leaves each row no race was *)
(* seen on to one handler; a request that arrives at a row at work on      *)
(* marks it, and an INSERT finds a row nobody has.                         *)
LEMMA SoleKept ==
    ASSUME NEW Row, NEW Ops, NEW Pcs, EditingOK(Row, Ops, Pcs), Sole,
           NEW h \in Handlers, raced' = raced,
           at' = at \/ at' = [at EXCEPT ![h] = Null]
    PROVE  Sole'
  BY DEF Sole, EditingOK

LEMMA SoleBegins ==
    ASSUME NEW Row, NEW Ops, NEW Pcs, EditingOK(Row, Ops, Pcs), Sole,
           NEW h \in Handlers, NEW o, NEW i \in Ids, NEW copy, NEW p,
           Begin(h, o, i, copy, p)
    PROVE  Sole' /\ (i \notin raced' => \A g \in Handlers : at[g] # i)
<1>1. i \notin raced' => \A g \in Handlers : at[g] # i
  BY DEF Begin, Busy
<1> QED
  BY <1>1 DEF Begin, Sole, EditingOK

LEMMA SoleInserts ==
    ASSUME NEW Row, NEW Ops, NEW Pcs, Sound(Row, Ops, Pcs), EditingOK(Row, Ops, Pcs),
           Sole, NEW h \in Handlers, NEW o, NEW i \in Ids, NEW row, NEW p,
           InsertBy(h, o, i, row, p)
    PROVE  Sole' /\ \A g \in Handlers : at[g] # i
<1>1. \A g \in Handlers : at[g] # i
  BY DEF InsertBy, EditingOK, Sound
<1> QED
  BY <1>1 DEF InsertBy, Sole, EditingOK

=============================================================================
