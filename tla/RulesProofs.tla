---------------------------- MODULE RulesProofs ----------------------------
(***************************************************************************)
(* Theorems about Rules: what the history says of a rule, for any number   *)
(* of rules, contents, versions and requests.                              *)
(***************************************************************************)
EXTENDS Rules, EditingProofs

(* The changes recorded of a rule have versions up to m, and entries that  *)
(* share a version follow a deactivation that failed.                      *)
Distinct(i, m) ==
    \A v, w \in DOMAIN history[i] :
        /\ ~history[i][v].deactivated => history[i][v].version <= m
        /\ v < w /\ history[i][v].version = history[i][w].version =>
              history[i][v].deactivated /\ i \in failed

(* The history is the versions 1 .. n, of which those after `row` are its  *)
(* deactivation.                                                           *)
Listed(i, row, n) ==
    /\ Len(history[i]) = n
    /\ \A v \in 1..n : /\ history[i][v].version = v
                       /\ history[i][v].deactivated <=> v > row.version

(* ... and ends with what the rule shows.                                  *)
Told(i, row, n) ==
    /\ Listed(i, row, n)
    /\ history[i][n].name = row.name /\ history[i][n].threshold = row.threshold

(* What a request nobody raced knows of its rule.                          *)
Holds(h) ==
    LET i == at[h] row == rows[i] IN
    /\ ~row.deleted
    /\ pc[h] \in {"reload", "write"} =>
          /\ op[h] = "update" /\ entity[h].version = row.version + 1
          /\ entity[h].deleted = row.deleted
          /\ i \notin failed => Told(i, row, row.version)
    /\ pc[h] = "write" => cols[h] = Diff(entity[h], row)
    /\ pc[h] \in {"history", "softDelete"} => entity[h] = row
    /\ pc[h] = "history" /\ op[h] # "deactivate" =>
          /\ Distinct(i, row.version - 1)
          /\ i \notin failed => Listed(i, row, row.version - 1)
    /\ pc[h] = "history" /\ op[h] = "deactivate" =>
          (i \notin failed => Told(i, row, row.version))
    /\ pc[h] = "softDelete" =>
          op[h] = "deactivate" /\ (i \notin failed => Told(i, row, row.version + 1))

RowHolds(i) ==
    i \notin raced =>
        /\ rows[i] = NoRow => history[i] = <<>>
        /\ rows[i] # NoRow =>
              /\ rows[i].version >= 1 /\ Distinct(i, rows[i].version)
              /\ i \notin failed /\ ~Busy(i) =>
                    Told(i, rows[i], rows[i].version + (IF rows[i].deleted THEN 1 ELSE 0))

RInv ==
    /\ TypeOK /\ Sole
    /\ \A h \in Handlers : pc[h] # "idle" /\ at[h] \notin raced => Holds(h)
    /\ \A i \in Ids : RowHolds(i)

-----------------------------------------------------------------------------
(* The columns of a rule stay columns of a rule.                           *)
LEMMA RulesSound ==
    /\ Sound(Rule, Ops, Pcs)
    /\ \A row \in Rule : [row EXCEPT !.deleted = TRUE] \in Rule
  BY RulesAssumption DEF Sound, Rule, Ops, Pcs, Patch

(* An UPDATE of what differs makes the row the entity.                     *)
LEMMA PatchAll ==
    ASSUME NEW row \in Rule, NEW copy \in Rule
    PROVE  Patch(row, copy, Diff(copy, row)) = copy
<1> DEFINE new == Patch(row, copy, Diff(copy, row))
<1>1. DOMAIN row = {"name", "threshold", "version", "deleted"}
  BY DEF Rule
<1>2. /\ new.name = copy.name /\ new.threshold = copy.threshold
      /\ new.version = copy.version /\ new.deleted = copy.deleted
  BY <1>1 DEF Patch, Diff
<1>3. new \in Rule
  BY DEF Patch, Rule
<1> HIDE DEF new
<1>4. new = copy
  BY <1>2, <1>3 DEF Rule
<1> QED
  BY <1>4 DEF new

(* What an appended entry adds to the history of a rule.                   *)
LEMMA Appended ==
    ASSUME NEW s \in Seq(Entry), NEW e \in Entry
    PROVE  /\ Append(s, e) \in Seq(Entry) /\ Len(Append(s, e)) = Len(s) + 1
           /\ DOMAIN Append(s, e) = 1..(Len(s) + 1) /\ Len(s) \in Nat
           /\ \A v \in 1..Len(s) : Append(s, e)[v] = s[v]
           /\ Append(s, e)[Len(s) + 1] = e
  OBVIOUS

(* What a history holds.                                                   *)
LEMMA Entries ==
    ASSUME RInv, NEW i \in Ids
    PROVE  history[i] \in Seq(Entry) /\ \A v \in DOMAIN history[i] : history[i][v] \in Entry
<1>1. history[i] \in Seq(Entry)
  BY DEF RInv, TypeOK
<1> QED
  BY <1>1

(* Before the first rule.                                                  *)
LEMMA InitHolds == Init => RInv
<1> SUFFICES ASSUME Init PROVE RInv
  OBVIOUS
<1>1. EditingOK(Rule, Ops, Pcs) /\ Sole
  BY RulesSound, InitFits DEF Init
<1>2. TypeOK
  BY <1>1 DEF Init, TypeOK
<1> QED
  BY <1>1, <1>2 DEF Init, EditingInit, RInv, RowHolds

(* A step of handler h on rule i leaves the others what they had.          *)
LEMMA Assembled ==
    ASSUME RInv, TypeOK', Sole', NEW h \in Handlers, NEW i \in Ids,
           at[h] \in {i, Null}, at'[h] \in {i, Null},
           i \notin raced' => \A g \in Handlers \ {h} : at[g] # i,
           pc' = [pc EXCEPT ![h] = pc'[h]], op' = [op EXCEPT ![h] = op'[h]],
           at' = [at EXCEPT ![h] = at'[h]], entity' = [entity EXCEPT ![h] = entity'[h]],
           cols' = [cols EXCEPT ![h] = cols'[h]],
           rows' = [rows EXCEPT ![i] = rows'[i]], raced \subseteq raced',
           \A j \in Ids \ {i} : /\ j \in raced' => j \in raced
                                /\ j \in failed' <=> j \in failed,
           history' = [history EXCEPT ![i] = history'[i]],
           pc'[h] # "idle" /\ i \notin raced' => Holds(h)', RowHolds(i)'
    PROVE  RInv'
<1>1. ASSUME NEW g \in Handlers, pc'[g] # "idle", at'[g] \notin raced'
      PROVE  Holds(g)'
  <2>1. CASE g = h
    <3>1. at'[g] = i
      BY <1>1, <2>1, RulesAssumption DEF TypeOK, EditingOK
    <3> QED
      BY <1>1, <2>1, <3>1
  <2>2. CASE g # h
    <3>1. /\ pc'[g] = pc[g] /\ op'[g] = op[g] /\ at'[g] = at[g]
          /\ entity'[g] = entity[g] /\ cols'[g] = cols[g]
      BY <2>2 DEF RInv, TypeOK, EditingOK
    <3>2. Holds(g) /\ at[g] \in Ids /\ at[g] # i
      BY <1>1, <2>2, <3>1 DEF RInv, TypeOK, EditingOK
    <3>3. /\ rows'[at[g]] = rows[at[g]] /\ history'[at[g]] = history[at[g]]
          /\ at[g] \in failed' <=> at[g] \in failed
      BY <3>2 DEF RInv, TypeOK, EditingOK
    <3> QED
      BY <3>1, <3>2, <3>3 DEF Holds, Told, Listed, Distinct
  <2> QED
    BY <2>1, <2>2
<1>2. ASSUME NEW j \in Ids
      PROVE  RowHolds(j)'
  <2>1. CASE j = i
    BY <2>1
  <2>2. CASE j # i
    <3>1. /\ rows'[j] = rows[j] /\ history'[j] = history[j]
          /\ (j \in failed' <=> j \in failed) /\ (j \in raced' <=> j \in raced)
      BY <2>2 DEF RInv, TypeOK, EditingOK
    <3>2. \A g \in Handlers : at'[g] = j <=> at[g] = j
      BY <2>2, RulesAssumption DEF RInv, TypeOK, EditingOK
    <3>3. RowHolds(j)
      BY DEF RInv
    <3> QED
      BY <3>1, <3>2, <3>3 DEF RowHolds, Told, Listed, Distinct, Busy
  <2> QED
    BY <2>1, <2>2
<1> QED
  BY <1>1, <1>2 DEF RInv

-----------------------------------------------------------------------------
(* POST: a rule begins with version 1, and its history after it.           *)
LEMMA CreateStep ==
    ASSUME RInv, NEW h \in Handlers, NEW i \in Ids, NEW n \in Names, NEW t \in Thresholds,
           Create(h, i, n, t)
    PROVE  RInv'
<1> DEFINE row == [name |-> n, threshold |-> t, version |-> 1, deleted |-> FALSE]
<1>1. /\ InsertBy(h, "create", i, row, "history") /\ UNCHANGED <<history, failed>>
      /\ row \in Rule /\ row.version = 1 /\ ~row.deleted /\ row # NoRow
  <2>1. InsertBy(h, "create", i, row, "history") /\ UNCHANGED <<history, failed>>
    BY DEF Create
  <2>2. row \in Rule
    BY DEF Rule
  <2>3. row.version = 1 /\ ~row.deleted
    OBVIOUS
  <2> QED
    BY <2>1, <2>2, <2>3, RulesAssumption
<1> HIDE DEF row
<1>2. TypeOK'
  <2>1. EditingOK(Rule, Ops, Pcs)'
    BY <1>1, InsertByFits, RulesSound DEF RInv, TypeOK, Ops, Pcs
  <2> QED
    BY <1>1, <2>1 DEF RInv, TypeOK
<1>3. Sole' /\ \A g \in Handlers : at[g] # i
  BY <1>1, SoleInserts, RulesSound DEF RInv, TypeOK
<1>4. /\ pc[h] = "idle" /\ rows[i] = NoRow /\ rows' = [rows EXCEPT ![i] = row]
      /\ pc' = [pc EXCEPT ![h] = "history"] /\ op' = [op EXCEPT ![h] = "create"]
      /\ at' = [at EXCEPT ![h] = i] /\ entity' = [entity EXCEPT ![h] = row]
      /\ UNCHANGED <<cols, raced>>
  BY <1>1 DEF InsertBy
<1>5. /\ pc'[h] = "history" /\ op'[h] = "create" /\ at'[h] = i /\ entity'[h] = row
      /\ rows'[i] = row /\ at[h] = Null
  BY <1>4 DEF RInv, TypeOK, EditingOK
<1>6. i \notin raced => history'[i] = <<>>
  BY <1>1, <1>4 DEF RInv, RowHolds
<1>7. i \notin raced' => Holds(h)'
  BY <1>1, <1>4, <1>5, <1>6 DEF Holds, Distinct, Listed
<1>8. RowHolds(i)'
  <2>1. Busy(i)'
    BY <1>5 DEF Busy
  <2> QED
    BY <1>1, <1>4, <1>5, <1>6, <2>1 DEF RowHolds, Distinct
<1>9. /\ pc' = [pc EXCEPT ![h] = pc'[h]] /\ op' = [op EXCEPT ![h] = op'[h]]
      /\ at' = [at EXCEPT ![h] = at'[h]] /\ entity' = [entity EXCEPT ![h] = entity'[h]]
      /\ cols' = [cols EXCEPT ![h] = cols'[h]] /\ rows' = [rows EXCEPT ![i] = rows'[i]]
      /\ history' = [history EXCEPT ![i] = history'[i]]
  BY <1>1, <1>4, <1>5 DEF RInv, TypeOK, EditingOK
<1> QED
  BY <1>1, <1>2, <1>3, <1>4, <1>5, <1>7, <1>8, <1>9, Assembled

(* A request that is let in to change or to deactivate a rule.             *)
LEMMA BeginStep ==
    ASSUME RInv, NEW h \in Handlers, NEW i \in Ids, Live(i),
           NEW o \in Ops, NEW copy \in Rule, NEW p \in {"reload", "history"},
           Begin(h, o, i, copy, p), UNCHANGED <<history, failed>>,
           p = "reload" => /\ o = "update" /\ copy.version = rows[i].version + 1
                           /\ copy.deleted = rows[i].deleted,
           p = "history" => o = "deactivate" /\ copy = rows[i]
    PROVE  RInv'
<1>1. TypeOK'
  <2>1. EditingOK(Rule, Ops, Pcs)'
    BY BeginFits, RulesSound DEF RInv, TypeOK, Pcs
  <2> QED
    BY <2>1 DEF RInv, TypeOK
<1>2. Sole' /\ (i \notin raced' => \A g \in Handlers : at[g] # i)
  BY SoleBegins DEF RInv, TypeOK
<1>3. /\ pc' = [pc EXCEPT ![h] = p] /\ op' = [op EXCEPT ![h] = o]
      /\ at' = [at EXCEPT ![h] = i] /\ entity' = [entity EXCEPT ![h] = copy]
      /\ rows' = rows /\ cols' = cols /\ pc[h] = "idle" /\ rows[i] # NoRow
      /\ raced' = raced \cup {j \in {i} : Busy(j)} /\ ~rows[i].deleted
  BY DEF Begin, Live
<1>4. /\ pc'[h] = p /\ op'[h] = o /\ at'[h] = i /\ entity'[h] = copy /\ at[h] = Null
      /\ raced \subseteq raced' /\ \A j \in Ids \ {i} : j \in raced' => j \in raced
  BY <1>3 DEF RInv, TypeOK, EditingOK
<1>5. i \notin raced' =>
        /\ rows[i].version >= 1 /\ Distinct(i, rows[i].version)
        /\ i \notin failed => Told(i, rows[i], rows[i].version)
  <2>1. rows[i].version \in Nat
    BY <1>3 DEF RInv, TypeOK, EditingOK, Rule
  <2> QED
    BY <1>2, <1>3, <1>4, <2>1 DEF RInv, RowHolds, Busy
<1>6. i \notin raced' => Holds(h)'
  BY <1>3, <1>4, <1>5 DEF Holds, Told, Listed
<1>7. RowHolds(i)'
  <2>1. Busy(i)'
    BY <1>4 DEF Busy
  <2> QED
    BY <1>3, <1>5, <2>1 DEF RowHolds, Distinct
<1>8. /\ pc' = [pc EXCEPT ![h] = pc'[h]] /\ op' = [op EXCEPT ![h] = op'[h]]
      /\ at' = [at EXCEPT ![h] = at'[h]] /\ entity' = [entity EXCEPT ![h] = entity'[h]]
      /\ cols' = [cols EXCEPT ![h] = cols'[h]] /\ rows' = [rows EXCEPT ![i] = rows'[i]]
      /\ history' = [history EXCEPT ![i] = history'[i]]
  BY <1>3, <1>4 DEF RInv, TypeOK, EditingOK
<1> QED
  BY <1>1, <1>2, <1>3, <1>4, <1>6, <1>7, <1>8, Assembled

LEMMA LetIn ==
    ASSUME RInv, NEW h \in Handlers, NEW i \in Ids,
           \/ \E n \in Names, t \in Thresholds : Update(h, i, n, t)
           \/ Deactivate(h, i)
    PROVE  RInv'
<1>1. CASE Deactivate(h, i)
  <2>1. Live(i) /\ Begin(h, "deactivate", i, rows[i], "history")
        /\ UNCHANGED <<history, failed>> /\ rows[i] \in Rule
    BY <1>1 DEF Deactivate, Live, RInv, TypeOK, EditingOK
  <2> QED
    BY <2>1, BeginStep DEF Ops
<1>2. ASSUME NEW n \in Names, NEW t \in Thresholds, Update(h, i, n, t)
      PROVE  RInv'
  <2> DEFINE copy == Changed(rows[i], n, t)
  <2>1. Live(i) /\ Begin(h, "update", i, copy, "reload")
        /\ UNCHANGED <<history, failed>> /\ rows[i] \in Rule
    BY <1>2 DEF Update, Live, RInv, TypeOK, EditingOK
  <2>2. /\ copy \in Rule /\ copy.version = rows[i].version + 1
        /\ copy.deleted = rows[i].deleted
    <3> DEFINE row == rows[i]
               next == row.version + 1
    <3>1. next \in Nat
      BY <2>1 DEF Rule
    <3>2. copy = [row EXCEPT !.name = n, !.threshold = t, !.version = next]
      BY <2>1 DEF Changed, Rule
    <3> HIDE DEF next, copy
    <3>3. copy \in Rule /\ copy.version = next /\ copy.deleted = row.deleted
      BY <2>1, <3>1, <3>2 DEF Rule
    <3> QED
      BY <3>3 DEF next
  <2> QED
    BY <2>1, <2>2, BeginStep DEF Ops
<1> QED
  BY <1>1, <1>2

(* What a handler at work holds before it goes on.                         *)
LEMMA Working ==
    ASSUME RInv, NEW h \in Handlers, pc[h] # "idle"
    PROVE  /\ at[h] \in Ids /\ rows[at[h]] \in Rule /\ rows[at[h]] # NoRow
           /\ entity[h] \in Rule /\ RowHolds(at[h]) /\ op[h] \in Ops
           /\ at[h] \notin raced => /\ \A g \in Handlers \ {h} : at[g] # at[h]
                                    /\ Holds(h)
  BY RulesAssumption DEF RInv, TypeOK, EditingOK, Sole

(* The frame of a handler that goes on, or ends.                           *)
LEMMA Frame ==
    ASSUME RInv, NEW h \in Handlers, NEW p \in Pcs, NEW changed,
           Resume(h, p) \/ /\ pc' = [pc EXCEPT ![h] = p]
                           /\ cols' = [cols EXCEPT ![h] = changed]
                           /\ UNCHANGED <<op, at, entity>>
    PROVE  /\ pc' = [pc EXCEPT ![h] = pc'[h]] /\ op' = [op EXCEPT ![h] = op'[h]]
           /\ at' = [at EXCEPT ![h] = at'[h]]
           /\ entity' = [entity EXCEPT ![h] = entity'[h]]
           /\ cols' = [cols EXCEPT ![h] = cols'[h]] /\ pc'[h] = p
           /\ at' = at \/ at' = [at EXCEPT ![h] = Null]
           /\ at'[h] \in {at[h], Null} /\ (p = "idle" /\ Resume(h, p) => at'[h] = Null)
           /\ p # "idle" => at'[h] = at[h] /\ entity'[h] = entity[h] /\ op'[h] = op[h]
  BY DEF Resume, Finish, RInv, TypeOK, EditingOK

(* The second read of save(): the version differs, so there is an UPDATE,  *)
(* unless another request wrote the same version.                          *)
LEMMA SaveReloadStep ==
    ASSUME RInv, NEW h \in Handlers, SaveReload(h)
    PROVE  RInv'
<1>1. /\ Reload(h, "history") /\ UNCHANGED <<rows, raced, history, failed>>
      /\ pc[h] = "reload"
  BY DEF SaveReload, Reload
<1>2. TypeOK'
  <2>1. EditingOK(Rule, Ops, Pcs)'
    BY <1>1, ReloadFits, RulesSound DEF RInv, TypeOK, Pcs
  <2> QED
    BY <1>1, <2>1 DEF RInv, TypeOK
<1> DEFINE changed == Diff(entity[h], rows[at[h]])
<1>3. \/ changed = {} /\ Resume(h, "history")
      \/ /\ pc' = [pc EXCEPT ![h] = "write"] /\ cols' = [cols EXCEPT ![h] = changed]
         /\ UNCHANGED <<op, at, entity>>
  BY <1>1 DEF Reload
<1> PICK i \in Ids : i = at[h]
  BY <1>1, Working
<1>4. /\ rows[i] \in Rule /\ rows[i] # NoRow /\ entity[h] \in Rule /\ RowHolds(i)
      /\ i \notin raced => (\A g \in Handlers \ {h} : at[g] # i) /\ Holds(h)
  BY <1>1, Working
<1>5. i \notin raced => changed # {}
  <2> SUFFICES ASSUME i \notin raced PROVE changed # {}
    OBVIOUS
  <2>1. entity[h].version = rows[i].version + 1
    BY <1>1, <1>4 DEF Holds
  <2>2. entity[h].version # rows[i].version /\ "version" \in DOMAIN rows[i]
    BY <1>4, <2>1 DEF Rule
  <2> QED
    BY <2>2 DEF Diff
<1> HIDE DEF changed
<1>6. PICK p \in {"history", "write"} :
         /\ Resume(h, p) \/ /\ pc' = [pc EXCEPT ![h] = p]
                            /\ cols' = [cols EXCEPT ![h] = changed]
                            /\ UNCHANGED <<op, at, entity>>
         /\ p = "history" => i \in raced
         /\ p = "write" => cols' = [cols EXCEPT ![h] = changed]
  BY <1>3, <1>5
<1>7. /\ pc' = [pc EXCEPT ![h] = pc'[h]] /\ op' = [op EXCEPT ![h] = op'[h]]
      /\ at' = [at EXCEPT ![h] = at'[h]]
      /\ entity' = [entity EXCEPT ![h] = entity'[h]]
      /\ cols' = [cols EXCEPT ![h] = cols'[h]] /\ pc'[h] = p /\ p # "idle"
      /\ at' = at \/ at' = [at EXCEPT ![h] = Null]
      /\ at'[h] = i /\ entity'[h] = entity[h] /\ op'[h] = op[h]
  BY <1>6, Frame DEF Pcs
<1>8. p = "write" => cols'[h] = changed
  BY <1>6 DEF RInv, TypeOK, EditingOK
<1>9. Sole'
  BY <1>1, <1>7, SoleKept DEF RInv, TypeOK
<1>10. i \notin raced' => Holds(h)'
  BY <1>1, <1>4, <1>6, <1>7, <1>8 DEF Holds, Told, Listed, changed
<1>11. RowHolds(i)'
  <2>1. Busy(i) /\ Busy(i)'
    BY <1>7 DEF Busy
  <2> QED
    BY <1>1, <1>4, <2>1 DEF RowHolds, Distinct
<1>12. rows' = [rows EXCEPT ![i] = rows'[i]] /\ history' = [history EXCEPT ![i] = history'[i]]
  BY <1>1 DEF RInv, TypeOK, EditingOK
<1> QED
  BY <1>1, <1>2, <1>4, <1>7, <1>9, <1>10, <1>11, <1>12, Assembled

(* The UPDATE of save(): the rule shows the next version, which the        *)
(* history has not got yet.                                                *)
LEMMA SaveWriteStep ==
    ASSUME RInv, NEW h \in Handlers, SaveWrite(h)
    PROVE  RInv'
<1>1. /\ Write(h, "history") /\ UNCHANGED <<raced, history, failed>>
      /\ pc[h] = "write" /\ Resume(h, "history")
      /\ rows' = [rows EXCEPT ![at[h]] = Patch(@, entity[h], cols[h])]
  BY DEF SaveWrite, Write
<1>2. TypeOK'
  <2>1. EditingOK(Rule, Ops, Pcs)'
    BY <1>1, WriteFits, RulesSound DEF RInv, TypeOK, Pcs
  <2> QED
    BY <1>1, <2>1 DEF RInv, TypeOK
<1> PICK i \in Ids : i = at[h]
  BY <1>1, Working
<1>3. /\ rows[i] \in Rule /\ rows[i] # NoRow /\ entity[h] \in Rule /\ RowHolds(i)
      /\ i \notin raced => (\A g \in Handlers \ {h} : at[g] # i) /\ Holds(h)
  BY <1>1, Working
<1>4. /\ pc' = [pc EXCEPT ![h] = pc'[h]] /\ op' = [op EXCEPT ![h] = op'[h]]
      /\ at' = [at EXCEPT ![h] = at'[h]]
      /\ entity' = [entity EXCEPT ![h] = entity'[h]]
      /\ cols' = [cols EXCEPT ![h] = cols'[h]] /\ pc'[h] = "history"
      /\ at' = at \/ at' = [at EXCEPT ![h] = Null]
      /\ at'[h] = i /\ entity'[h] = entity[h] /\ op'[h] = op[h]
  BY <1>1, Frame DEF Pcs
<1>5. Sole'
  BY <1>1, <1>4, SoleKept DEF RInv, TypeOK
<1> DEFINE new == Patch(rows[i], entity[h], cols[h])
<1>6. /\ rows'[i] = new /\ rows' = [rows EXCEPT ![i] = rows'[i]]
      /\ history'[i] = history[i] /\ history' = [history EXCEPT ![i] = history'[i]]
  BY <1>1 DEF RInv, TypeOK, EditingOK
<1>7. i \notin raced =>
        /\ new = entity[h] /\ ~rows[i].deleted /\ new.version = rows[i].version + 1
        /\ new.deleted = rows[i].deleted /\ op[h] = "update"
        /\ i \notin failed => Told(i, rows[i], rows[i].version)
  BY <1>1, <1>3, PatchAll DEF Holds
<1>8. new # NoRow
  BY <1>3, RulesSound DEF Sound
<1> HIDE DEF new
<1>9. i \notin raced => /\ rows[i].version \in Nat /\ rows[i].version >= 1
                        /\ Distinct(i, rows[i].version)
                        /\ new.version - 1 = rows[i].version
  BY <1>3, <1>7 DEF Rule, RowHolds
<1>10. i \notin raced /\ i \notin failed => Listed(i, new, new.version - 1)
  BY <1>7, <1>9 DEF Told, Listed
<1>11. i \notin raced' => Holds(h)'
  BY <1>1, <1>4, <1>6, <1>7, <1>9, <1>10 DEF Holds, Listed, Distinct
<1>12. RowHolds(i)'
  <2>1. Busy(i)'
    BY <1>4 DEF Busy
  <2>2. i \notin raced => Distinct(i, new.version)
    <3> SUFFICES ASSUME i \notin raced PROVE Distinct(i, new.version)
      OBVIOUS
    <3>1. \A v \in DOMAIN history[i] : history[i][v].version \in Nat
      BY Entries DEF Entry
    <3> QED
      BY <1>7, <1>9, <3>1 DEF Distinct
  <2> QED
    BY <1>1, <1>6, <1>7, <1>8, <1>9, <2>1, <2>2 DEF RowHolds, Distinct
<1> QED
  BY <1>1, <1>2, <1>3, <1>4, <1>5, <1>6, <1>11, <1>12, Assembled

(* The INSERT into the history: of a change, and the request ends; or of a *)
(* deactivation that is yet to come.                                       *)
LEMMA InsertHistoryStep ==
    ASSUME RInv, NEW h \in Handlers, InsertHistory(h)
    PROVE  RInv'
<1> DEFINE e == Recorded(h)
           p == IF op[h] = "deactivate" THEN "softDelete" ELSE "idle"
<1>1. /\ pc[h] = "history" /\ Resume(h, p) /\ UNCHANGED <<rows, raced, failed>>
      /\ history' = [history EXCEPT ![at[h]] = Append(@, e)] /\ p \in Pcs
  BY DEF InsertHistory, Pcs
<1> PICK i \in Ids : i = at[h]
  BY <1>1, Working
<1>2. /\ rows[i] \in Rule /\ rows[i] # NoRow /\ entity[h] \in Rule /\ RowHolds(i)
      /\ op[h] \in Ops
      /\ i \notin raced => (\A g \in Handlers \ {h} : at[g] # i) /\ Holds(h)
  BY <1>1, Working
<1>3. /\ e \in Entry /\ e.name = entity[h].name /\ e.threshold = entity[h].threshold
      /\ e.deactivated <=> op[h] = "deactivate"
      /\ op[h] = "deactivate" => e.version = entity[h].version + 1
      /\ op[h] # "deactivate" => e.version = entity[h].version
  <2> DEFINE v == entity[h].version + (IF op[h] = "deactivate" THEN 1 ELSE 0)
  <2>1. /\ v \in Nat /\ entity[h].version \in Nat
        /\ op[h] = "deactivate" => v = entity[h].version + 1
        /\ op[h] # "deactivate" => v = entity[h].version
    BY <1>2 DEF Rule
  <2>2. e = [name |-> entity[h].name, threshold |-> entity[h].threshold,
             version |-> v, deactivated |-> op[h] = "deactivate"]
    BY DEF Recorded
  <2> HIDE DEF v, e
  <2> QED
    BY <1>2, <2>1, <2>2 DEF Rule, Entry
<1> HIDE DEF e
<1>4. /\ history[i] \in Seq(Entry) /\ history'[i] = Append(history[i], e)
      /\ history' = [history EXCEPT ![i] = history'[i]]
  BY <1>1 DEF RInv, TypeOK
<1> DEFINE n == Len(history[i])
<1>5. /\ history'[i] \in Seq(Entry) /\ Len(history'[i]) = n + 1 /\ n \in Nat
      /\ DOMAIN history'[i] = 1..(n + 1) /\ DOMAIN history[i] = 1..n
      /\ \A v \in 1..n : history'[i][v] = history[i][v]
      /\ history'[i][n + 1] = e
  BY <1>3, <1>4, Appended
<1> HIDE DEF n
<1>6. TypeOK'
  <2>1. EditingOK(Rule, Ops, Pcs)'
    BY <1>1, ResumeFits, RulesSound DEF RInv, TypeOK
  <2> QED
    BY <1>1, <1>4, <1>5, <2>1 DEF RInv, TypeOK
<1>7. /\ pc' = [pc EXCEPT ![h] = pc'[h]] /\ op' = [op EXCEPT ![h] = op'[h]]
      /\ at' = [at EXCEPT ![h] = at'[h]]
      /\ entity' = [entity EXCEPT ![h] = entity'[h]]
      /\ cols' = [cols EXCEPT ![h] = cols'[h]] /\ pc'[h] = p
      /\ at' = at \/ at' = [at EXCEPT ![h] = Null]
      /\ at'[h] \in {i, Null}
      /\ p # "idle" => at'[h] = i /\ entity'[h] = entity[h] /\ op'[h] = op[h]
      /\ p = "idle" => at'[h] = Null
  <2> HIDE DEF p
  <2> QED
    BY <1>1, Frame
<1>8. Sole'
  BY <1>1, <1>7, SoleKept DEF RInv, TypeOK
<1>9. i \notin raced => /\ entity[h] = rows[i] /\ ~rows[i].deleted
                        /\ rows[i].version \in Nat /\ rows[i].version >= 1
                        /\ Distinct(i, rows[i].version)
  BY <1>1, <1>2 DEF Holds, RowHolds, Rule
<1>10. Told(i, rows[i], rows[i].version) /\ op[h] = "deactivate" /\ i \notin raced
         => Told(i, rows[i], rows[i].version + 1)'
  <2> SUFFICES ASSUME Told(i, rows[i], rows[i].version), op[h] = "deactivate",
                      i \notin raced
               PROVE  Told(i, rows[i], rows[i].version + 1)'
    OBVIOUS
  <2>1. n = rows[i].version /\ e.version = n + 1 /\ e.deactivated
        /\ e.name = rows[i].name /\ e.threshold = rows[i].threshold
    BY <1>3, <1>9 DEF Told, Listed, n
  <2>2. \A v \in 1..(n + 1) : /\ history'[i][v].version = v
                             /\ history'[i][v].deactivated <=> v > n
    <3> SUFFICES ASSUME NEW v \in 1..(n + 1)
                 PROVE  /\ history'[i][v].version = v
                        /\ history'[i][v].deactivated <=> v > n
      OBVIOUS
    <3>1. CASE v = n + 1
      BY <1>5, <2>1, <3>1
    <3>2. CASE v \in 1..n
      <4>1. history[i][v].version = v /\ (history[i][v].deactivated <=> v > n)
        BY <2>1, <3>2 DEF Told, Listed
      <4> QED
        BY <1>5, <3>2, <4>1
    <3> QED
      BY <1>5, <3>1, <3>2
  <2> QED
    BY <1>1, <1>5, <2>1, <2>2 DEF Told, Listed
<1>11. Listed(i, rows[i], rows[i].version - 1) /\ op[h] # "deactivate" /\ i \notin raced
         => Told(i, rows[i], rows[i].version)'
  <2> SUFFICES ASSUME Listed(i, rows[i], rows[i].version - 1), op[h] # "deactivate",
                      i \notin raced
               PROVE  Told(i, rows[i], rows[i].version)'
    OBVIOUS
  <2>1. n + 1 = rows[i].version /\ e.version = n + 1 /\ ~e.deactivated
        /\ e.name = rows[i].name /\ e.threshold = rows[i].threshold
        /\ n = rows[i].version - 1
    BY <1>3, <1>5, <1>9 DEF Listed, n
  <2>2. \A v \in 1..(n + 1) : /\ history'[i][v].version = v
                             /\ history'[i][v].deactivated <=> v > n + 1
    <3> SUFFICES ASSUME NEW v \in 1..(n + 1)
                 PROVE  /\ history'[i][v].version = v
                        /\ history'[i][v].deactivated <=> v > n + 1
      OBVIOUS
    <3>1. CASE v = n + 1
      BY <1>5, <2>1, <3>1
    <3>2. CASE v \in 1..n
      <4>1. history[i][v].version = v /\ (history[i][v].deactivated <=> v > n + 1)
        BY <2>1, <3>2 DEF Listed
      <4> QED
        BY <1>5, <3>2, <4>1
    <3> QED
      BY <1>5, <3>1, <3>2
  <2> QED
    BY <1>1, <1>5, <2>1, <2>2 DEF Told, Listed
<1>12. Distinct(i, rows[i].version)' \/ i \in raced
  <2> SUFFICES ASSUME i \notin raced PROVE Distinct(i, rows[i].version)'
    OBVIOUS
  <2> DEFINE m == rows[i].version
  <2>1. m \in Nat /\ e.version \in Nat /\ \A u \in 1..n : history[i][u].version \in Nat
    BY <1>3, <1>5, <1>9, Entries DEF Entry
  <2>2. \A u \in 1..n : history[i][u].version = e.version =>
           history[i][u].deactivated /\ i \in failed
    <3> SUFFICES ASSUME NEW u \in 1..n, history[i][u].version = e.version
                 PROVE  history[i][u].deactivated /\ i \in failed
      OBVIOUS
    <3>1. CASE op[h] = "deactivate"
      <4>1. e.version = m + 1
        BY <1>3, <1>9, <3>1
      <4>2. history[i][u].deactivated
        BY <1>5, <1>9, <2>1, <4>1 DEF Distinct
      <4>3. i \notin failed => n = m /\ history[i][u].version = u
        BY <1>1, <1>2, <3>1 DEF Holds, Told, Listed, n
      <4> QED
        BY <2>1, <4>1, <4>2, <4>3
    <3>2. CASE op[h] # "deactivate"
      <4>1. e.version = m
        BY <1>3, <1>9, <3>2
      <4>2. Distinct(i, m - 1) /\ (i \notin failed => Listed(i, rows[i], m - 1))
        BY <1>1, <1>2, <3>2 DEF Holds
      <4>3. history[i][u].deactivated
        BY <1>5, <2>1, <4>1, <4>2 DEF Distinct
      <4>4. i \notin failed => n = m - 1 /\ history[i][u].version = u
        BY <4>2 DEF Listed, n
      <4> QED
        BY <2>1, <4>1, <4>3, <4>4
    <3> QED
      BY <3>1, <3>2
  <2>3. ~e.deactivated => e.version <= m
    BY <1>2, <1>3, <1>9, <2>1 DEF Ops
  <2>4. ASSUME NEW v \in 1..(n + 1), NEW w \in 1..(n + 1)
        PROVE  /\ ~history'[i][v].deactivated => history'[i][v].version <= m
               /\ v < w /\ history'[i][v].version = history'[i][w].version =>
                     history'[i][v].deactivated /\ i \in failed
    <3>1. CASE v \in 1..n /\ w \in 1..n
      <4>1. history'[i][v] = history[i][v] /\ history'[i][w] = history[i][w]
        BY <1>5, <3>1
      <4> QED
        BY <1>5, <1>9, <3>1, <4>1 DEF Distinct
    <3>2. CASE v \in 1..n /\ w = n + 1
      <4>1. history'[i][v] = history[i][v] /\ history'[i][w] = e
        BY <1>5, <3>2
      <4>2. ~history[i][v].deactivated => history[i][v].version <= m
        BY <1>5, <1>9, <3>2 DEF Distinct
      <4> QED
        BY <2>2, <3>2, <4>1, <4>2
    <3>3. CASE v = n + 1
      <4>1. history'[i][v] = e /\ ~(v < w)
        BY <1>5, <3>3
      <4> QED
        BY <2>3, <4>1
    <3> QED
      BY <1>5, <3>1, <3>2, <3>3
  <2> QED
    BY <1>1, <1>5, <2>4 DEF Distinct
<1>13. pc'[h] # "idle" /\ i \notin raced' => Holds(h)'
  <2> SUFFICES ASSUME pc'[h] # "idle", i \notin raced PROVE Holds(h)'
    BY <1>1
  <2>1. op[h] = "deactivate" /\ pc'[h] = "softDelete"
    BY <1>7
  <2>2. i \notin failed => Told(i, rows[i], rows[i].version + 1)'
    BY <1>1, <1>2, <1>10, <2>1 DEF Holds
  <2>3. at'[h] = i /\ entity'[h] = entity[h] /\ op'[h] = op[h]
    BY <1>7, <2>1
  <2> QED
    BY <1>1, <1>9, <2>1, <2>2, <2>3 DEF Holds
<1>14. RowHolds(i)'
  <2> SUFFICES ASSUME i \notin raced PROVE RowHolds(i)'
    BY <1>1 DEF RowHolds
  <2>1. i \notin failed /\ ~Busy(i)' => Told(i, rows[i], rows[i].version)'
    <3> SUFFICES ASSUME i \notin failed, ~Busy(i)' PROVE Told(i, rows[i], rows[i].version)'
      OBVIOUS
    <3>1. at'[h] # i
      BY DEF Busy
    <3>2. op[h] # "deactivate"
      BY <1>7, <3>1
    <3> QED
      BY <1>1, <1>2, <1>11, <3>2 DEF Holds
  <2>2. rows[i].version + 0 = rows[i].version
    BY <1>9
  <2> QED
    BY <1>1, <1>2, <1>9, <1>12, <2>1, <2>2 DEF RowHolds
<1>15. rows' = [rows EXCEPT ![i] = rows'[i]]
  BY <1>1 DEF RInv, TypeOK, EditingOK
<1> QED
  BY <1>1, <1>2, <1>4, <1>6, <1>7, <1>8, <1>13, <1>14, <1>15, Assembled

(* softDelete(): the history's last entry, one version ahead, now tells    *)
(* the rule as it is.                                                      *)
LEMMA RemoveStep ==
    ASSUME RInv, NEW h \in Handlers, RemoveRule(h)
    PROVE  RInv'
<1>1. /\ SoftDelete(h) /\ UNCHANGED <<raced, history, failed>>
      /\ pc[h] = "softDelete" /\ Resume(h, "idle")
      /\ rows' = [rows EXCEPT ![at[h]].deleted = TRUE]
  BY DEF RemoveRule, SoftDelete, Resume
<1> PICK i \in Ids : i = at[h]
  BY <1>1, Working
<1>2. /\ rows[i] \in Rule /\ rows[i] # NoRow /\ RowHolds(i)
      /\ i \notin raced => (\A g \in Handlers \ {h} : at[g] # i) /\ Holds(h)
  BY <1>1, Working
<1>3. TypeOK'
  <2>1. EditingOK(Rule, Ops, Pcs)'
    BY <1>1, SoftDeleteFits, RulesSound DEF RInv, TypeOK
  <2> QED
    BY <1>1, <2>1 DEF RInv, TypeOK
<1>4. /\ pc' = [pc EXCEPT ![h] = pc'[h]] /\ op' = [op EXCEPT ![h] = op'[h]]
      /\ at' = [at EXCEPT ![h] = at'[h]]
      /\ entity' = [entity EXCEPT ![h] = entity'[h]]
      /\ cols' = [cols EXCEPT ![h] = cols'[h]] /\ pc'[h] = "idle"
      /\ at' = at \/ at' = [at EXCEPT ![h] = Null]
      /\ at'[h] = Null
  BY <1>1, Frame DEF Pcs
<1>5. Sole'
  BY <1>1, <1>4, SoleKept DEF RInv, TypeOK
<1>6. /\ rows'[i] # NoRow /\ rows'[i].deleted = TRUE
      /\ rows'[i].name = rows[i].name /\ rows'[i].threshold = rows[i].threshold
      /\ rows'[i].version = rows[i].version
      /\ rows' = [rows EXCEPT ![i] = rows'[i]]
  <2> DEFINE new == [rows[i] EXCEPT !.deleted = TRUE]
  <2>1. rows' = [rows EXCEPT ![i] = new]
    BY <1>1
  <2>2. /\ new \in Rule /\ new.deleted = TRUE /\ new.name = rows[i].name
        /\ new.threshold = rows[i].threshold /\ new.version = rows[i].version
    BY <1>2, RulesSound DEF Rule
  <2> HIDE DEF new
  <2> QED
    BY <2>1, <2>2, RulesAssumption DEF RInv, TypeOK, EditingOK
<1>7. i \notin raced =>
        /\ rows[i].version >= 1 /\ Distinct(i, rows[i].version)
        /\ i \notin failed => Told(i, rows[i], rows[i].version + 1)
  BY <1>1, <1>2 DEF RowHolds, Holds
<1>8. RowHolds(i)'
  BY <1>1, <1>6, <1>7 DEF RowHolds, Distinct, Told, Listed
<1>9. history' = [history EXCEPT ![i] = history'[i]]
  BY <1>1 DEF RInv, TypeOK
<1> QED
  BY <1>1, <1>2, <1>3, <1>4, <1>5, <1>6, <1>8, <1>9, Assembled

(* An await that rejects: the history may be behind the rule from then on, *)
(* or ahead of it, and its versions stay distinct.                         *)
LEMMA RejectsStep ==
    ASSUME RInv, NEW h \in Handlers, AwaitRejects(h)
    PROVE  RInv'
<1>1. /\ Rejects(h) /\ UNCHANGED <<rows, raced, history>>
      /\ pc[h] # "idle" /\ Resume(h, "idle") /\ failed' = failed \cup {at[h]}
  BY DEF AwaitRejects, Rejects, Resume
<1> PICK i \in Ids : i = at[h]
  BY <1>1, Working
<1>2. /\ rows[i] \in Rule /\ rows[i] # NoRow /\ RowHolds(i)
      /\ i \notin raced => \A g \in Handlers \ {h} : at[g] # i
  BY <1>1, Working
<1>3. TypeOK'
  <2>1. EditingOK(Rule, Ops, Pcs)'
    BY <1>1, RejectsFits, RulesSound DEF RInv, TypeOK
  <2> QED
    BY <1>1, <2>1 DEF RInv, TypeOK
<1>4. /\ pc' = [pc EXCEPT ![h] = pc'[h]] /\ op' = [op EXCEPT ![h] = op'[h]]
      /\ at' = [at EXCEPT ![h] = at'[h]]
      /\ entity' = [entity EXCEPT ![h] = entity'[h]]
      /\ cols' = [cols EXCEPT ![h] = cols'[h]] /\ pc'[h] = "idle"
      /\ at' = at \/ at' = [at EXCEPT ![h] = Null]
      /\ at'[h] = Null
  BY <1>1, Frame DEF Pcs
<1>5. Sole'
  BY <1>1, <1>4, SoleKept DEF RInv, TypeOK
<1>6. RowHolds(i)'
  BY <1>1, <1>2 DEF RowHolds, Distinct
<1>7. /\ rows' = [rows EXCEPT ![i] = rows'[i]] /\ history' = [history EXCEPT ![i] = history'[i]]
      /\ \A j \in Ids \ {i} : j \in failed' <=> j \in failed
  BY <1>1 DEF RInv, TypeOK, EditingOK
<1> QED
  BY <1>1, <1>2, <1>3, <1>4, <1>5, <1>6, <1>7, Assembled

-----------------------------------------------------------------------------
LEMMA UnchangedHolds == RInv /\ UNCHANGED vars => RInv'
  BY DEF RInv, vars, TypeOK, EditingOK, Sole, Holds, RowHolds, Told, Listed, Distinct, Busy

LEMMA StepHolds == RInv /\ [Next]_vars => RInv'
<1> SUFFICES ASSUME RInv, [Next]_vars PROVE RInv'
  OBVIOUS
<1>1. ASSUME NEW h \in Handlers, NEW i \in Ids,
             \/ \E n \in Names, t \in Thresholds : Create(h, i, n, t) \/ Update(h, i, n, t)
             \/ Deactivate(h, i)
      PROVE  RInv'
  BY <1>1, CreateStep, LetIn
<1>2. ASSUME NEW h \in Handlers, \/ SaveReload(h) \/ SaveWrite(h) \/ InsertHistory(h)
                                 \/ RemoveRule(h) \/ AwaitRejects(h)
      PROVE  RInv'
  BY <1>2, SaveReloadStep, SaveWriteStep, InsertHistoryStep, RemoveStep, RejectsStep
<1> QED
  BY <1>1, <1>2, UnchangedHolds DEF Next

(* What AuthorizationRulesService relies on holds in every reachable state *)
(* of a rule that was never under two requests at once.                    *)
LEMMA Inductive == Spec => []RInv
  BY InitHolds, StepHolds, PTL DEF Spec

(* As long as requests for a rule do not overlap, whatever fails:          *)
(* AuthorizationRulesService records no change under a version the rule    *)
(* does not have, and two entries of the history share a version only when *)
(* the earlier is a deactivation that failed before it removed the rule.   *)
THEOREM VersionsAreDistinct == Spec => []VersionsDistinct
<1>1. RInv => VersionsDistinct
  <2> SUFFICES ASSUME RInv, NEW i \in Ids \ raced, NEW v \in DOMAIN history[i],
                      NEW w \in DOMAIN history[i]
               PROVE  /\ ~history[i][v].deactivated =>
                            history[i][v].version <= rows[i].version
                      /\ v < w /\ history[i][v].version = history[i][w].version =>
                            history[i][v].deactivated /\ i \in failed
    BY DEF VersionsDistinct
  <2>1. RowHolds(i) /\ rows[i] # NoRow
    BY DEF RInv, RowHolds
  <2> QED
    BY <2>1 DEF RowHolds, Distinct
<1> QED
  BY <1>1, Inductive, PTL

(* A rule's history is its versions in order and ends with what the rule   *)
(* shows, deactivation included, once nothing is at work on it and unless  *)
(* its requests overlapped or failed half-way.                             *)
THEOREM HistoryIsTold == Spec => []HistoryTellsRule
<1>1. RInv => HistoryTellsRule
  <2> SUFFICES ASSUME RInv, NEW i \in Ids, i \notin raced, i \notin failed,
                      rows[i] # NoRow, ~Busy(i)
               PROVE  LET n == rows[i].version IN
                      /\ Len(history[i]) = IF rows[i].deleted THEN n + 1 ELSE n
                      /\ \A v \in 1..Len(history[i]) :
                            /\ history[i][v].version = v
                            /\ history[i][v].deactivated <=> v > n
                      /\ LET last == history[i][Len(history[i])] IN
                         last.name = rows[i].name /\ last.threshold = rows[i].threshold
    BY DEF HistoryTellsRule
  <2>1. Told(i, rows[i], rows[i].version + (IF rows[i].deleted THEN 1 ELSE 0))
        /\ rows[i].version \in Nat
    BY DEF RInv, RowHolds, TypeOK, EditingOK, Rule
  <2> QED
    BY <2>1 DEF Told, Listed
<1> QED
  BY <1>1, Inductive, PTL

=============================================================================
