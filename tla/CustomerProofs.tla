--------------------------- MODULE CustomerProofs ---------------------------
(***************************************************************************)
(* Theorems about what a customer's own requests edit, for any number of   *)
(* rows and requests: what wrong and right codes may do to a challenge of  *)
(* Otp, for any limit, lock and lifetime, and what a customer is told      *)
(* about a bill schedule, and the order of its statuses.                   *)
(***************************************************************************)
EXTENDS Otp, Schedules, Integers, EditingProofs

(***************************************************************************)
(* Challenges                                                              *)
(***************************************************************************)

(* A row, or the copy a handler is about to save, shows no attempt and no  *)
(* lock that wrong codes have not earned.                                  *)
Counted(row, c) ==
    /\ row.attemptCount <= wrong[c]
    /\ row.lockedUntil # Null => wrong[c] >= MaxAttempts

(* The time n wrong codes take from the one that reached the limit on.     *)
Span(n) == (n - MaxAttempts) * (LockTime + 1)

(* From the limit on, wrong codes are as far apart as the locks are long,  *)
(* and the last of them came within the challenge's lifetime.              *)
Paced(row) ==
    /\ row.expiresAt <= now + Ttl
    /\ row.attemptCount >= MaxAttempts =>
          /\ row.lockedUntil # Null
          /\ row.lockedUntil <= row.expiresAt + LockTime
          /\ Span(row.attemptCount) + LockTime + row.expiresAt <= row.lockedUntil + Ttl

(* A wrong code nobody raced, evaluated and not yet saved.                 *)
Flying(h) ==
    LET c == at[h] row == rows[c] IN
    /\ entity[h].attemptCount = row.attemptCount + 1
    /\ entity[h].expiresAt = row.expiresAt
    /\ Paced(entity[h])
    /\ pc[h] = "write" => cols[h] = Diff(entity[h], row)
    /\ wrong[c] = lost[c] + row.attemptCount + 1

Holds(h) ==
    /\ Counted(entity[h], at[h])
    /\ at[h] \notin raced /\ pc[h] # "softDelete" => Flying(h)

(* An accepted challenge is gone, and nobody is at work on it.             *)
Used(c) ==
    /\ accepted[c] <= 1
    /\ accepted[c] > 0 => rows[c] # NoRow /\ rows[c].deleted /\ ~Busy(c)

Tallied(c) ==
    rows[c] # NoRow =>
        /\ Paced(rows[c])
        /\ (\A h \in Handlers : at[h] = c => pc[h] = "softDelete") =>
              wrong[c] = lost[c] + rows[c].attemptCount

RowHolds(c) ==
    /\ rows[c] = NoRow => wrong[c] = 0 /\ lost[c] = 0 /\ accepted[c] = 0
    /\ rows[c] # NoRow => Counted(rows[c], c)
    /\ c \notin raced => Used(c) /\ Tallied(c)

OInv ==
    /\ TypeOK /\ Sole
    /\ \A h \in Handlers : pc[h] # "idle" => Holds(h)
    /\ \A c \in Ids : RowHolds(c)

-----------------------------------------------------------------------------
(* How often a distance fits into a lifetime.                              *)
LEMMA DivBounds ==
    ASSUME NEW k \in Nat, NEW d \in Nat \ {0}, NEW t \in Nat, k * d <= t
    PROVE  k <= t \div d
<1> DEFINE q == t \div d
<1>1. q \in Nat /\ t < (q + 1) * d
  OBVIOUS
<1> HIDE DEF q
<1>2. CASE k <= q
  BY <1>2 DEF q
<1>3. CASE k >= q + 1
  <2>1. k * d >= (q + 1) * d
    BY <1>1, <1>3
  <2> QED
    BY <1>1, <2>1
<1> QED
  BY <1>1, <1>2, <1>3

(* One wrong code more takes one lock more.                                *)
LEMMA Spans ==
    /\ Span(MaxAttempts) = 0
    /\ \A n \in Nat : /\ Span(n) \in Int
                      /\ Span(n + 1) = Span(n) + LockTime + 1
<1>1. MaxAttempts \in Nat /\ LockTime \in Nat
  BY OtpAssumption
<1> QED
  BY <1>1 DEF Span

(* The columns of a challenge stay columns of a challenge.                 *)
LEMMA OtpSound ==
    /\ Sound(Challenge, Ops, Pcs)
    /\ \A row \in Challenge : [row EXCEPT !.deleted = TRUE] \in Challenge
  BY OtpAssumption DEF Sound, Challenge, Ops, Pcs, Patch

(* An UPDATE leaves each column the row's or the copy's, and those that    *)
(* differ the copy's.                                                      *)
LEMMA PatchChallenge ==
    ASSUME NEW row \in Challenge, NEW copy \in Challenge, NEW columns
    PROVE  LET new == Patch(row, copy, columns) IN
           /\ new.attemptCount \in {row.attemptCount, copy.attemptCount}
           /\ new.lockedUntil \in {row.lockedUntil, copy.lockedUntil}
           /\ new.expiresAt \in {row.expiresAt, copy.expiresAt}
           /\ columns = Diff(copy, row) =>
                 /\ new.attemptCount = copy.attemptCount
                 /\ new.lockedUntil = copy.lockedUntil
                 /\ new.expiresAt = copy.expiresAt
  BY DEF Patch, Diff, Challenge

(* Before the first challenge.                                             *)
LEMMA InitHolds == Init => OInv
<1> SUFFICES ASSUME Init PROVE OInv
  OBVIOUS
<1>1. EditingOK(Challenge, Ops, Pcs) /\ Sole
  BY OtpSound, InitFits DEF Init
<1>2. TypeOK
  BY <1>1 DEF Init, TypeOK
<1> QED
  BY <1>1, <1>2 DEF Init, EditingInit, OInv, RowHolds, Used, Tallied

(* POST /auth/otp/create.                                                  *)
LEMMA CreateStep ==
    ASSUME OInv, NEW c \in Ids, Create(c)
    PROVE  OInv'
<1> DEFINE row == [attemptCount |-> 0, lockedUntil |-> Null,
                   expiresAt |-> now + Ttl, deleted |-> FALSE]
<1>1. row \in Challenge /\ Insert(c, row) /\ UNCHANGED <<now, wrong, lost, accepted>>
  BY OtpAssumption DEF Create, Challenge, OInv, TypeOK, counts
<1>2. TypeOK'
  BY <1>1, InsertFits, OtpSound DEF OInv, TypeOK
<1>3. /\ UNCHANGED <<pc, op, at, entity, cols, raced>> /\ rows[c] = NoRow
      /\ rows' = [rows EXCEPT ![c] = row]
  BY <1>1 DEF Insert, locals
<1>4. row.attemptCount = 0 /\ row.lockedUntil = Null /\ row.expiresAt = now + Ttl
  OBVIOUS
<1>5. \A h \in Handlers : pc[h] # "idle" => at[h] \in Ids /\ at[h] # c
  BY <1>3 DEF OInv, TypeOK, EditingOK
<1> HIDE DEF row
<1>6. ASSUME NEW h \in Handlers, pc'[h] # "idle"
      PROVE  Holds(h)'
  <2>1. Holds(h) /\ rows'[at'[h]] = rows[at[h]]
    BY <1>3, <1>5, <1>6 DEF OInv, TypeOK, EditingOK
  <2> QED
    BY <1>1, <1>3, <2>1 DEF Holds, Counted, Flying, Paced
<1>7. ASSUME NEW d \in Ids
      PROVE  RowHolds(d)'
  <2>1. RowHolds(d)
    BY DEF OInv
  <2>2. CASE d # c
    <3>1. rows'[d] = rows[d]
      BY <1>3, <2>2 DEF OInv, TypeOK, EditingOK
    <3> QED
      BY <1>1, <1>3, <2>1, <3>1 DEF RowHolds, Counted, Used, Tallied, Paced, Busy
  <2>3. CASE d = c
    <3>1. /\ rows'[c] = row /\ row # NoRow
          /\ wrong[c] = 0 /\ lost[c] = 0 /\ accepted[c] = 0 /\ now \in Nat
      BY <1>1, <1>3, <2>1, <2>3, OtpAssumption DEF OInv, TypeOK, EditingOK, RowHolds
    <3>2. RowHolds(c)'
      <4>1. MaxAttempts \in Nat \ {0} /\ Ttl \in Nat
        BY OtpAssumption
      <4> QED
        BY <1>1, <1>4, <2>3, <3>1, <4>1 DEF RowHolds, Counted, Used, Tallied, Paced
    <3> QED
      BY <2>3, <3>2
  <2> QED
    BY <2>2, <2>3
<1>8. Sole'
  BY <1>3 DEF OInv, Sole
<1> QED
  BY <1>2, <1>6, <1>7, <1>8 DEF OInv

(* Time passes, or nothing happens.                                        *)
LEMMA TickStep ==
    ASSUME OInv, Tick \/ UNCHANGED vars
    PROVE  OInv'
<1>1. /\ UNCHANGED <<rows, pc, op, at, entity, cols, raced, wrong, lost, accepted>>
      /\ now \in Nat /\ now' \in Nat /\ now' >= now
  BY DEF Tick, vars, editing, counts, OInv, TypeOK
<1>2. TypeOK' /\ Sole'
  BY <1>1 DEF OInv, TypeOK, EditingOK, Sole
<1>3. \A row \in Challenge : Paced(row) => Paced(row)'
  BY <1>1, OtpAssumption DEF Paced, Challenge
<1>4. \A h \in Handlers : pc'[h] # "idle" => Holds(h)'
  <2> SUFFICES ASSUME NEW h \in Handlers, pc'[h] # "idle" PROVE Holds(h)'
    OBVIOUS
  <2>1. Holds(h) /\ entity[h] \in Challenge
    BY <1>1 DEF OInv, TypeOK, EditingOK
  <2>2. Paced(entity[h]) => Paced(entity[h])'
    BY <1>1, <1>3, <2>1 DEF Paced
  <2> QED
    BY <1>1, <2>1, <2>2 DEF Holds, Counted, Flying
<1>5. ASSUME NEW c \in Ids PROVE RowHolds(c)'
  <2>1. RowHolds(c) /\ (rows[c] # NoRow => rows[c] \in Challenge)
    BY DEF OInv, TypeOK, EditingOK
  <2>2. rows[c] # NoRow /\ Paced(rows[c]) => Paced(rows[c])'
    BY <1>1, <1>3, <2>1 DEF Paced
  <2> QED
    BY <1>1, <2>1, <2>2 DEF RowHolds, Counted, Used, Tallied, Busy
<1> QED
  BY <1>2, <1>4, <1>5 DEF OInv

-----------------------------------------------------------------------------
(* A step of handler h on challenge i leaves the others what they had: a   *)
(* row nobody raced has no other handler, and counts only grow.            *)
LEMMA Assembled ==
    ASSUME OInv, TypeOK', Sole', NEW h \in Handlers, NEW i \in Ids,
           at[h] \in {i, Null}, at'[h] \in {i, Null},
           i \notin raced' => \A g \in Handlers \ {h} : at[g] # i,
           pc' = [pc EXCEPT ![h] = pc'[h]], op' = [op EXCEPT ![h] = op'[h]],
           at' = [at EXCEPT ![h] = at'[h]], entity' = [entity EXCEPT ![h] = entity'[h]],
           cols' = [cols EXCEPT ![h] = cols'[h]],
           rows' = [rows EXCEPT ![i] = rows'[i]], now' = now, raced \subseteq raced',
           \A c \in Ids \ {i} : c \in raced' => c \in raced,
           wrong' = [wrong EXCEPT ![i] = wrong'[i]], wrong'[i] >= wrong[i],
           lost' = [lost EXCEPT ![i] = lost'[i]],
           accepted' = [accepted EXCEPT ![i] = accepted'[i]],
           pc'[h] # "idle" => Holds(h)', RowHolds(i)'
    PROVE  OInv'
<1>1. ASSUME NEW g \in Handlers, pc'[g] # "idle"
      PROVE  Holds(g)'
  <2>1. CASE g = h
    BY <1>1, <2>1
  <2>2. CASE g # h
    <3>1. /\ pc'[g] = pc[g] /\ op'[g] = op[g] /\ at'[g] = at[g]
          /\ entity'[g] = entity[g] /\ cols'[g] = cols[g]
      BY <2>2 DEF OInv, TypeOK, EditingOK
    <3>2. Holds(g) /\ at[g] \in Ids /\ entity[g] \in Challenge
      BY <1>1, <3>1 DEF OInv, TypeOK, EditingOK
    <3>3. CASE at[g] = i
      <4>1. i \in raced'
        BY <2>2, <3>3
      <4>2. /\ entity[g].attemptCount \in Nat /\ wrong[i] \in Nat /\ wrong'[i] \in Nat
            /\ MaxAttempts \in Nat
        BY <3>2, OtpAssumption DEF Challenge, OInv, TypeOK
      <4> QED
        BY <3>1, <3>2, <3>3, <4>1, <4>2 DEF Holds, Counted
    <3>4. CASE at[g] # i
      <4>1. /\ rows'[at[g]] = rows[at[g]] /\ wrong'[at[g]] = wrong[at[g]]
            /\ lost'[at[g]] = lost[at[g]]
        BY <3>2, <3>4 DEF OInv, TypeOK, EditingOK
      <4> QED
        BY <3>1, <3>2, <3>4, <4>1 DEF Holds, Counted, Flying, Paced
    <3> QED
      BY <3>3, <3>4
  <2> QED
    BY <2>1, <2>2
<1>2. ASSUME NEW c \in Ids
      PROVE  RowHolds(c)'
  <2>1. CASE c = i
    BY <2>1
  <2>2. CASE c # i
    <3>1. /\ rows'[c] = rows[c] /\ wrong'[c] = wrong[c] /\ lost'[c] = lost[c]
          /\ accepted'[c] = accepted[c] /\ (c \in raced' <=> c \in raced)
      BY <2>2 DEF OInv, TypeOK, EditingOK
    <3>2. \A g \in Handlers : at'[g] = c <=> at[g] = c
      BY <2>2, OtpAssumption DEF OInv, TypeOK, EditingOK
    <3>3. \A g \in Handlers : at[g] = c => pc'[g] = pc[g]
      BY <2>2, OtpAssumption DEF OInv, TypeOK, EditingOK
    <3>4. RowHolds(c)
      BY DEF OInv
    <3> QED
      BY <3>1, <3>2, <3>3, <3>4 DEF RowHolds, Counted, Used, Tallied, Paced, Busy
  <2> QED
    BY <2>1, <2>2
<1> QED
  BY <1>1, <1>2 DEF OInv

(* What a request that is let in leaves for the parts of the invariant.    *)
LEMMA BeginStep ==
    ASSUME OInv, NEW h \in Handlers, NEW i \in Ids, NEW o \in Ops,
           NEW copy \in Challenge, NEW p \in {"reload", "softDelete"},
           Begin(h, o, i, copy, p), Live(i), UNCHANGED <<now, lost, accepted>>,
           wrong' = [wrong EXCEPT ![i] = wrong'[i]], wrong'[i] \in Nat,
           p = "softDelete" => copy = rows[i] /\ wrong'[i] = wrong[i],
           p = "reload" => /\ copy.attemptCount = rows[i].attemptCount + 1
                           /\ copy.expiresAt = rows[i].expiresAt
                           /\ wrong'[i] = wrong[i] + 1
                           /\ copy.lockedUntil # Null => wrong[i] + 1 >= MaxAttempts
                           /\ Paced(rows[i]) => Paced(copy)
    PROVE  OInv'
<1>1. EditingOK(Challenge, Ops, Pcs)'
  BY BeginFits, OtpSound DEF OInv, TypeOK, Pcs
<1>2. TypeOK'
  BY <1>1 DEF OInv, TypeOK
<1>3. Sole' /\ (i \notin raced' => \A g \in Handlers : at[g] # i)
  BY SoleBegins DEF OInv, TypeOK
<1>4. /\ pc' = [pc EXCEPT ![h] = p] /\ op' = [op EXCEPT ![h] = o]
      /\ at' = [at EXCEPT ![h] = i] /\ entity' = [entity EXCEPT ![h] = copy]
      /\ rows' = rows /\ cols' = cols /\ pc[h] = "idle" /\ rows[i] # NoRow
      /\ raced' = raced \cup {j \in {i} : Busy(j)}
  BY DEF Begin
<1>5. /\ pc'[h] = p /\ at'[h] = i /\ entity'[h] = copy /\ at[h] = Null
      /\ raced \subseteq raced' /\ \A c \in Ids \ {i} : c \in raced' => c \in raced
  BY <1>4 DEF OInv, TypeOK, EditingOK
<1>6. RowHolds(i) /\ rows[i] \in Challenge
  BY <1>4 DEF OInv, TypeOK, EditingOK
<1>7. /\ rows[i].attemptCount \in Nat /\ wrong[i] \in Nat /\ wrong'[i] \in Nat
      /\ lost[i] \in Nat /\ MaxAttempts \in Nat
  BY <1>6, OtpAssumption DEF OInv, TypeOK, Challenge
<1>8. /\ accepted[i] \in Nat
      /\ i \notin raced' =>
           /\ i \notin raced /\ accepted[i] = 0 /\ Paced(rows[i])
           /\ wrong[i] = lost[i] + rows[i].attemptCount
  BY <1>3, <1>4, <1>5, <1>6 DEF RowHolds, Used, Tallied, Live, OInv, TypeOK
<1>9. Holds(h)'
  <2>1. Counted(copy, i)'
    BY <1>4, <1>6, <1>7 DEF RowHolds, Counted
  <2>2. i \notin raced' /\ p = "reload" => Flying(h)'
    BY <1>4, <1>5, <1>7, <1>8 DEF Flying, Paced
  <2> QED
    BY <1>5, <2>1, <2>2 DEF Holds
<1>10. RowHolds(i)'
  <2>1. i \notin raced' => Used(i)'
    BY <1>8 DEF Used
  <2>2. i \notin raced' => Tallied(i)'
    BY <1>4, <1>5, <1>8 DEF Tallied, Paced
  <2>3. Counted(rows[i], i)'
    BY <1>4, <1>6, <1>7 DEF RowHolds, Counted
  <2> QED
    BY <1>4, <2>1, <2>2, <2>3 DEF RowHolds
<1>11. /\ pc' = [pc EXCEPT ![h] = pc'[h]] /\ op' = [op EXCEPT ![h] = op'[h]]
       /\ at' = [at EXCEPT ![h] = at'[h]] /\ entity' = [entity EXCEPT ![h] = entity'[h]]
       /\ cols' = [cols EXCEPT ![h] = cols'[h]] /\ rows' = [rows EXCEPT ![i] = rows'[i]]
  BY <1>4 DEF OInv, TypeOK, EditingOK
<1>12. /\ lost' = [lost EXCEPT ![i] = lost'[i]] /\ wrong'[i] >= wrong[i]
       /\ accepted' = [accepted EXCEPT ![i] = accepted'[i]]
  BY <1>7 DEF OInv, TypeOK
<1>13. /\ at[h] \in {i, Null} /\ at'[h] \in {i, Null} /\ now' = now
       /\ i \notin raced' => \A g \in Handlers \ {h} : at[g] # i
  BY <1>3, <1>5
<1> QED
  BY <1>2, <1>3, <1>5, <1>9, <1>10, <1>11, <1>12, <1>13, Assembled

(* A wrong code, the right one, and POST /auth/otp/delete.                 *)
LEMMA VerifyWrongStep ==
    ASSUME OInv, NEW h \in Handlers, NEW c \in Ids, VerifyWrong(h, c)
    PROVE  OInv'
<1> DEFINE row == rows[c]
           copy == Failed(rows[c])
<1>1. /\ Verifiable(c) /\ Begin(h, "verify", c, copy, "reload")
      /\ wrong' = [wrong EXCEPT ![c] = @ + 1] /\ UNCHANGED <<now, lost, accepted>>
  BY DEF VerifyWrong
<1>2. /\ Live(c) /\ row \in Challenge /\ wrong[c] \in Nat /\ wrong'[c] = wrong[c] + 1
      /\ now \in Nat
  BY <1>1 DEF Verifiable, Live, OInv, TypeOK, EditingOK
<1>3. /\ row.attemptCount \in Nat /\ row.expiresAt \in Nat
      /\ row.lockedUntil \in Nat \cup {Null} /\ row.deleted \in BOOLEAN
      /\ MaxAttempts \in Nat \ {0} /\ LockTime \in Nat /\ Ttl \in Nat /\ Null \notin Nat
  BY <1>2, OtpAssumption DEF Challenge
<1>4. /\ copy.attemptCount = row.attemptCount + 1 /\ copy.expiresAt = row.expiresAt
      /\ copy.deleted = row.deleted
      /\ row.attemptCount + 1 >= MaxAttempts => copy.lockedUntil = now + LockTime
      /\ row.attemptCount + 1 < MaxAttempts => copy.lockedUntil = row.lockedUntil
      /\ copy.lockedUntil \in Nat \cup {Null}
      /\ copy \in Challenge
  <2> DEFINE attempts == row.attemptCount + 1
             until == IF attempts >= MaxAttempts THEN now + LockTime ELSE row.lockedUntil
  <2>1. attempts \in Nat /\ until \in Nat \cup {Null}
    BY <1>2, <1>3
  <2>2. copy = [row EXCEPT !.attemptCount = attempts, !.lockedUntil = until]
    BY <1>2 DEF Failed, Challenge
  <2> HIDE DEF attempts, until, copy
  <2>3. /\ copy.attemptCount = attempts /\ copy.lockedUntil = until
        /\ copy.expiresAt = row.expiresAt /\ copy.deleted = row.deleted
        /\ copy \in Challenge
    BY <1>2, <2>1, <2>2 DEF Challenge
  <2> QED
    BY <1>3, <2>1, <2>3 DEF attempts, until
<1>5. row.expiresAt >= now /\ (row.lockedUntil # Null => row.lockedUntil < now)
  BY <1>1, <1>2, <1>3 DEF Verifiable, Locked, Expired
<1> HIDE DEF row, copy
<1>6. Paced(row) => Paced(copy)
  <2> SUFFICES ASSUME Paced(row) PROVE Paced(copy)
    OBVIOUS
  <2>1. row.expiresAt <= now + Ttl
    BY DEF Paced
  <2>2. CASE row.attemptCount + 1 < MaxAttempts
    BY <1>3, <1>4, <2>1, <2>2 DEF Paced
  <2>3. CASE row.attemptCount + 1 = MaxAttempts
    <3>1. copy.lockedUntil = now + LockTime /\ copy.lockedUntil # Null
      BY <1>2, <1>3, <1>4, <2>3
    <3>2. Span(copy.attemptCount) = 0
      BY <1>3, <1>4, <2>3, Spans
    <3> QED
      BY <1>2, <1>3, <1>4, <1>5, <2>1, <3>1, <3>2 DEF Paced
  <2>4. CASE row.attemptCount >= MaxAttempts
    <3>1. /\ row.lockedUntil \in Nat /\ row.lockedUntil < now
          /\ Span(row.attemptCount) + LockTime + row.expiresAt <= row.lockedUntil + Ttl
      BY <1>3, <1>5, <2>4 DEF Paced
    <3>2. /\ Span(copy.attemptCount) = Span(row.attemptCount) + LockTime + 1
          /\ Span(row.attemptCount) \in Int
      BY <1>3, <1>4, Spans
    <3>3. copy.lockedUntil = now + LockTime /\ copy.lockedUntil # Null
      BY <1>2, <1>3, <1>4, <2>4
    <3> QED
      BY <1>2, <1>3, <1>4, <1>5, <2>1, <3>1, <3>2, <3>3 DEF Paced
  <2> QED
    BY <1>3, <2>2, <2>3, <2>4
<1>7. copy.lockedUntil # Null => wrong[c] + 1 >= MaxAttempts
  <2>1. Counted(row, c)
    BY <1>1, <1>2 DEF row, OInv, RowHolds, Verifiable, Live
  <2> QED
    BY <1>2, <1>3, <1>4, <2>1 DEF Counted
<1>8. wrong' = [wrong EXCEPT ![c] = wrong'[c]] /\ wrong'[c] \in Nat
  BY <1>1, <1>2 DEF OInv, TypeOK
<1> QED
  BY <1>1, <1>2, <1>4, <1>6, <1>7, <1>8, BeginStep DEF row, Ops

LEMMA EndsLive ==
    ASSUME OInv, NEW h \in Handlers, NEW c \in Ids, VerifyRight(h, c) \/ Delete(h, c)
    PROVE  OInv'
<1>1. PICK o \in Ops : Begin(h, o, c, rows[c], "softDelete")
  BY DEF VerifyRight, Delete, Ops
<1>2. Live(c) /\ UNCHANGED <<now, wrong, lost, accepted>>
  BY DEF VerifyRight, Delete, Verifiable, counts
<1>3. rows[c] \in Challenge /\ wrong' = [wrong EXCEPT ![c] = wrong'[c]]
      /\ wrong'[c] = wrong[c] /\ wrong'[c] \in Nat
  BY <1>2 DEF Live, OInv, TypeOK, EditingOK
<1> QED
  BY <1>1, <1>2, <1>3, BeginStep

(* What a handler at work holds before it goes on.                         *)
LEMMA Working ==
    ASSUME OInv, NEW h \in Handlers, pc[h] # "idle"
    PROVE  /\ at[h] \in Ids /\ rows[at[h]] \in Challenge /\ rows[at[h]] # NoRow
           /\ entity[h] \in Challenge /\ Holds(h) /\ RowHolds(at[h])
           /\ at[h] \notin raced => /\ \A g \in Handlers \ {h} : at[g] # at[h]
                                    /\ accepted[at[h]] = 0
<1>1. /\ at[h] \in Ids /\ rows[at[h]] \in Challenge /\ rows[at[h]] # NoRow
      /\ entity[h] \in Challenge /\ at[h] # Null
  BY OtpAssumption DEF OInv, TypeOK, EditingOK
<1>2. Holds(h) /\ RowHolds(at[h])
  BY <1>1 DEF OInv
<1>3. at[h] \notin raced => \A g \in Handlers \ {h} : at[g] # at[h]
  BY <1>1 DEF OInv, Sole
<1>4. at[h] \notin raced => accepted[at[h]] = 0
  BY <1>1, <1>2 DEF RowHolds, Used, Busy, OInv, TypeOK
<1> QED
  BY <1>1, <1>2, <1>3, <1>4

(* The frame of a handler that goes on, or ends.                           *)
LEMMA Frame ==
    ASSUME OInv, NEW h \in Handlers, NEW p \in Pcs, NEW changed,
           Resume(h, p) \/ /\ pc' = [pc EXCEPT ![h] = p]
                           /\ cols' = [cols EXCEPT ![h] = changed]
                           /\ UNCHANGED <<op, at, entity>>
    PROVE  /\ pc' = [pc EXCEPT ![h] = pc'[h]] /\ op' = [op EXCEPT ![h] = op'[h]]
           /\ at' = [at EXCEPT ![h] = at'[h]]
           /\ entity' = [entity EXCEPT ![h] = entity'[h]]
           /\ cols' = [cols EXCEPT ![h] = cols'[h]] /\ pc'[h] = p
           /\ at' = at \/ at' = [at EXCEPT ![h] = Null]
           /\ at'[h] \in {at[h], Null} /\ (p = "idle" /\ Resume(h, p) => at'[h] = Null)
           /\ p # "idle" => at'[h] = at[h] /\ entity'[h] = entity[h]
  BY DEF Resume, Finish, OInv, TypeOK, EditingOK

(* The second read of save().                                              *)
LEMMA SaveReloadStep ==
    ASSUME OInv, NEW h \in Handlers, SaveReload(h)
    PROVE  OInv'
<1>1. /\ Reload(h, "idle") /\ UNCHANGED <<rows, raced, now, wrong, lost, accepted>>
      /\ pc[h] = "reload"
  BY DEF SaveReload, Reload, counts
<1>2. TypeOK'
  <2>1. EditingOK(Challenge, Ops, Pcs)'
    BY <1>1, ReloadFits, OtpSound DEF OInv, TypeOK, Pcs
  <2> QED
    BY <1>1, <2>1 DEF OInv, TypeOK
<1> DEFINE changed == Diff(entity[h], rows[at[h]])
<1>3. \/ changed = {} /\ Resume(h, "idle")
      \/ /\ pc' = [pc EXCEPT ![h] = "write"] /\ cols' = [cols EXCEPT ![h] = changed]
         /\ UNCHANGED <<op, at, entity>>
  BY <1>1 DEF Reload
<1> PICK i \in Ids : i = at[h]
  BY <1>1, Working
<1>4. /\ rows[i] \in Challenge /\ rows[i] # NoRow /\ entity[h] \in Challenge
      /\ Holds(h) /\ RowHolds(i)
      /\ i \notin raced => (\A g \in Handlers \ {h} : at[g] # i) /\ accepted[i] = 0
  BY <1>1, Working
<1>5. i \notin raced => Flying(h) /\ changed # {}
  <2> SUFFICES ASSUME i \notin raced PROVE Flying(h) /\ changed # {}
    OBVIOUS
  <2>1. Flying(h)
    BY <1>1, <1>4 DEF Holds
  <2>2. entity[h].attemptCount # rows[i].attemptCount /\ "attemptCount" \in DOMAIN rows[i]
    BY <1>4, <2>1 DEF Flying, Challenge
  <2> QED
    BY <2>1, <2>2 DEF Diff
<1> HIDE DEF changed
<1>6. PICK p \in {"idle", "write"} :
         /\ Resume(h, p) \/ /\ pc' = [pc EXCEPT ![h] = p]
                            /\ cols' = [cols EXCEPT ![h] = changed]
                            /\ UNCHANGED <<op, at, entity>>
         /\ p = "idle" => i \in raced
         /\ p = "write" => cols' = [cols EXCEPT ![h] = changed]
  BY <1>3, <1>5
<1>7. /\ pc' = [pc EXCEPT ![h] = pc'[h]] /\ op' = [op EXCEPT ![h] = op'[h]]
      /\ at' = [at EXCEPT ![h] = at'[h]]
      /\ entity' = [entity EXCEPT ![h] = entity'[h]]
      /\ cols' = [cols EXCEPT ![h] = cols'[h]] /\ pc'[h] = p
      /\ at' = at \/ at' = [at EXCEPT ![h] = Null]
      /\ at'[h] \in {i, Null}
      /\ p # "idle" => at'[h] = i /\ entity'[h] = entity[h]
  BY <1>6, Frame DEF Pcs
<1>8. p = "write" => cols'[h] = changed
  BY <1>6 DEF OInv, TypeOK, EditingOK
<1>9. Sole'
  BY <1>1, <1>7, SoleKept DEF OInv, TypeOK
<1>10. pc'[h] # "idle" => Holds(h)'
  BY <1>1, <1>4, <1>5, <1>7, <1>8 DEF Holds, Counted, Flying, Paced, changed
<1>11. RowHolds(i)'
  <2>1. i \notin raced => Used(i)'
    BY <1>1, <1>4 DEF Used
  <2>2. i \notin raced => Tallied(i)'
    BY <1>1, <1>4, <1>6, <1>7 DEF RowHolds, Tallied, Paced
  <2> QED
    BY <1>1, <1>4, <2>1, <2>2 DEF RowHolds, Counted
<1>12. /\ rows' = [rows EXCEPT ![i] = rows'[i]] /\ wrong' = [wrong EXCEPT ![i] = wrong'[i]]
       /\ lost' = [lost EXCEPT ![i] = lost'[i]] /\ wrong'[i] >= wrong[i]
       /\ accepted' = [accepted EXCEPT ![i] = accepted'[i]]
  BY <1>1 DEF OInv, TypeOK, EditingOK
<1> QED
  BY <1>1, <1>2, <1>4, <1>7, <1>9, <1>10, <1>11, <1>12, Assembled

(* The UPDATE of save().                                                   *)
LEMMA SaveWriteStep ==
    ASSUME OInv, NEW h \in Handlers, SaveWrite(h)
    PROVE  OInv'
<1>1. /\ Write(h, "idle") /\ UNCHANGED <<raced, now, wrong, lost, accepted>>
      /\ pc[h] = "write" /\ Resume(h, "idle")
      /\ rows' = [rows EXCEPT ![at[h]] = Patch(@, entity[h], cols[h])]
  BY DEF SaveWrite, Write, counts
<1>2. TypeOK'
  <2>1. EditingOK(Challenge, Ops, Pcs)'
    BY <1>1, WriteFits, OtpSound DEF OInv, TypeOK, Pcs
  <2> QED
    BY <1>1, <2>1 DEF OInv, TypeOK
<1> PICK i \in Ids : i = at[h]
  BY <1>1, Working
<1>3. /\ rows[i] \in Challenge /\ rows[i] # NoRow /\ entity[h] \in Challenge
      /\ Holds(h) /\ RowHolds(i)
      /\ i \notin raced => (\A g \in Handlers \ {h} : at[g] # i) /\ accepted[i] = 0
  BY <1>1, Working
<1>4. /\ pc' = [pc EXCEPT ![h] = pc'[h]] /\ op' = [op EXCEPT ![h] = op'[h]]
      /\ at' = [at EXCEPT ![h] = at'[h]]
      /\ entity' = [entity EXCEPT ![h] = entity'[h]]
      /\ cols' = [cols EXCEPT ![h] = cols'[h]] /\ pc'[h] = "idle"
      /\ at' = at \/ at' = [at EXCEPT ![h] = Null]
      /\ at'[h] = Null
  BY <1>1, Frame DEF Pcs
<1>5. Sole'
  BY <1>1, <1>4, SoleKept DEF OInv, TypeOK
<1> DEFINE new == Patch(rows[i], entity[h], cols[h])
<1>6. rows'[i] = new /\ rows' = [rows EXCEPT ![i] = rows'[i]]
  BY <1>1 DEF OInv, TypeOK, EditingOK
<1>7. /\ new.attemptCount \in {rows[i].attemptCount, entity[h].attemptCount}
      /\ new.lockedUntil \in {rows[i].lockedUntil, entity[h].lockedUntil}
      /\ cols[h] = Diff(entity[h], rows[i]) =>
            /\ new.attemptCount = entity[h].attemptCount
            /\ new.lockedUntil = entity[h].lockedUntil
            /\ new.expiresAt = entity[h].expiresAt
  BY <1>3, PatchChallenge
<1>8. new # NoRow
  BY <1>3, OtpSound DEF Sound
<1> HIDE DEF new
<1>9. Counted(new, i)
  BY <1>3, <1>7 DEF Holds, RowHolds, Counted
<1>10. i \notin raced => Paced(new) /\ wrong[i] = lost[i] + new.attemptCount
  <2> SUFFICES ASSUME i \notin raced
               PROVE  Paced(new) /\ wrong[i] = lost[i] + new.attemptCount
    OBVIOUS
  <2>1. Flying(h)
    BY <1>1, <1>3 DEF Holds
  <2>2. /\ new.attemptCount = entity[h].attemptCount
        /\ new.lockedUntil = entity[h].lockedUntil
        /\ new.expiresAt = entity[h].expiresAt
    BY <1>1, <1>7, <2>1 DEF Flying
  <2>3. rows[i].attemptCount \in Nat /\ lost[i] \in Nat
    BY <1>3 DEF Challenge, OInv, TypeOK
  <2> QED
    BY <2>1, <2>2, <2>3 DEF Flying, Paced
<1>11. RowHolds(i)'
  <2>1. i \notin raced => Used(i)'
    BY <1>1, <1>3 DEF Used
  <2>2. i \notin raced => Tallied(i)'
    BY <1>1, <1>6, <1>10 DEF Tallied, Paced
  <2> QED
    BY <1>1, <1>6, <1>8, <1>9, <2>1, <2>2 DEF RowHolds, Counted
<1>12. /\ wrong' = [wrong EXCEPT ![i] = wrong'[i]]
       /\ lost' = [lost EXCEPT ![i] = lost'[i]] /\ wrong'[i] >= wrong[i]
       /\ accepted' = [accepted EXCEPT ![i] = accepted'[i]]
  BY <1>1 DEF OInv, TypeOK, EditingOK
<1> QED
  BY <1>1, <1>2, <1>3, <1>4, <1>5, <1>6, <1>11, <1>12, Assembled

(* softDelete(), and the answer of verify.                                 *)
LEMMA ConsumeStep ==
    ASSUME OInv, NEW h \in Handlers, Consume(h)
    PROVE  OInv'
<1>1. /\ SoftDelete(h) /\ UNCHANGED <<raced, now, wrong, lost>>
      /\ pc[h] = "softDelete" /\ Resume(h, "idle")
      /\ rows' = [rows EXCEPT ![at[h]].deleted = TRUE]
      /\ accepted' = [accepted EXCEPT ![at[h]] = @ + (IF op[h] = "verify" THEN 1 ELSE 0)]
  BY DEF Consume, SoftDelete, Resume
<1> PICK i \in Ids : i = at[h]
  BY <1>1, Working
<1>2. /\ rows[i] \in Challenge /\ rows[i] # NoRow /\ Holds(h) /\ RowHolds(i)
      /\ i \notin raced => (\A g \in Handlers \ {h} : at[g] # i) /\ accepted[i] = 0
  BY <1>1, Working
<1> DEFINE gain == IF op[h] = "verify" THEN 1 ELSE 0
<1>3. /\ accepted[i] \in Nat /\ accepted'[i] \in {accepted[i], accepted[i] + 1}
      /\ accepted' = [accepted EXCEPT ![i] = accepted'[i]]
  <2>1. gain \in {0, 1} /\ accepted' = [accepted EXCEPT ![i] = accepted[i] + gain]
    BY <1>1
  <2> HIDE DEF gain
  <2>2. accepted \in [Ids -> Nat]
    BY DEF OInv, TypeOK
  <2>3. accepted'[i] = accepted[i] + gain
    BY <2>1, <2>2
  <2>4. accepted' = [accepted EXCEPT ![i] = accepted'[i]]
    BY <2>1, <2>3
  <2>5. accepted[i] \in Nat
    BY <2>2
  <2>6. accepted'[i] \in {accepted[i], accepted[i] + 1}
    BY <2>1, <2>3, <2>5
  <2> QED
    BY <2>4, <2>5, <2>6
<1>4. TypeOK'
  <2>1. EditingOK(Challenge, Ops, Pcs)'
    BY <1>1, SoftDeleteFits, OtpSound DEF OInv, TypeOK
  <2> QED
    BY <1>1, <1>3, <2>1 DEF OInv, TypeOK
<1>5. /\ pc' = [pc EXCEPT ![h] = pc'[h]] /\ op' = [op EXCEPT ![h] = op'[h]]
      /\ at' = [at EXCEPT ![h] = at'[h]]
      /\ entity' = [entity EXCEPT ![h] = entity'[h]]
      /\ cols' = [cols EXCEPT ![h] = cols'[h]] /\ pc'[h] = "idle"
      /\ at' = at \/ at' = [at EXCEPT ![h] = Null]
      /\ at'[h] = Null
  BY <1>1, Frame DEF Pcs
<1>6. Sole'
  BY <1>1, <1>5, SoleKept DEF OInv, TypeOK
<1>7. /\ rows'[i] \in Challenge /\ rows'[i] # NoRow /\ rows'[i].deleted = TRUE
      /\ rows'[i].attemptCount = rows[i].attemptCount
      /\ rows'[i].lockedUntil = rows[i].lockedUntil
      /\ rows'[i].expiresAt = rows[i].expiresAt
      /\ rows' = [rows EXCEPT ![i] = rows'[i]]
  <2> DEFINE new == [rows[i] EXCEPT !.deleted = TRUE]
  <2>1. rows' = [rows EXCEPT ![i] = new]
    BY <1>1
  <2>2. /\ new \in Challenge /\ new.deleted = TRUE
        /\ new.attemptCount = rows[i].attemptCount
        /\ new.lockedUntil = rows[i].lockedUntil /\ new.expiresAt = rows[i].expiresAt
    BY <1>2, OtpSound DEF Challenge
  <2> HIDE DEF new
  <2> QED
    BY <2>1, <2>2, OtpAssumption DEF OInv, TypeOK, EditingOK
<1>8. RowHolds(i)'
  <2>1. i \notin raced => Used(i)'
    <3>1. i \notin raced => \A g \in Handlers : at'[g] # i
      BY <1>2, <1>5, OtpAssumption DEF OInv, TypeOK, EditingOK
    <3> QED
      BY <1>2, <1>3, <1>7, <3>1 DEF Used, Busy
  <2>2. i \notin raced => Tallied(i)'
    BY <1>1, <1>2, <1>7 DEF RowHolds, Tallied, Paced
  <2> QED
    BY <1>1, <1>2, <1>7, <2>1, <2>2 DEF RowHolds, Counted
<1>9. wrong' = [wrong EXCEPT ![i] = wrong'[i]] /\ wrong'[i] >= wrong[i]
      /\ lost' = [lost EXCEPT ![i] = lost'[i]]
  BY <1>1 DEF OInv, TypeOK
<1> QED
  BY <1>1, <1>2, <1>3, <1>4, <1>5, <1>6, <1>7, <1>8, <1>9, Assembled

(* An await that rejects: a wrong code whose save it was is not counted.   *)
LEMMA RejectsStep ==
    ASSUME OInv, NEW h \in Handlers, AwaitRejects(h)
    PROVE  OInv'
<1>1. /\ Rejects(h) /\ UNCHANGED <<rows, raced, now, wrong, accepted>>
      /\ pc[h] # "idle" /\ Resume(h, "idle")
      /\ lost' = IF pc[h] = "softDelete" THEN lost
                 ELSE [lost EXCEPT ![at[h]] = @ + 1]
  BY DEF AwaitRejects, Rejects, Resume
<1> PICK i \in Ids : i = at[h]
  BY <1>1, Working
<1>2. /\ rows[i] \in Challenge /\ rows[i] # NoRow /\ Holds(h) /\ RowHolds(i)
      /\ i \notin raced => (\A g \in Handlers \ {h} : at[g] # i) /\ accepted[i] = 0
  BY <1>1, Working
<1>3. /\ lost[i] \in Nat /\ lost' = [lost EXCEPT ![i] = lost'[i]]
      /\ lost'[i] = IF pc[h] = "softDelete" THEN lost[i] ELSE lost[i] + 1
  BY <1>1 DEF OInv, TypeOK
<1>4. TypeOK'
  <2>1. EditingOK(Challenge, Ops, Pcs)'
    BY <1>1, RejectsFits, OtpSound DEF OInv, TypeOK
  <2> QED
    BY <1>1, <1>3, <2>1 DEF OInv, TypeOK
<1>5. /\ pc' = [pc EXCEPT ![h] = pc'[h]] /\ op' = [op EXCEPT ![h] = op'[h]]
      /\ at' = [at EXCEPT ![h] = at'[h]]
      /\ entity' = [entity EXCEPT ![h] = entity'[h]]
      /\ cols' = [cols EXCEPT ![h] = cols'[h]] /\ pc'[h] = "idle"
      /\ at' = at \/ at' = [at EXCEPT ![h] = Null]
      /\ at'[h] = Null
  BY <1>1, Frame DEF Pcs
<1>6. Sole'
  BY <1>1, <1>5, SoleKept DEF OInv, TypeOK
<1>7. RowHolds(i)'
  <2>1. i \notin raced => Used(i)'
    BY <1>1, <1>2 DEF Used
  <2>2. i \notin raced => Tallied(i)'
    <3> SUFFICES ASSUME i \notin raced PROVE Tallied(i)'
      OBVIOUS
    <3>1. Paced(rows[i]) /\ wrong[i] = lost'[i] + rows[i].attemptCount
      <4>1. CASE pc[h] = "softDelete"
        BY <1>2, <1>3, <4>1 DEF RowHolds, Tallied
      <4>2. CASE pc[h] # "softDelete"
        <5>1. Flying(h) /\ Paced(rows[i])
          BY <1>2, <4>2 DEF Holds, RowHolds, Tallied
        <5>2. rows[i].attemptCount \in Nat
          BY <1>2 DEF Challenge
        <5> QED
          BY <1>3, <4>2, <5>1, <5>2 DEF Flying
      <4> QED
        BY <4>1, <4>2
    <3> QED
      BY <1>1, <3>1 DEF Tallied, Paced
  <2> QED
    BY <1>1, <1>2, <2>1, <2>2 DEF RowHolds, Counted
<1>8. wrong' = [wrong EXCEPT ![i] = wrong'[i]] /\ wrong'[i] >= wrong[i]
      /\ accepted' = [accepted EXCEPT ![i] = accepted'[i]]
      /\ rows' = [rows EXCEPT ![i] = rows'[i]]
  BY <1>1 DEF OInv, TypeOK, EditingOK
<1> QED
  BY <1>1, <1>2, <1>3, <1>4, <1>5, <1>6, <1>7, <1>8, Assembled

-----------------------------------------------------------------------------
LEMMA StepHolds == OInv /\ [Next]_vars => OInv'
<1> SUFFICES ASSUME OInv, [Next]_vars PROVE OInv'
  OBVIOUS
<1>1. CASE \E c \in Ids : Create(c)
  BY <1>1, CreateStep
<1>2. CASE \E c \in Ids : \E h \in Handlers :
             VerifyWrong(h, c) \/ VerifyRight(h, c) \/ Delete(h, c)
  BY <1>2, VerifyWrongStep, EndsLive
<1>3. CASE \E h \in Handlers : SaveReload(h) \/ SaveWrite(h) \/ Consume(h)
                               \/ AwaitRejects(h)
  BY <1>3, SaveReloadStep, SaveWriteStep, ConsumeStep, RejectsStep
<1>4. CASE Tick \/ UNCHANGED vars
  BY <1>4, TickStep
<1> QED
  BY <1>1, <1>2, <1>3, <1>4 DEF Next

(* What OtpService relies on holds in every reachable state: of each row,  *)
(* and of each copy of one in a handler's hands.                           *)
THEOREM Inductive == Spec => []OInv
  BY InitHolds, StepHolds, PTL DEF Spec

(* verify locks a challenge only when OTP_MAX_ATTEMPTS wrong codes came,   *)
(* and attempt_count never exceeds them, whatever stale copies are saved.  *)
THEOREM LocksAreEarned == Spec => []LockIsEarned
<1>1. OInv => LockIsEarned
  BY DEF OInv, RowHolds, Counted, LockIsEarned
<1> QED
  BY <1>1, Inductive, PTL

(* verify accepts a challenge once, unless requests for it overlap.        *)
THEOREM AcceptedOnce == Spec => []OneShot
<1>1. OInv => OneShot
  BY DEF OInv, RowHolds, Used, OneShot
<1> QED
  BY <1>1, Inductive, PTL

(* A challenge evaluates OTP_MAX_ATTEMPTS wrong codes and one for each     *)
(* lock that ends in its lifetime, unless requests for it overlap; those   *)
(* whose save failed are not counted.                                      *)
THEOREM GuessesAreBounded == Spec => []GuessesBounded
<1>1. OInv => GuessesBounded
  <2> SUFFICES ASSUME OInv, NEW c \in Ids, c \notin raced
               PROVE  wrong[c] - lost[c] <= MaxAttempts + Ttl \div (LockTime + 1)
    BY DEF GuessesBounded
  <2>1. /\ wrong[c] \in Nat /\ lost[c] \in Nat /\ MaxAttempts \in Nat \ {0}
        /\ LockTime + 1 \in Nat \ {0} /\ LockTime \in Nat /\ Ttl \in Nat
    BY OtpAssumption DEF OInv, TypeOK
  <2>2. ASSUME NEW row \in Challenge, Paced(row)
        PROVE  row.attemptCount <= MaxAttempts + Ttl \div (LockTime + 1)
    <3>1. row.attemptCount \in Nat /\ row.expiresAt \in Nat
          /\ row.lockedUntil \in Nat \cup {Null}
      BY DEF Challenge
    <3>2. CASE row.attemptCount < MaxAttempts
      BY <2>1, <3>1, <3>2
    <3>3. CASE row.attemptCount >= MaxAttempts
      <4>1. Span(row.attemptCount) <= Ttl
        <5>1. row.lockedUntil \in Nat /\ Span(row.attemptCount) \in Int
          BY <2>2, <3>1, <3>3, Spans DEF Paced
        <5> QED
          BY <2>1, <2>2, <3>1, <3>3, <5>1 DEF Paced
      <4> DEFINE k == row.attemptCount - MaxAttempts
      <4>2. k \in Nat /\ k * (LockTime + 1) <= Ttl
        BY <2>1, <3>1, <3>3, <4>1 DEF Span
      <4>3. k <= Ttl \div (LockTime + 1)
        BY <2>1, <4>2, DivBounds
      <4>4. Ttl \div (LockTime + 1) \in Int
        BY <2>1
      <4> QED
        BY <2>1, <3>1, <4>3, <4>4
    <3> QED
      BY <2>1, <3>1, <3>2, <3>3
  <2>3. CASE rows[c] = NoRow
    BY <2>1, <2>3 DEF OInv, RowHolds
  <2>4. CASE rows[c] # NoRow /\ \A h \in Handlers : at[h] = c => pc[h] = "softDelete"
    <3>1. rows[c] \in Challenge /\ Paced(rows[c]) /\ wrong[c] = lost[c] + rows[c].attemptCount
      BY <2>4 DEF OInv, TypeOK, EditingOK, RowHolds, Tallied
    <3> QED
      BY <2>1, <2>2, <3>1 DEF Challenge
  <2>5. ASSUME NEW h \in Handlers, at[h] = c, pc[h] # "softDelete"
        PROVE  wrong[c] - lost[c] <= MaxAttempts + Ttl \div (LockTime + 1)
    <3>1. pc[h] # "idle" /\ entity[h] \in Challenge /\ rows[c] \in Challenge
      BY <2>5, OtpAssumption DEF OInv, TypeOK, EditingOK
    <3>2. Flying(h)
      BY <2>5, <3>1 DEF OInv, Holds
    <3>3. /\ wrong[c] = lost[c] + entity[h].attemptCount /\ Paced(entity[h])
          /\ entity[h].attemptCount \in Nat
      BY <2>1, <2>5, <3>1, <3>2 DEF Flying, Challenge
    <3> QED
      BY <2>1, <2>2, <3>1, <3>3
  <2> QED
    BY <2>3, <2>4, <2>5
<1> QED
  BY <1>1, Inductive, PTL

-----------------------------------------------------------------------------
(***************************************************************************)
(* Bill schedules                                                          *)
(***************************************************************************)

(* What a request nobody raced knows of the row it changes.                *)
Knows(h) ==
    LET row == rows[at[h]] IN
    /\ pc[h] \in {"reload", "write"}
    /\ <<row.status, Outcome(op[h])>> \in Legal
    /\ entity[h] = [row EXCEPT !.status = Outcome(op[h]),
                               !.active = (Outcome(op[h]) = "ACTIVE")]
    /\ pc[h] = "write" => cols[h] = Diff(entity[h], row)

(* What the customer was told of a row nobody raced.                       *)
Told(i) ==
    /\ rows[i] = NoRow => answered[i] = Null
    /\ rows[i] # NoRow =>
          /\ rows[i].status = Outcome(answered[i])
          /\ rows[i].active <=> rows[i].status = "ACTIVE"

SInv ==
    /\ SchedulesOK /\ Sole
    /\ \A h \in Handlers : pc[h] # "idle" /\ at[h] \notin raced => Knows(h)
    /\ \A i \in Ids \ raced : Told(i)

-----------------------------------------------------------------------------
(* The columns of a schedule stay columns of a schedule.                   *)
LEMMA SchedulesSound == Sound(Schedule, ScheduleOps, SchedulePcs)
  BY SchedulesAssumption DEF Sound, Schedule, ScheduleOps, SchedulePcs, Patch

(* An UPDATE of what differs makes the row the entity.                     *)
LEMMA PatchSchedule ==
    ASSUME NEW row \in Schedule, NEW copy \in Schedule
    PROVE  Patch(row, copy, Diff(copy, row)) = copy
<1> DEFINE new == Patch(row, copy, Diff(copy, row))
<1>1. DOMAIN row = {"owner", "frequency", "status", "active"}
  BY DEF Schedule
<1>2. /\ new.owner = copy.owner /\ new.frequency = copy.frequency
      /\ new.status = copy.status /\ new.active = copy.active
  BY <1>1 DEF Patch, Diff
<1>3. new \in Schedule
  BY DEF Patch, Schedule
<1> HIDE DEF new
<1>4. new = copy
  BY <1>2, <1>3 DEF Schedule
<1> QED
  BY <1>4 DEF new

(* A status an operation leads to is another one than it finds.            *)
LEMMA LegalMoves ==
    ASSUME NEW from, NEW to, <<from, to>> \in Legal
    PROVE  from # to
  BY DEF Legal

(* Before the first request.                                               *)
LEMMA SchedulesInitHolds == SchedulesInit => SInv
<1> SUFFICES ASSUME SchedulesInit PROVE SInv
  OBVIOUS
<1>1. SchedulesOK /\ Sole
  BY SchedulesSound, InitFits DEF SchedulesInit, SchedulesOK
<1> QED
  BY <1>1 DEF SchedulesInit, EditingInit, SInv, Told

(* POST /bill-payment/schedules.                                           *)
LEMMA CreateScheduleStep ==
    ASSUME SInv, NEW i \in Ids, NEW a \in Owners, NEW t \in Types,
           NEW f \in {"MONTHLY", Null}, CreateSchedule(i, a, t, f)
    PROVE  SInv'
<1> DEFINE row == [owner |-> a, frequency |-> f, status |-> "ACTIVE", active |-> TRUE]
<1>1. row \in Schedule /\ Insert(i, row) /\ answered' = answered
  BY DEF CreateSchedule, Schedule
<1>2. SchedulesOK'
  BY <1>1, InsertFits, SchedulesSound DEF SInv, SchedulesOK
<1>3. /\ UNCHANGED <<pc, op, at, entity, cols, raced>> /\ rows[i] = NoRow
      /\ rows' = [rows EXCEPT ![i] = row]
  BY <1>1 DEF Insert, locals
<1>4. \A h \in Handlers : pc[h] # "idle" => at[h] \in Ids /\ at[h] # i
  BY <1>3 DEF SInv, SchedulesOK, EditingOK
<1>5. \A h \in Handlers : pc[h] # "idle" => rows'[at[h]] = rows[at[h]]
  BY <1>3, <1>4 DEF SInv, SchedulesOK, EditingOK
<1>6. ASSUME NEW h \in Handlers, pc'[h] # "idle", at'[h] \notin raced'
      PROVE  Knows(h)'
  <2>1. Knows(h) /\ rows'[at'[h]] = rows[at[h]]
    BY <1>3, <1>5, <1>6 DEF SInv
  <2> QED
    BY <1>3, <2>1 DEF Knows
<1>7. ASSUME NEW j \in Ids, j \notin raced'
      PROVE  Told(j)'
  <2>1. Told(j) /\ answered'[j] = answered[j]
    BY <1>1, <1>3, <1>7 DEF SInv
  <2>2. CASE j # i
    BY <1>3, <2>1, <2>2 DEF Told
  <2>3. CASE j = i
    <3>1. rows'[i] = row /\ answered[i] = Null /\ row # NoRow
      BY <1>1, <1>3, <2>1, <2>3, SchedulesAssumption DEF SInv, SchedulesOK, EditingOK, Told
    <3>2. Outcome(Null) = "ACTIVE"
      BY SchedulesAssumption DEF Outcome, ScheduleOps
    <3> QED
      BY <2>1, <2>3, <3>1, <3>2 DEF Told
  <2> QED
    BY <2>2, <2>3
<1> QED
  BY <1>2, <1>3, <1>6, <1>7 DEF SInv, Sole

(* A request that is let in to change a schedule.                          *)
LEMMA ChangeStep ==
    ASSUME SInv, NEW h \in Handlers, NEW i \in Ids, NEW a \in Owners,
           Pause(h, i, a) \/ ResumeSchedule(h, i, a) \/ Cancel(h, i, a)
    PROVE  SInv'
<1>1. PICK o \in ScheduleOps, from \in SUBSET {"ACTIVE", "PAUSED"} :
         /\ Change(h, o, i, a, from, Outcome(o))
         /\ \A s \in from : <<s, Outcome(o)>> \in Legal
  <2>1. CASE Pause(h, i, a)
    BY <2>1 DEF Pause, ScheduleOps, Outcome, Legal
  <2>2. CASE ResumeSchedule(h, i, a)
    BY <2>2 DEF ResumeSchedule, ScheduleOps, Outcome, Legal
  <2>3. CASE Cancel(h, i, a)
    BY <2>3 DEF Cancel, ScheduleOps, Outcome, Legal
  <2> QED
    BY <2>1, <2>2, <2>3
<1> DEFINE copy == [rows[i] EXCEPT !.status = Outcome(o), !.active = (Outcome(o) = "ACTIVE")]
<1>2. /\ Begin(h, o, i, copy, "reload") /\ answered' = answered
      /\ rows[i] # NoRow /\ rows[i] \in Schedule
      /\ <<rows[i].status, Outcome(o)>> \in Legal
  BY <1>1 DEF Change, Owned, SInv, SchedulesOK, EditingOK
<1>3. Outcome(o) \in {"ACTIVE", "PAUSED", "CANCELLED"}
  BY DEF Outcome
<1>4. copy \in Schedule
  BY <1>2, <1>3 DEF Schedule
<1>5. SchedulesOK'
  BY <1>2, <1>4, BeginFits, SchedulesSound DEF SInv, SchedulesOK, SchedulePcs
<1>6. Sole' /\ (i \notin raced' => \A g \in Handlers : at[g] # i)
  BY <1>2, SoleBegins DEF SInv, SchedulesOK
<1>7. /\ rows' = rows /\ raced \subseteq raced'
      /\ pc' = [pc EXCEPT ![h] = "reload"] /\ op' = [op EXCEPT ![h] = o]
      /\ at' = [at EXCEPT ![h] = i] /\ entity' = [entity EXCEPT ![h] = copy]
      /\ cols' = cols
  BY <1>2 DEF Begin
<1> HIDE DEF copy
<1>8. ASSUME NEW g \in Handlers, pc'[g] # "idle", at'[g] \notin raced'
      PROVE  Knows(g)'
  <2>1. CASE g = h
    <3>1. /\ pc'[h] = "reload" /\ op'[h] = o /\ at'[h] = i /\ entity'[h] = copy
      BY <1>7 DEF SInv, SchedulesOK, EditingOK
    <3> QED
      BY <1>2, <1>7, <2>1, <3>1 DEF Knows, copy
  <2>2. CASE g # h
    <3>1. /\ pc'[g] = pc[g] /\ op'[g] = op[g] /\ at'[g] = at[g]
          /\ entity'[g] = entity[g] /\ cols'[g] = cols[g]
      BY <1>7, <2>2 DEF SInv, SchedulesOK, EditingOK
    <3>2. Knows(g)
      BY <1>7, <1>8, <3>1 DEF SInv
    <3> QED
      BY <1>7, <3>1, <3>2 DEF Knows
  <2> QED
    BY <2>1, <2>2
<1>9. ASSUME NEW j \in Ids, j \notin raced'
      PROVE  Told(j)'
  BY <1>2, <1>7, <1>9 DEF SInv, Told
<1> QED
  BY <1>5, <1>6, <1>8, <1>9 DEF SInv

(* What the other handlers, and the other rows, keep of the invariant when *)
(* handler h goes on, or ends, having written its own row at most.         *)
LEMMA OthersKept ==
    ASSUME SInv, NEW h \in Handlers, NEW i \in Ids, at[h] = i,
           pc[h] # "idle", raced' = raced, SchedulesOK',
           pc' = [pc EXCEPT ![h] = pc'[h]], op' = [op EXCEPT ![h] = op'[h]],
           at' = [at EXCEPT ![h] = at'[h]], entity' = [entity EXCEPT ![h] = entity'[h]],
           cols' = [cols EXCEPT ![h] = cols'[h]], at'[h] \in {at[h], Null},
           rows' = [rows EXCEPT ![at[h]] = rows'[at[h]]],
           answered' = [answered EXCEPT ![at[h]] = answered'[at[h]]],
           pc'[h] # "idle" /\ at'[h] \notin raced => Knows(h)',
           i \notin raced => Told(i)'
    PROVE  SInv'
<1>1. at[h] \in Ids /\ at[h] # Null
  BY SchedulesAssumption DEF SInv, SchedulesOK, EditingOK
<1>2. Sole'
  BY <1>1 DEF SInv, SchedulesOK, EditingOK, Sole
<1>3. ASSUME NEW g \in Handlers, pc'[g] # "idle", at'[g] \notin raced'
      PROVE  Knows(g)'
  <2>1. CASE g = h
    BY <1>3, <2>1
  <2>2. CASE g # h
    <3>1. /\ pc'[g] = pc[g] /\ op'[g] = op[g] /\ at'[g] = at[g]
          /\ entity'[g] = entity[g] /\ cols'[g] = cols[g]
      BY <2>2 DEF SInv, SchedulesOK, EditingOK
    <3>2. Knows(g) /\ at[g] \in Ids /\ at[g] # at[h]
      BY <1>1, <1>3, <2>2, <3>1, SchedulesAssumption
      DEF SInv, SchedulesOK, EditingOK, Sole
    <3>3. rows'[at[g]] = rows[at[g]]
      BY <3>2 DEF SInv, SchedulesOK, EditingOK
    <3> QED
      BY <3>1, <3>2, <3>3 DEF Knows
  <2> QED
    BY <2>1, <2>2
<1>4. ASSUME NEW j \in Ids, j \notin raced'
      PROVE  Told(j)'
  <2>1. CASE j = at[h]
    BY <1>4, <2>1
  <2>2. CASE j # at[h]
    <3>1. rows'[j] = rows[j] /\ answered'[j] = answered[j]
      BY <2>2 DEF SInv, SchedulesOK, EditingOK
    <3> QED
      BY <1>4, <3>1 DEF SInv, Told
  <2> QED
    BY <2>1, <2>2
<1> QED
  BY <1>2, <1>3, <1>4 DEF SInv

(* The second read of save(): a request nobody raced finds its status      *)
(* changed and does not answer yet.                                        *)
LEMMA ReloadScheduleStep ==
    ASSUME SInv, NEW h \in Handlers, ReloadSchedule(h)
    PROVE  SInv'
<1>1. /\ Reload(h, "idle") /\ Answer(h) /\ pc[h] = "reload" /\ raced' = raced
      /\ rows' = rows
  BY DEF ReloadSchedule, Reload
<1>2. at[h] \in Ids /\ op[h] \in ScheduleOps /\ rows[at[h]] \in Schedule
  BY <1>1 DEF SInv, SchedulesOK, EditingOK
<1>3. SchedulesOK'
  <2>1. EditingOK(Schedule, ScheduleOps, SchedulePcs)'
    BY <1>1, ReloadFits, SchedulesSound DEF SInv, SchedulesOK, SchedulePcs
  <2> QED
    BY <1>1, <1>2, <2>1 DEF SInv, SchedulesOK, Answer
<1>4. at[h] \notin raced =>
        /\ Diff(entity[h], rows[at[h]]) # {}
        /\ pc'[h] = "write" /\ cols'[h] = Diff(entity[h], rows[at[h]])
        /\ UNCHANGED <<op, at, entity, answered>>
  <2> SUFFICES ASSUME at[h] \notin raced
               PROVE  /\ Diff(entity[h], rows[at[h]]) # {}
                      /\ pc'[h] = "write" /\ cols'[h] = Diff(entity[h], rows[at[h]])
                      /\ UNCHANGED <<op, at, entity, answered>>
    OBVIOUS
  <2>1. Knows(h)
    BY <1>1 DEF SInv
  <2>2. entity[h].status # rows[at[h]].status /\ "status" \in DOMAIN rows[at[h]]
    BY <1>2, <2>1, LegalMoves DEF Knows, Schedule
  <2>3. Diff(entity[h], rows[at[h]]) # {}
    BY <2>2 DEF Diff
  <2> QED
    BY <1>1, <2>3 DEF Reload, Answer, SInv, SchedulesOK, EditingOK
<1>5. at[h] \notin raced => Knows(h)' /\ \A i \in {at[h]} : Told(i)'
  <2>1. at[h] \notin raced => Knows(h) /\ Told(at[h])
    BY <1>1, <1>2 DEF SInv
  <2> QED
    BY <1>1, <1>4, <2>1 DEF Knows, Told
<1>6. /\ pc' = [pc EXCEPT ![h] = pc'[h]] /\ op' = [op EXCEPT ![h] = op'[h]]
      /\ at' = [at EXCEPT ![h] = at'[h]] /\ entity' = [entity EXCEPT ![h] = entity'[h]]
      /\ cols' = [cols EXCEPT ![h] = cols'[h]] /\ at'[h] \in {at[h], Null}
      /\ pc'[h] # "idle" => at'[h] = at[h]
  <2>1. CASE Resume(h, "idle")
    BY <2>1 DEF Resume, Finish, SInv, SchedulesOK, EditingOK
  <2>2. CASE pc' = [pc EXCEPT ![h] = "write"]
             /\ cols' = [cols EXCEPT ![h] = Diff(entity[h], rows[at[h]])]
             /\ UNCHANGED <<op, at, entity>>
    BY <2>2 DEF SInv, SchedulesOK, EditingOK
  <2> QED
    BY <1>1, <2>1, <2>2 DEF Reload
<1>7. answered' = [answered EXCEPT ![at[h]] = answered'[at[h]]]
  BY <1>1, <1>2 DEF Answer, SInv, SchedulesOK
<1> QED
  BY <1>1, <1>2, <1>3, <1>5, <1>6, <1>7, OthersKept DEF SInv, SchedulesOK, EditingOK

(* The UPDATE of save(): the row of a request nobody raced becomes its     *)
(* entity.                                                                 *)
LEMMA WriteScheduleStep ==
    ASSUME SInv, NEW h \in Handlers, WriteSchedule(h)
    PROVE  /\ SInv'
           /\ rows' = [rows EXCEPT ![at[h]] = rows'[at[h]]]
           /\ at[h] \notin raced => rows'[at[h]] = entity[h] /\ Knows(h)
<1>1. /\ Write(h, "idle") /\ Answer(h) /\ pc[h] = "write" /\ raced' = raced
      /\ rows' = [rows EXCEPT ![at[h]] = Patch(@, entity[h], cols[h])]
      /\ Finish(h)
  BY DEF WriteSchedule, Write, Resume
<1>2. /\ at[h] \in Ids /\ op[h] \in ScheduleOps /\ rows[at[h]] \in Schedule
      /\ rows[at[h]] # NoRow /\ entity[h] \in Schedule
  BY <1>1 DEF SInv, SchedulesOK, EditingOK
<1>3. SchedulesOK'
  <2>1. EditingOK(Schedule, ScheduleOps, SchedulePcs)'
    BY <1>1, WriteFits, SchedulesSound DEF SInv, SchedulesOK, SchedulePcs
  <2> QED
    BY <1>1, <1>2, <2>1 DEF SInv, SchedulesOK, Answer
<1>4. /\ pc' = [pc EXCEPT ![h] = pc'[h]] /\ op' = [op EXCEPT ![h] = op'[h]]
      /\ at' = [at EXCEPT ![h] = at'[h]] /\ entity' = [entity EXCEPT ![h] = entity'[h]]
      /\ cols' = [cols EXCEPT ![h] = cols'[h]] /\ at'[h] = Null /\ pc'[h] = "idle"
  BY <1>1 DEF Finish, SInv, SchedulesOK, EditingOK
<1>5. /\ answered' = [answered EXCEPT ![at[h]] = answered'[at[h]]]
      /\ answered'[at[h]] = op[h]
  BY <1>1, <1>2, <1>4 DEF Answer, SInv, SchedulesOK
<1>6. at[h] \notin raced => rows'[at[h]] = entity[h] /\ Knows(h)
  <2> SUFFICES ASSUME at[h] \notin raced
               PROVE  rows'[at[h]] = entity[h] /\ Knows(h)
    OBVIOUS
  <2>1. Knows(h)
    BY <1>1 DEF SInv
  <2>2. rows'[at[h]] = Patch(rows[at[h]], entity[h], Diff(entity[h], rows[at[h]]))
    BY <1>1, <1>2, <2>1 DEF Knows, SInv, SchedulesOK, EditingOK
  <2> QED
    BY <1>2, <2>1, <2>2, PatchSchedule
<1>7. ASSUME NEW i \in {at[h]}, i \notin raced
      PROVE  Told(i)'
  <2>1. rows'[at[h]].status = Outcome(op[h]) /\ rows'[at[h]] # NoRow
        /\ (rows'[at[h]].active <=> Outcome(op[h]) = "ACTIVE")
    BY <1>2, <1>6, <1>7, SchedulesAssumption DEF Knows, Schedule
  <2> QED
    BY <1>5, <1>7, <2>1 DEF Told
<1>8. rows' = [rows EXCEPT ![at[h]] = rows'[at[h]]]
  BY <1>1, <1>2 DEF SInv, SchedulesOK, EditingOK
<1>9. SInv'
  BY <1>1, <1>2, <1>3, <1>4, <1>5, <1>7, <1>8, OthersKept
<1> QED
  BY <1>6, <1>8, <1>9

(* An await that rejects leaves the row as it was.                         *)
LEMMA ScheduleRejectsStep ==
    ASSUME SInv, NEW h \in Handlers, ScheduleRejects(h)
    PROVE  SInv'
<1>1. /\ Rejects(h) /\ pc[h] # "idle" /\ raced' = raced /\ rows' = rows
      /\ Finish(h) /\ answered' = answered
  BY DEF ScheduleRejects, Rejects
<1>2. SchedulesOK'
  BY <1>1, RejectsFits, SchedulesSound DEF SInv, SchedulesOK
<1>3. /\ pc' = [pc EXCEPT ![h] = pc'[h]] /\ op' = [op EXCEPT ![h] = op'[h]]
      /\ at' = [at EXCEPT ![h] = at'[h]] /\ entity' = [entity EXCEPT ![h] = entity'[h]]
      /\ cols' = [cols EXCEPT ![h] = cols'[h]] /\ at'[h] = Null /\ pc'[h] = "idle"
  BY <1>1 DEF Finish, SInv, SchedulesOK, EditingOK
<1>4. at[h] \in Ids /\ \A i \in {at[h]} : i \notin raced => Told(i)'
  BY <1>1 DEF SInv, SchedulesOK, EditingOK, Told
<1> QED
  BY <1>1, <1>2, <1>3, <1>4, OthersKept DEF SInv, SchedulesOK, EditingOK

(* A step of nothing.                                                      *)
LEMMA SchedulesUnchanged ==
    ASSUME SInv, UNCHANGED schedules
    PROVE  SInv'
<1>1. UNCHANGED <<rows, pc, op, at, entity, cols, raced, answered>>
  BY DEF schedules
<1>2. SchedulesOK' /\ Sole'
  BY <1>1 DEF SInv, SchedulesOK, EditingOK, Sole
<1>3. \A h \in Handlers : pc'[h] # "idle" /\ at'[h] \notin raced' => Knows(h)'
  BY <1>1 DEF SInv, Knows
<1> QED
  BY <1>1, <1>2, <1>3 DEF SInv, Told

-----------------------------------------------------------------------------
(* Every step keeps the invariant.                                         *)
LEMMA SchedulesStepHolds == SInv /\ [SchedulesNext]_schedules => SInv'
<1> SUFFICES ASSUME SInv, [SchedulesNext]_schedules PROVE SInv'
  OBVIOUS
<1>1. CASE \E i \in Ids, a \in Owners : \E t \in Types, f \in {"MONTHLY", Null} :
             CreateSchedule(i, a, t, f)
  BY <1>1, CreateScheduleStep
<1>2. CASE \E i \in Ids, a \in Owners : \E h \in Handlers :
             Pause(h, i, a) \/ ResumeSchedule(h, i, a) \/ Cancel(h, i, a)
  BY <1>2, ChangeStep
<1>3. CASE \E h \in Handlers : ReloadSchedule(h) \/ WriteSchedule(h) \/ ScheduleRejects(h)
  BY <1>3, ReloadScheduleStep, WriteScheduleStep, ScheduleRejectsStep
<1>4. CASE UNCHANGED schedules
  BY <1>4, SchedulesUnchanged
<1> QED
  BY <1>1, <1>2, <1>3, <1>4 DEF SchedulesNext

LEMMA SchedulesInductive == SchedulesSpec => []SInv
  BY SchedulesInitHolds, SchedulesStepHolds, PTL DEF SchedulesSpec

(* The last answered request of a schedule is what `status` and `active`   *)
(* show, unless requests for it overlap: pauseSchedule, resumeSchedule and *)
(* cancelSchedule save both together, and a failed one neither.            *)
THEOREM LastAnswerHolds == SchedulesSpec => []LastAnswerStands
<1>1. SInv => LastAnswerStands
  BY DEF SInv, Told, LastAnswerStands
<1> QED
  BY <1>1, SchedulesInductive, PTL

(* Statuses follow the transitions the three methods check for, unless     *)
(* requests overlap; nothing follows CANCELLED.                            *)
THEOREM LifecycleHolds == SchedulesSpec => LifecycleKept
<1>1. SInv /\ [SchedulesNext]_schedules =>
        [\A i \in Ids \ raced' : rows[i] # NoRow /\ rows'[i] # rows[i] =>
            /\ <<rows[i].status, rows'[i].status>> \in Legal
            /\ rows'[i].owner = rows[i].owner /\ rows'[i].frequency = rows[i].frequency
        ]_schedules
  <2> SUFFICES ASSUME SInv, SchedulesNext, NEW i \in Ids, i \notin raced', rows[i] # NoRow,
                      rows'[i] # rows[i]
               PROVE  /\ <<rows[i].status, rows'[i].status>> \in Legal
                      /\ rows'[i].owner = rows[i].owner
                      /\ rows'[i].frequency = rows[i].frequency
    OBVIOUS
  <2>1. PICK h \in Handlers : WriteSchedule(h)
    BY DEF SchedulesNext, CreateSchedule, Insert, Pause, ResumeSchedule, Cancel, Change, Begin,
           ReloadSchedule, Reload, ScheduleRejects, Rejects, SInv, SchedulesOK, EditingOK
  <2>2. /\ rows' = [rows EXCEPT ![at[h]] = rows'[at[h]]] /\ raced' = raced
        /\ at[h] \notin raced => rows'[at[h]] = entity[h] /\ Knows(h)
    BY <2>1, WriteScheduleStep DEF WriteSchedule, Write
  <2>3. i = at[h] /\ rows[i] \in Schedule
    BY <2>2 DEF SInv, SchedulesOK, EditingOK
  <2> QED
    BY <2>2, <2>3 DEF Knows, Schedule
<1> QED
  BY <1>1, SchedulesInductive, PTL DEF SchedulesSpec, LifecycleKept

=============================================================================
