---------------------------- MODULE OutboxProofs ----------------------------
(***************************************************************************)
(* Theorems about Outbox: what the status of a row says, for any number of *)
(* rows, overlapping ticks, attempts, retries, failing saves and crashes.  *)
(***************************************************************************)
EXTENDS Outbox, TLAPS

(* A row, or a copy of it, has no more attempts than failures, and says    *)
(* how it ended only when it ended so.                                     *)
Earned(row, e) ==
    /\ row.attempts <= failures[e] \/ failures[e] = MaxAttempts
    /\ row.status = "SENT" => e \in delivered
    /\ row.status = "FAILED" => failures[e] = MaxAttempts

CopyHolds(c) ==
    rows[c.event] # NoRow /\ c.row.status = "PENDING" /\ Earned(c.row, c.event)

AtRow == {"relay", "reload", "write"}

TickHolds(t) ==
    /\ \A c \in left[t] : CopyHolds(c)
    /\ pc[t] = "idle" => left[t] = {}
    /\ pc[t] \in AtRow => copy[t] # Null /\ CopyHolds(copy[t])
    /\ pc[t] \in {"reload", "write"} =>
          /\ entity[t] # NoRow /\ Earned(entity[t], copy[t].event)
          /\ entity[t].attempts >= copy[t].row.attempts

RowHolds(e) ==
    failures[e] <= MaxAttempts /\ (rows[e] # NoRow => Earned(rows[e], e))

(* A tick that no other overlaps has the rows themselves in its hands.     *)
Current(t) ==
    /\ \A c \in left[t] : rows[c.event] = c.row
    /\ pc[t] \in AtRow => rows[copy[t].event] = copy[t].row /\ copy[t] \notin left[t]

Alone ==
    ~overlapped =>
        /\ \A t, u \in Ticks : pc[t] # "idle" /\ pc[u] # "idle" => t = u
        /\ \A t \in Ticks : Current(t)

BInv ==
    /\ TypeOK
    /\ \A e \in Events : RowHolds(e)
    /\ \A t \in Ticks : TickHolds(t)
    /\ Alone

-----------------------------------------------------------------------------
(* An UPDATE leaves each column the row's or the entity's.                 *)
LEMMA PatchRow ==
    ASSUME NEW row \in Row, NEW saved \in Row, NEW columns
    PROVE  /\ Patch(row, saved, columns) \in Row
           /\ Patch(row, saved, columns).status \in {row.status, saved.status}
           /\ Patch(row, saved, columns).attempts \in {row.attempts, saved.attempts}
  BY DEF Patch, Row

(* No step takes back a delivery, a failure or a row.                      *)
Grows ==
    /\ delivered \subseteq delivered'
    /\ \A e \in Events : /\ failures'[e] >= failures[e] /\ failures'[e] <= MaxAttempts
                         /\ rows[e] # NoRow => rows'[e] # NoRow

(* So what has been earned stays earned.                                   *)
LEMMA EarnedStays ==
    ASSUME TypeOK, TypeOK', Grows, NEW e \in Events, NEW row \in Row, Earned(row, e)
    PROVE  Earned(row, e)'
<1>1. /\ failures[e] \in Nat /\ failures'[e] \in Nat /\ row.attempts \in Nat
      /\ MaxAttempts \in Nat
  BY OutboxAssumption DEF TypeOK, Row
<1> QED
  BY <1>1 DEF Grows, Earned

LEMMA CopyStays ==
    ASSUME TypeOK, TypeOK', Grows, NEW c \in Copy, CopyHolds(c)
    PROVE  CopyHolds(c)'
<1>1. c.event \in Events /\ c.row \in Row
  BY DEF Copy
<1> QED
  BY <1>1, EarnedStays DEF CopyHolds, Grows

(* A tick whose locals a step does not change keeps its part.              *)
LEMMA OthersKept ==
    ASSUME BInv, TypeOK', Grows, NEW t \in Ticks,
           pc'[t] = pc[t], left'[t] = left[t], copy'[t] = copy[t],
           entity'[t] = entity[t]
    PROVE  TickHolds(t)'
<1>1. left[t] \subseteq Copy /\ TickHolds(t)
  BY DEF BInv, TypeOK
<1>2. pc[t] \in AtRow => copy[t] \in Copy /\ copy[t].event \in Events
  BY <1>1 DEF BInv, TypeOK, TickHolds, Copy
<1>3. pc[t] \in {"reload", "write"} => entity[t] \in Row
  BY <1>1 DEF BInv, TypeOK, TickHolds
<1>4. \A c \in left[t] : CopyHolds(c)'
  BY <1>1, CopyStays DEF BInv, TickHolds
<1>5. pc[t] \in AtRow => CopyHolds(copy[t])'
  <2> SUFFICES ASSUME pc[t] \in AtRow PROVE CopyHolds(copy[t])'
    OBVIOUS
  <2> DEFINE c == copy[t]
  <2>1. c \in Copy /\ CopyHolds(c) /\ copy'[t] = c
    BY <1>1, <1>2 DEF TickHolds
  <2> HIDE DEF c
  <2>2. PICK d \in Copy : d = c
    BY <2>1
  <2>3. CopyHolds(d)'
    BY <2>1, <2>2, CopyStays DEF BInv
  <2> QED
    BY <2>1, <2>2, <2>3 DEF c, CopyHolds, Earned
<1>6. pc[t] \in {"reload", "write"} => Earned(entity[t], copy[t].event)'
  <2> SUFFICES ASSUME pc[t] \in {"reload", "write"}
               PROVE  Earned(entity[t], copy[t].event)'
    OBVIOUS
  <2>1. PICK e \in Events, row \in Row : e = copy[t].event /\ row = entity[t]
    BY <1>2, <1>3 DEF AtRow
  <2>2. Earned(row, e)'
    BY <1>1, <2>1, EarnedStays DEF BInv, TickHolds
  <2> QED
    BY <2>1, <2>2 DEF Earned
<1> QED
  BY <1>1, <1>4, <1>5, <1>6 DEF TickHolds, AtRow, CopyHolds, Earned

(* Before the first event.                                                 *)
LEMMA InitHolds == Init => BInv
<1> SUFFICES ASSUME Init PROVE BInv
  OBVIOUS
<1>1. TypeOK
  BY OutboxAssumption DEF Init, TypeOK, Breakers, Pcs
<1>2. \A e \in Events : RowHolds(e)
  BY OutboxAssumption DEF Init, RowHolds
<1>3. \A t \in Ticks : TickHolds(t) /\ Current(t)
  BY DEF Init, TickHolds, Current, AtRow
<1>4. Alone
  BY <1>3 DEF Init, Alone
<1> QED
  BY <1>1, <1>2, <1>3, <1>4 DEF BInv

(* A step of one tick that leaves the table alone, or not.                 *)
OnlyTick(t) ==
    /\ pc' = [pc EXCEPT ![t] = pc'[t]] /\ left' = [left EXCEPT ![t] = left'[t]]
    /\ copy' = [copy EXCEPT ![t] = copy'[t]]
    /\ entity' = [entity EXCEPT ![t] = entity'[t]]

LEMMA Untouched ==
    ASSUME TypeOK, NEW t \in Ticks, NEW u \in Ticks \ {t}, OnlyTick(t)
    PROVE  /\ pc'[u] = pc[u] /\ left'[u] = left[u] /\ copy'[u] = copy[u]
           /\ entity'[u] = entity[u]
  BY DEF TypeOK, OnlyTick

LEMMA RowsStay ==
    ASSUME BInv, TypeOK', Grows, rows' = rows, NEW e \in Events
    PROVE  RowHolds(e)'
<1>1. RowHolds(e) /\ (rows[e] # NoRow => rows[e] \in Row)
  BY DEF BInv, TypeOK
<1>2. rows[e] # NoRow => Earned(rows[e], e)'
  <2> SUFFICES ASSUME rows[e] # NoRow PROVE Earned(rows[e], e)'
    OBVIOUS
  <2>1. PICK row \in Row : row = rows[e]
    BY <1>1
  <2>2. Earned(row, e)'
    BY <1>1, <2>1, EarnedStays DEF BInv, RowHolds
  <2> QED
    BY <2>1, <2>2 DEF Earned
<1> QED
  BY <1>1, <1>2 DEF RowHolds, Grows, Earned

LEMMA Assembled ==
    ASSUME BInv, TypeOK', Grows, NEW t \in Ticks, OnlyTick(t), pc[t] # "idle",
           overlapped' = overlapped, \A e \in Events : RowHolds(e)', TickHolds(t)',
           ~overlapped => Current(t)'
    PROVE  BInv'
<1>1. ASSUME NEW u \in Ticks PROVE TickHolds(u)'
  BY Untouched, OthersKept DEF BInv
<1>2. Alone'
  <2> SUFFICES ASSUME ~overlapped
               PROVE  /\ \A u, v \in Ticks : pc'[u] # "idle" /\ pc'[v] # "idle" => u = v
                      /\ \A u \in Ticks : Current(u)'
    BY DEF Alone
  <2>1. \A u \in Ticks \ {t} : pc'[u] = "idle" /\ left'[u] = {}
    BY Untouched DEF BInv, Alone, TickHolds
  <2> QED
    BY <2>1 DEF Current, AtRow
<1> QED
  BY <1>1, <1>2 DEF BInv

-----------------------------------------------------------------------------
(* Whatever has an event to record writes its row.                         *)
LEMMA AppendStep ==
    ASSUME BInv, NEW e \in Events, Append(e)
    PROVE  BInv'
<1> DEFINE row == [status |-> "PENDING", attempts |-> 0]
<1>1. /\ rows[e] = NoRow /\ rows' = [rows EXCEPT ![e] = row]
      /\ UNCHANGED <<breaker, pc, left, copy, tries, entity, cols, delivered,
                     failures, overlapped, failed>>
  BY DEF Append, ticking, history
<1>2. row \in Row /\ row # NoRow /\ row.attempts = 0 /\ row.status = "PENDING"
  BY OutboxAssumption DEF Row
<1> HIDE DEF row
<1>3. TypeOK'
  BY <1>1, <1>2 DEF BInv, TypeOK
<1>4. Grows
  BY <1>1, <1>2 DEF Grows, BInv, TypeOK, RowHolds
<1>5. \A t \in Ticks : TickHolds(t)'
  BY <1>1, <1>3, <1>4, OthersKept
<1>6. ASSUME NEW d \in Events PROVE RowHolds(d)'
  <2>1. RowHolds(d) /\ failures[d] \in Nat
    BY DEF BInv, TypeOK
  <2>2. rows'[d] = IF d = e THEN row ELSE rows[d]
    BY <1>1 DEF BInv, TypeOK
  <2> QED
    BY <1>1, <1>2, <2>1, <2>2 DEF RowHolds, Earned
<1>7. ASSUME ~overlapped, NEW t \in Ticks PROVE Current(t)'
  <2>1. Current(t) /\ TickHolds(t) /\ left[t] \subseteq Copy
        /\ (pc[t] \in AtRow => copy[t] \in Copy)
    BY <1>7 DEF BInv, Alone, TypeOK, TickHolds
  <2>2. \A c \in Copy : CopyHolds(c) => rows'[c.event] = rows[c.event]
    BY <1>1 DEF CopyHolds, Copy, BInv, TypeOK
  <2> QED
    BY <1>1, <2>1, <2>2 DEF Current, TickHolds
<1>8. Alone'
  BY <1>1, <1>7 DEF BInv, Alone
<1> QED
  BY <1>3, <1>5, <1>6, <1>8 DEF BInv

(* Cron: a tick finds what is pending.                                     *)
LEMMA TickStep ==
    ASSUME BInv, NEW t \in Ticks, Tick(t)
    PROVE  BInv'
<1> DEFINE found == {[event |-> e, row |-> rows[e]] : e \in Pending}
<1>1. /\ pc[t] = "idle" /\ pc' = [pc EXCEPT ![t] = "loop"]
      /\ left' = [left EXCEPT ![t] = found]
      /\ overlapped' = (overlapped \/ \E u \in Ticks : pc[u] # "idle")
      /\ UNCHANGED <<rows, breaker, copy, tries, entity, cols, delivered, failures, failed>>
  BY DEF Tick
<1>2. \A c \in found : /\ c \in Copy /\ rows[c.event] = c.row
                       /\ c.row # NoRow /\ c.row.status = "PENDING"
  BY DEF Pending, BInv, TypeOK, Copy
<1> HIDE DEF found
<1>3. TypeOK'
  BY <1>1, <1>2 DEF BInv, TypeOK, Pcs
<1>4. Grows
  BY <1>1 DEF Grows, BInv, TypeOK, RowHolds
<1>5. \A e \in Events : RowHolds(e)'
  BY <1>1, <1>3, <1>4, RowsStay
<1>6. /\ pc'[t] = "loop" /\ left'[t] = found
      /\ \A u \in Ticks \ {t} : /\ pc'[u] = pc[u] /\ left'[u] = left[u]
                                /\ copy'[u] = copy[u] /\ entity'[u] = entity[u]
  BY <1>1 DEF BInv, TypeOK
<1>7. TickHolds(t)'
  <2>1. \A c \in found : CopyHolds(c)'
    BY <1>1, <1>2 DEF CopyHolds, Earned, BInv, RowHolds, Copy
  <2> QED
    BY <1>6, <2>1 DEF TickHolds, AtRow
<1>8. \A u \in Ticks : TickHolds(u)'
  BY <1>3, <1>4, <1>6, <1>7, OthersKept
<1>9. Alone'
  <2> SUFFICES ASSUME ~overlapped'
               PROVE  /\ \A u, v \in Ticks : pc'[u] # "idle" /\ pc'[v] # "idle" => u = v
                      /\ \A u \in Ticks : Current(u)'
    BY DEF Alone
  <2>1. \A u \in Ticks \ {t} : pc'[u] = "idle" /\ left'[u] = {}
    BY <1>1, <1>6 DEF BInv, TickHolds
  <2> QED
    BY <1>1, <1>2, <1>6, <2>1 DEF Current, AtRow
<1> QED
  BY <1>3, <1>5, <1>8, <1>9 DEF BInv

-----------------------------------------------------------------------------
(* The catch block counts the failure before it saves the attempt.         *)
LEMMA CatchFacts ==
    ASSUME BInv, NEW t \in Ticks, NEW c \in Copy, CopyHolds(c), Catch(t, c)
    PROVE  /\ pc' = [pc EXCEPT ![t] = "reload"] /\ tries' = [tries EXCEPT ![t] = 0]
           /\ cols' = [cols EXCEPT ![t] = {}]
           /\ failures' \in [Events -> Nat]
           /\ \A e \in Events : failures'[e] >= failures[e] /\ failures'[e] <= MaxAttempts
           /\ \E row \in Row :
                 /\ entity' = [entity EXCEPT ![t] = row] /\ row # NoRow
                 /\ row.attempts >= c.row.attempts /\ Earned(row, c.event)'
<1> DEFINE n == c.row.attempts + 1
           e == c.event
           row == [status |-> IF GiveUp(n) THEN "FAILED" ELSE "PENDING", attempts |-> n]
           count == IF failures[e] < MaxAttempts THEN failures[e] + 1 ELSE failures[e]
<1>1. /\ pc' = [pc EXCEPT ![t] = "reload"] /\ entity' = [entity EXCEPT ![t] = row]
      /\ tries' = [tries EXCEPT ![t] = 0] /\ cols' = [cols EXCEPT ![t] = {}]
  BY DEF Catch, Save
<1>2. failures' = [failures EXCEPT ![e] = count]
  BY DEF Catch
<1>3. /\ e \in Events /\ c.row.attempts \in Nat /\ failures \in [Events -> Nat]
      /\ MaxAttempts \in Nat /\ \A d \in Events : failures[d] <= MaxAttempts
      /\ c.row.attempts <= failures[e] \/ failures[e] = MaxAttempts
  BY OutboxAssumption DEF Copy, Row, BInv, TypeOK, RowHolds, CopyHolds, Earned
<1>4. /\ row \in Row /\ row # NoRow /\ row.attempts = n /\ row.status # "SENT"
      /\ row.status = "FAILED" => n >= MaxAttempts
  <2>1. row \in Row
    BY <1>3 DEF Row
  <2> QED
    BY <2>1, OutboxAssumption DEF GiveUp
<1>5. /\ count \in Nat /\ count >= failures[e] /\ count <= MaxAttempts
      /\ n <= count \/ count = MaxAttempts
      /\ n >= MaxAttempts => count = MaxAttempts
      /\ n \in Nat /\ n >= c.row.attempts
  BY <1>3
<1> HIDE DEF n, row, count
<1>6. failures' \in [Events -> Nat] /\ failures'[e] = count
  BY <1>2, <1>3, <1>5
<1>7. \A d \in Events : failures'[d] >= failures[d] /\ failures'[d] <= MaxAttempts
  BY <1>2, <1>3, <1>5
<1>8. Earned(row, e)'
  BY <1>4, <1>5, <1>6 DEF Earned
<1> HIDE DEF e
<1>9. Earned(row, c.event)'
  BY <1>8 DEF e
<1> QED
  BY <1>1, <1>4, <1>5, <1>6, <1>7, <1>9

(* A step that ends in the catch block of a tick that was on its way.      *)
LEMMA CatchStep ==
    ASSUME BInv, NEW t \in Ticks, NEW c \in Copy, CopyHolds(c), Catch(t, c),
           pc[t] # "idle", rows' = rows, breaker' \in Breakers, failed' \in Nat,
           overlapped' = overlapped, delivered \subseteq delivered',
           delivered' \subseteq Events, copy' = [copy EXCEPT ![t] = c],
           left' = [left EXCEPT ![t] = left'[t]], left'[t] \subseteq left[t],
           ~overlapped => rows[c.event] = c.row /\ c \notin left'[t]
    PROVE  BInv'
<1>1. /\ pc' = [pc EXCEPT ![t] = "reload"] /\ tries' = [tries EXCEPT ![t] = 0]
      /\ cols' = [cols EXCEPT ![t] = {}] /\ failures' \in [Events -> Nat]
      /\ \A e \in Events : failures'[e] >= failures[e] /\ failures'[e] <= MaxAttempts
  BY CatchFacts
<1>2. PICK row \in Row : /\ entity' = [entity EXCEPT ![t] = row] /\ row # NoRow
                         /\ row.attempts >= c.row.attempts /\ Earned(row, c.event)'
  BY CatchFacts
<1>3. /\ pc'[t] = "reload" /\ copy'[t] = c /\ entity'[t] = row /\ c # Null
      /\ left[t] \subseteq Copy
  BY <1>1, <1>2, OutboxAssumption DEF BInv, TypeOK
<1>4. TypeOK'
  BY <1>1, <1>2, <1>3 DEF BInv, TypeOK, Pcs
<1>5. Grows /\ OnlyTick(t)
  BY <1>1, <1>2, <1>3 DEF Grows, OnlyTick, BInv, TypeOK
<1>6. \A e \in Events : RowHolds(e)'
  BY <1>4, <1>5, RowsStay
<1>7. CopyHolds(c)' /\ \A d \in left'[t] : CopyHolds(d)'
  BY <1>3, <1>4, <1>5, CopyStays DEF BInv, TickHolds
<1>8. TickHolds(t)'
  BY <1>2, <1>3, <1>7 DEF TickHolds, AtRow, CopyHolds, Earned
<1>9. ~overlapped => Current(t)'
  BY <1>3 DEF Current, BInv, Alone, AtRow
<1> QED
  BY <1>4, <1>5, <1>6, <1>8, <1>9, Assembled

(* What a tick at a row holds.                                             *)
LEMMA AtRowFacts ==
    ASSUME BInv, NEW t \in Ticks, pc[t] \in AtRow
    PROVE  /\ copy[t] \in Copy /\ copy[t].event \in Events /\ copy[t].row \in Row
           /\ CopyHolds(copy[t]) /\ left[t] \subseteq Copy
           /\ copy = [copy EXCEPT ![t] = copy[t]] /\ left = [left EXCEPT ![t] = left[t]]
           /\ ~overlapped => rows[copy[t].event] = copy[t].row /\ copy[t] \notin left[t]
  BY DEF BInv, TypeOK, TickHolds, Alone, Current, Copy

(* The next row of the loop.                                               *)
LEMMA RelayStep ==
    ASSUME BInv, NEW t \in Ticks, Relay(t)
    PROVE  BInv'
<1>1. PICK c \in left[t] :
         /\ left' = [left EXCEPT ![t] = @ \ {c}] /\ copy' = [copy EXCEPT ![t] = c]
         /\ IF Configured /\ breaker \in {"closed", "halfOpen"}
            THEN /\ pc' = [pc EXCEPT ![t] = "relay"]
                 /\ breaker' = IF breaker = "halfOpen" THEN "trial" ELSE breaker
                 /\ UNCHANGED <<tries, entity, cols, failures>>
            ELSE Catch(t, c) /\ UNCHANGED breaker
  BY DEF Relay
<1>2. pc[t] = "loop" /\ UNCHANGED <<rows, delivered, overlapped, failed>>
  BY DEF Relay
<1>3. /\ c \in Copy /\ CopyHolds(c) /\ left'[t] = left[t] \ {c} /\ copy'[t] = c
      /\ left' = [left EXCEPT ![t] = left'[t]] /\ left[t] \subseteq Copy /\ c # Null
      /\ ~overlapped => rows[c.event] = c.row
  BY <1>1, OutboxAssumption DEF BInv, TypeOK, TickHolds, Alone, Current
<1>4. CASE Catch(t, c) /\ UNCHANGED breaker
  BY <1>1, <1>2, <1>3, <1>4, CatchStep DEF BInv, TypeOK
<1>5. CASE /\ pc' = [pc EXCEPT ![t] = "relay"]
           /\ breaker' = IF breaker = "halfOpen" THEN "trial" ELSE breaker
           /\ UNCHANGED <<tries, entity, cols, failures>>
  <2>1. TypeOK'
    <3>1. breaker' \in Breakers
      BY <1>5 DEF BInv, TypeOK, Breakers
    <3> QED
      BY <1>1, <1>2, <1>3, <1>5, <3>1 DEF BInv, TypeOK, Pcs
  <2>2. Grows /\ OnlyTick(t) /\ pc'[t] = "relay"
    BY <1>1, <1>2, <1>3, <1>5 DEF Grows, OnlyTick, BInv, TypeOK, RowHolds
  <2>3. \A e \in Events : RowHolds(e)'
    BY <1>2, <2>1, <2>2, RowsStay
  <2>4. CopyHolds(c)' /\ \A d \in left'[t] : CopyHolds(d)'
    BY <1>3, <2>1, <2>2, CopyStays DEF BInv, TickHolds
  <2>5. TickHolds(t)'
    BY <1>3, <2>2, <2>4 DEF TickHolds, AtRow, CopyHolds, Earned
  <2>6. ~overlapped => Current(t)'
    BY <1>2, <1>3, <2>2 DEF Current, BInv, Alone, AtRow
  <2> QED
    BY <1>2, <2>1, <2>2, <2>3, <2>5, <2>6, Assembled
<1> QED
  BY <1>1, <1>4, <1>5

(* The client's answer: delivered, and to be saved as SENT.                *)
LEMMA AnsweredStep ==
    ASSUME BInv, NEW t \in Ticks, Answered(t)
    PROVE  BInv'
<1> PICK c \in Copy : c = copy[t]
  BY AtRowFacts DEF Answered, AtRow
<1> DEFINE row == [c.row EXCEPT !.status = "SENT"]
<1>1. /\ pc[t] = "relay" /\ delivered' = delivered \cup {c.event}
      /\ pc' = [pc EXCEPT ![t] = "reload"] /\ entity' = [entity EXCEPT ![t] = row]
      /\ tries' = [tries EXCEPT ![t] = 0] /\ cols' = [cols EXCEPT ![t] = {}]
      /\ UNCHANGED <<rows, left, copy, failures, overlapped, failed>>
  BY DEF Answered, Save
<1>2. breaker' \in Breakers
  BY DEF Answered, Closes, BInv, TypeOK, Breakers
<1>3. /\ c.event \in Events /\ c.row \in Row /\ CopyHolds(c)
      /\ left[t] \subseteq Copy
      /\ copy = [copy EXCEPT ![t] = copy[t]] /\ left = [left EXCEPT ![t] = left[t]]
      /\ ~overlapped => rows[c.event] = c.row /\ c \notin left[t]
  BY <1>1, AtRowFacts DEF AtRow
<1>4. row \in Row /\ row.status = "SENT" /\ row.attempts = c.row.attempts
      /\ row # NoRow /\ row.attempts \in Nat
  BY <1>3, OutboxAssumption DEF Row
<1> HIDE DEF row
<1>5. TypeOK'
  BY <1>1, <1>2, <1>3, <1>4 DEF BInv, TypeOK, Pcs
<1>6. Grows /\ OnlyTick(t) /\ pc'[t] = "reload" /\ entity'[t] = row /\ copy'[t] = c
  BY <1>1, <1>3 DEF Grows, OnlyTick, BInv, TypeOK, RowHolds
<1>7. \A e \in Events : RowHolds(e)'
  BY <1>1, <1>5, <1>6, RowsStay
<1>8. \A d \in left[t] \cup {c} : CopyHolds(d)'
  BY <1>3, <1>5, <1>6, CopyStays DEF BInv, TickHolds
<1>9. Earned(row, c.event)'
  BY <1>1, <1>3, <1>4 DEF CopyHolds, Earned
<1>10. TickHolds(t)'
  BY <1>1, <1>3, <1>4, <1>6, <1>8, <1>9, OutboxAssumption
  DEF TickHolds, AtRow, CopyHolds, Earned
<1>11. ~overlapped => Current(t)'
  BY <1>1, <1>3, <1>6 DEF Current, BInv, Alone, AtRow
<1> QED
  BY <1>1, <1>5, <1>6, <1>7, <1>10, <1>11, Assembled

(* An attempt fails, or the breaker's timeout ends them all.               *)
LEMMA FailsStep ==
    ASSUME BInv, NEW t \in Ticks, AttemptFails(t) \/ TimesOut(t)
    PROVE  BInv'
<1>1. /\ pc[t] = "relay" /\ delivered' \in {delivered, delivered \cup {copy[t].event}}
      /\ UNCHANGED <<rows, left, copy, overlapped, failed>>
  BY DEF AttemptFails, TimesOut
<1>2. /\ copy[t] \in Copy /\ copy[t].event \in Events /\ copy[t].row \in Row
      /\ CopyHolds(copy[t]) /\ left[t] \subseteq Copy
      /\ copy = [copy EXCEPT ![t] = copy[t]] /\ left = [left EXCEPT ![t] = left[t]]
      /\ ~overlapped => rows[copy[t].event] = copy[t].row /\ copy[t] \notin left[t]
  BY <1>1, AtRowFacts DEF AtRow
<1>3. CASE Catch(t, copy[t]) /\ Opens
  <2>1. breaker' \in Breakers
    BY <1>3 DEF Opens, BInv, TypeOK, Breakers
  <2>2. delivered \subseteq delivered' /\ delivered' \subseteq Events /\ failed' \in Nat
    BY <1>1, <1>2 DEF BInv, TypeOK
  <2> QED
    BY <1>1, <1>2, <1>3, <2>1, <2>2, CatchStep
<1>4. CASE /\ tries' = [tries EXCEPT ![t] = @ + 1]
           /\ UNCHANGED <<pc, entity, cols, breaker, failures>>
  <2>1. TypeOK'
    BY <1>1, <1>2, <1>4 DEF BInv, TypeOK
  <2>2. Grows /\ OnlyTick(t)
    BY <1>1, <1>4 DEF Grows, OnlyTick, BInv, TypeOK, RowHolds
  <2>3. \A e \in Events : RowHolds(e)'
    BY <1>1, <2>1, <2>2, RowsStay
  <2>4. TickHolds(t)'
    BY <1>1, <1>4, <2>1, <2>2, OthersKept
  <2>5. ~overlapped => Current(t)'
    BY <1>1, <1>4 DEF Current, BInv, Alone
  <2> QED
    BY <1>1, <2>1, <2>2, <2>3, <2>4, <2>5, Assembled
<1> QED
  BY <1>3, <1>4 DEF AttemptFails, TimesOut

(* The breaker alone, or nothing, changes.                                 *)
LEMMA IdleStep ==
    ASSUME BInv, HalfOpen \/ UNCHANGED vars
    PROVE  BInv'
<1>1. /\ UNCHANGED <<rows, pc, left, copy, tries, entity, cols, delivered, failures,
                     overlapped, failed>>
      /\ breaker' \in Breakers
  BY DEF HalfOpen, vars, ticking, history, BInv, TypeOK, Breakers
<1>2. TypeOK' /\ Grows
  BY <1>1 DEF BInv, TypeOK, Grows, RowHolds
<1>3. \A e \in Events : RowHolds(e)'
  BY <1>1, <1>2, RowsStay
<1>4. \A t \in Ticks : TickHolds(t)'
  BY <1>1, <1>2, OthersKept
<1>5. Alone'
  BY <1>1 DEF BInv, Alone, Current
<1> QED
  BY <1>2, <1>3, <1>4, <1>5 DEF BInv

(* The save is through, and has written the tick's own row at most.        *)
LEMMA LoopOnStep ==
    ASSUME BInv, NEW t \in Ticks, pc[t] \in {"reload", "write"}, LoopOn(t),
           UNCHANGED <<breaker, delivered, failures, overlapped, failed>>,
           NEW new \in Row, rows' = [rows EXCEPT ![copy[t].event] = new],
           new.status \in {rows[copy[t].event].status, entity[t].status},
           new.attempts \in {rows[copy[t].event].attempts, entity[t].attempts}
    PROVE  BInv'
<1>1. PICK c \in Copy : c = copy[t]
  BY AtRowFacts DEF AtRow
<1>2. /\ c.event \in Events /\ c.row \in Row /\ CopyHolds(c) /\ left[t] \subseteq Copy
      /\ left = [left EXCEPT ![t] = left[t]]
      /\ ~overlapped => rows[c.event] = c.row /\ c \notin left[t]
  BY <1>1, AtRowFacts DEF AtRow
<1>3. /\ pc' = [pc EXCEPT ![t] = IF left[t] = {} THEN "idle" ELSE "loop"]
      /\ copy' = [copy EXCEPT ![t] = Null] /\ entity' = [entity EXCEPT ![t] = NoRow]
      /\ cols' = [cols EXCEPT ![t] = {}] /\ left' = left /\ tries' = tries
  BY DEF LoopOn
<1>4. pc'[t] \in {"idle", "loop"} /\ (pc'[t] = "idle" => left[t] = {})
      /\ copy'[t] = Null /\ entity'[t] = NoRow
      /\ pc' = [pc EXCEPT ![t] = pc'[t]]
  BY <1>3 DEF BInv, TypeOK
<1>5. new # NoRow
  BY OutboxAssumption
<1>6. TypeOK'
  BY <1>1, <1>2, <1>3, <1>4 DEF BInv, TypeOK, Pcs
<1>7. Grows /\ OnlyTick(t)
  BY <1>1, <1>2, <1>3, <1>4, <1>5 DEF Grows, OnlyTick, BInv, TypeOK, RowHolds
<1>8. \A e \in Events : rows'[e] = IF e = c.event THEN new ELSE rows[e]
  BY <1>1 DEF BInv, TypeOK
<1>9. Earned(new, c.event)
  <2>1. Earned(rows[c.event], c.event) /\ Earned(entity[t], c.event)
    BY <1>1, <1>2 DEF BInv, RowHolds, TickHolds, CopyHolds
  <2> QED
    BY <1>1, <2>1 DEF Earned
<1>10. ASSUME NEW e \in Events PROVE RowHolds(e)'
  BY <1>5, <1>8, <1>9 DEF BInv, RowHolds, Earned
<1>11. \A d \in left'[t] : CopyHolds(d)'
  BY <1>2, <1>3, <1>6, <1>7, CopyStays DEF BInv, TickHolds
<1>12. TickHolds(t)'
  BY <1>3, <1>4, <1>11 DEF TickHolds, AtRow
<1>13. ~overlapped => Current(t)'
  <2> SUFFICES ASSUME ~overlapped PROVE Current(t)'
    OBVIOUS
  <2>1. \A d \in left[t] : rows[d.event] = d.row /\ d \in Copy
    BY <1>2 DEF BInv, Alone, Current
  <2>2. \A d \in left[t] : d.event # c.event
    BY <1>2, <2>1 DEF Copy
  <2>3. \A d \in left[t] : rows'[d.event] = d.row
    BY <1>8, <2>1, <2>2 DEF Copy
  <2> QED
    BY <1>3, <1>4, <2>3 DEF Current, AtRow
<1> QED
  BY <1>6, <1>7, <1>10, <1>12, <1>13, Assembled

(* The second read of save().                                              *)
LEMMA SaveReloadStep ==
    ASSUME BInv, NEW t \in Ticks, SaveReload(t)
    PROVE  BInv'
<1> DEFINE changed == Diff(entity[t], rows[copy[t].event])
<1>1. /\ pc[t] = "reload"
      /\ UNCHANGED <<rows, breaker, delivered, failures, overlapped, failed>>
  BY DEF SaveReload, history
<1>2. /\ copy[t] \in Copy /\ copy[t].event \in Events /\ left[t] \subseteq Copy
      /\ rows[copy[t].event] \in Row /\ entity[t] \in Row
  BY <1>1, AtRowFacts DEF AtRow, CopyHolds, BInv, TypeOK, TickHolds
<1>3. CASE LoopOn(t)
  <2>1. rows' = [rows EXCEPT ![copy[t].event] = rows[copy[t].event]]
    BY <1>1, <1>2 DEF BInv, TypeOK
  <2> QED
    BY <1>1, <1>2, <1>3, <2>1, LoopOnStep
<1>4. CASE /\ pc' = [pc EXCEPT ![t] = "write"] /\ cols' = [cols EXCEPT ![t] = changed]
           /\ UNCHANGED <<left, copy, tries, entity>>
  <2>1. changed \subseteq {"status", "attempts"}
    BY <1>2 DEF Diff, Row
  <2> HIDE DEF changed
  <2>2. TypeOK'
    BY <1>1, <1>4, <2>1 DEF BInv, TypeOK, Pcs
  <2>3. Grows /\ OnlyTick(t) /\ pc'[t] = "write"
    BY <1>1, <1>4 DEF Grows, OnlyTick, BInv, TypeOK, RowHolds
  <2>4. \A e \in Events : RowHolds(e)'
    BY <1>1, <2>2, <2>3, RowsStay
  <2>5. TickHolds(t)'
    BY <1>1, <1>4, <2>3 DEF BInv, TickHolds, AtRow, CopyHolds, Earned
  <2>6. ~overlapped => Current(t)'
    BY <1>1, <1>4, <2>3 DEF Current, BInv, Alone, AtRow
  <2> QED
    BY <1>1, <2>2, <2>3, <2>4, <2>5, <2>6, Assembled
<1> QED
  BY <1>3, <1>4 DEF SaveReload

(* The UPDATE of save().                                                   *)
LEMMA SaveWriteFacts ==
    ASSUME BInv, NEW t \in Ticks, SaveWrite(t)
    PROVE  /\ pc[t] = "write" /\ copy[t] \in Copy /\ copy[t].event \in Events
           /\ rows[copy[t].event] \in Row /\ entity[t] \in Row
           /\ entity[t].attempts >= copy[t].row.attempts
           /\ \E new \in Row :
                 /\ rows' = [rows EXCEPT ![copy[t].event] = new]
                 /\ new.status \in {rows[copy[t].event].status, entity[t].status}
                 /\ new.attempts \in {rows[copy[t].event].attempts, entity[t].attempts}
<1>1. pc[t] = "write"
  BY DEF SaveWrite
<1>2. /\ copy[t] \in Copy /\ copy[t].event \in Events /\ left[t] \subseteq Copy
      /\ rows[copy[t].event] \in Row /\ entity[t] \in Row
      /\ entity[t].attempts >= copy[t].row.attempts
  BY <1>1, AtRowFacts DEF AtRow, CopyHolds, BInv, TypeOK, TickHolds
<1> DEFINE new == Patch(rows[copy[t].event], entity[t], cols[t])
<1>3. /\ new \in Row
      /\ new.status \in {rows[copy[t].event].status, entity[t].status}
      /\ new.attempts \in {rows[copy[t].event].attempts, entity[t].attempts}
  BY <1>2, PatchRow
<1>4. rows' = [rows EXCEPT ![copy[t].event] = new]
  BY DEF SaveWrite
<1> QED
  BY <1>1, <1>2, <1>3, <1>4

LEMMA SaveWriteStep ==
    ASSUME BInv, NEW t \in Ticks, SaveWrite(t)
    PROVE  BInv'
<1>1. LoopOn(t) /\ UNCHANGED <<breaker, delivered, failures, overlapped, failed>>
  BY DEF SaveWrite, history
<1> QED
  BY <1>1, SaveWriteFacts, LoopOnStep

(* A tick, or every tick, ends where it is.                                *)
LEMMA EndedStep ==
    ASSUME BInv, NEW T \in SUBSET Ticks, Ended(T), breaker' \in Breakers, failed' \in Nat,
           UNCHANGED <<rows, delivered, failures, overlapped>>
    PROVE  BInv'
<1>1. TypeOK'
  BY DEF Ended, BInv, TypeOK, Pcs
<1>2. Grows
  BY DEF Grows, BInv, TypeOK, RowHolds
<1>3. \A e \in Events : RowHolds(e)'
  BY <1>1, <1>2, RowsStay
<1>4. ASSUME NEW u \in Ticks, u \in T
      PROVE  TickHolds(u)' /\ Current(u)' /\ pc'[u] = "idle"
  BY <1>4 DEF Ended, TickHolds, Current, AtRow
<1>5. ASSUME NEW u \in Ticks, u \notin T
      PROVE  /\ pc'[u] = pc[u] /\ left'[u] = left[u] /\ copy'[u] = copy[u]
             /\ entity'[u] = entity[u]
  BY <1>5 DEF Ended
<1>6. \A u \in Ticks : TickHolds(u)'
  BY <1>1, <1>2, <1>4, <1>5, OthersKept
<1>7. Alone'
  <2>1. \A u \in Ticks : Current(u) => Current(u)'
    BY <1>4, <1>5 DEF Current
  <2> QED
    BY <1>4, <1>5, <2>1 DEF BInv, Alone
<1> QED
  BY <1>1, <1>3, <1>6, <1>7 DEF BInv

(* A save that rejects, and a crash.                                       *)
LEMMA FaultStep ==
    ASSUME BInv, (\E t \in Ticks : SaveRejects(t)) \/ Crash
    PROVE  BInv'
<1>1. failed' \in Nat
  <2>1. failed \in Nat /\ failed' = failed + 1
    BY DEF SaveRejects, Crash, BInv, TypeOK
  <2> QED
    BY <2>1
<1>2. CASE Crash
  BY <1>1, <1>2, EndedStep DEF Crash, Breakers, history
<1>3. ASSUME NEW t \in Ticks, SaveRejects(t)
      PROVE  BInv'
  <2>1. /\ pc[t] \in AtRow /\ pc[t] # "idle"
        /\ UNCHANGED <<rows, breaker, delivered, overlapped>> /\ breaker \in Breakers
    BY <1>3 DEF SaveRejects, AtRow, BInv, TypeOK
  <2>2. CASE Ended({t}) /\ UNCHANGED failures
    BY <1>1, <2>1, <2>2, EndedStep
  <2>3. CASE Catch(t, copy[t]) /\ UNCHANGED <<left, copy>>
    <3>1. /\ copy[t] \in Copy /\ CopyHolds(copy[t])
          /\ copy = [copy EXCEPT ![t] = copy[t]] /\ left = [left EXCEPT ![t] = left[t]]
          /\ ~overlapped => rows[copy[t].event] = copy[t].row /\ copy[t] \notin left[t]
      BY <2>1, AtRowFacts
    <3>2. delivered \subseteq delivered' /\ delivered' \subseteq Events
      BY <2>1 DEF BInv, TypeOK
    <3> QED
      BY <1>1, <2>1, <2>3, <3>1, <3>2, CatchStep
  <2> QED
    BY <1>3, <2>2, <2>3 DEF SaveRejects
<1> QED
  BY <1>2, <1>3

-----------------------------------------------------------------------------
LEMMA StepHolds == BInv /\ [Next]_vars => BInv'
<1> SUFFICES ASSUME BInv, [Next]_vars PROVE BInv'
  OBVIOUS
<1>1. CASE \E e \in Events : Append(e)
  BY <1>1, AppendStep
<1>2. CASE \E t \in Ticks : Tick(t)
  BY <1>2, TickStep
<1>3. CASE \E t \in Ticks : Work(t)
  BY <1>3, RelayStep, AnsweredStep, FailsStep, SaveReloadStep, SaveWriteStep DEF Work
<1>4. CASE (\E t \in Ticks : SaveRejects(t)) \/ Crash
  BY <1>4, FaultStep
<1>5. CASE HalfOpen \/ UNCHANGED vars
  BY <1>5, IdleStep
<1> QED
  BY <1>1, <1>2, <1>3, <1>4, <1>5 DEF Next

LEMMA Inductive == Spec => []BInv
  BY InitHolds, StepHolds, PTL DEF Spec

(* AuditOutboxRelayJob.handle marks a row SENT only if the audit service   *)
(* got its event, and FAILED only after MAX_RELAY_ATTEMPTS failures,       *)
(* however ticks overlap, saves reject and the process dies.               *)
THEOREM OutcomesAreEarned == Spec => []OutcomeIsEarned
<1>1. BInv => OutcomeIsEarned
  BY DEF BInv, RowHolds, Earned, OutcomeIsEarned
<1> QED
  BY <1>1, Inductive, PTL

(* handle never touches a row that is SENT or FAILED, and never lowers the *)
(* attempts of one, as long as no tick begins before another has ended.    *)
THEOREM OutcomesAreFinal == Spec => OutcomeIsFinal
<1>1. BInv /\ [Next]_vars =>
        [~overlapped' => \A e \in Events : rows[e] # NoRow =>
            /\ rows[e].status # "PENDING" => rows'[e] = rows[e]
            /\ rows'[e].attempts >= rows[e].attempts
        ]_vars
  <2> SUFFICES ASSUME BInv, Next, ~overlapped', NEW e \in Events, rows[e] # NoRow
               PROVE  /\ rows[e].status # "PENDING" => rows'[e] = rows[e]
                      /\ rows'[e].attempts >= rows[e].attempts
    OBVIOUS
  <2>1. rows[e] \in Row /\ rows[e].attempts \in Nat
    BY DEF BInv, TypeOK, Row
  <2>2. CASE rows'[e] = rows[e]
    BY <2>1, <2>2
  <2>3. CASE rows'[e] # rows[e]
    <3>1. PICK t \in Ticks : SaveWrite(t)
      BY <2>3 DEF Next, Work, Append, Tick, Relay, Answered, AttemptFails, TimesOut,
                  HalfOpen, SaveReload, SaveRejects, Crash, BInv, TypeOK
    <3>2. ~overlapped
      BY <3>1 DEF SaveWrite, history
    <3>3. /\ pc[t] = "write" /\ copy[t] \in Copy /\ copy[t].event \in Events
          /\ entity[t] \in Row /\ entity[t].attempts >= copy[t].row.attempts
      BY <3>1, SaveWriteFacts
    <3>4. PICK new \in Row :
            /\ rows' = [rows EXCEPT ![copy[t].event] = new]
            /\ new.attempts \in {rows[copy[t].event].attempts, entity[t].attempts}
      BY <3>1, SaveWriteFacts
    <3>5. e = copy[t].event /\ rows'[e] = new
      BY <2>3, <3>4 DEF BInv, TypeOK
    <3>6. rows[e] = copy[t].row /\ copy[t].row.status = "PENDING"
      BY <3>2, <3>3, <3>5, AtRowFacts DEF AtRow, CopyHolds
    <3> QED
      BY <2>1, <3>3, <3>4, <3>5, <3>6
  <2> QED
    BY <2>2, <2>3
<1> QED
  BY <1>1, Inductive, PTL DEF Spec, OutcomeIsFinal

=============================================================================
