------------------------------- MODULE Rules -------------------------------
(***************************************************************************)
(* Authorization rules: AuthorizationRulesService.  A change saves the     *)
(* rule under its next version and then inserts a row with the new content *)
(* into the history; a deactivation inserts its row first and soft-deletes *)
(* the rule then.  Only bank super admins get here.                        *)
(*                                                                         *)
(* A request that is refused before its first write changes nothing and is *)
(* not an action.                                                          *)
(***************************************************************************)
EXTENDS Naturals, Sequences, Editing

CONSTANTS
    Names,          \* rule names
    Thresholds,     \* amounts
    MaxVersion,     \* bound: version of a rule
    MaxHistory      \* bound: history rows of a rule when a change begins

(* authorization_rule; the CIF never changes.                              *)
Rule == [name : Names, threshold : Thresholds, version : Nat, deleted : BOOLEAN]

(* authorization_rule_history: the snapshot and its version.               *)
Entry == [name : Names, threshold : Thresholds, version : Nat, deactivated : BOOLEAN]

Ops == {"create", "update", "deactivate"}
Pcs == {"idle", "reload", "write", "history", "softDelete"}

ASSUME RulesAssumption ==
    /\ NoRow \notin Rule /\ Null \notin Ops \cup Ids
    /\ {MaxVersion, MaxHistory} \subseteq Nat

VARIABLES
    history,        \* per rule, its history rows in the order of insertion
    failed          \* history: rules a request of which failed on its way

vars == <<rows, pc, op, at, entity, cols, raced, history, failed>>

Init ==
    /\ EditingInit
    /\ history = [i \in Ids |-> <<>>]
    /\ failed = {}

-----------------------------------------------------------------------------
Create(h, i, n, t) ==
    /\ InsertBy(h, "create", i, [name |-> n, threshold |-> t, version |-> 1,
                                 deleted |-> FALSE], "history")
    /\ UNCHANGED <<history, failed>>

(* What update leaves for save(): a field the request has none for keeps   *)
(* the value that was read.                                                *)
Changed_SameVersion(row, n, t) == [row EXCEPT !.name = n, !.threshold = t]
Changed(row, n, t) ==
    [row EXCEPT !.name = n, !.threshold = t, !.version = @ + 1]

Update(h, i, n, t) ==
    /\ Live(i)
    /\ rows[i].version < MaxVersion /\ Len(history[i]) < MaxHistory
    /\ Begin(h, "update", i, Changed(rows[i], n, t), "reload")
    /\ UNCHANGED <<history, failed>>

SaveReload(h) == Reload(h, "history") /\ UNCHANGED <<history, failed>>
SaveWrite(h)  == Write(h, "history") /\ UNCHANGED <<history, failed>>

Deactivate(h, i) ==
    /\ Live(i)
    /\ Len(history[i]) < MaxHistory
    /\ Begin(h, "deactivate", i, rows[i], "history")
    /\ UNCHANGED <<history, failed>>

(* history.save(): a deactivation is recorded as the version to come.      *)
Recorded_OwnVersion(h) ==
    [name |-> entity[h].name, threshold |-> entity[h].threshold,
     version |-> entity[h].version, deactivated |-> op[h] = "deactivate"]
Recorded(h) ==
    [name |-> entity[h].name, threshold |-> entity[h].threshold,
     version |-> entity[h].version + (IF op[h] = "deactivate" THEN 1 ELSE 0),
     deactivated |-> op[h] = "deactivate"]

InsertHistory(h) ==
    /\ pc[h] = "history"
    /\ history' = [history EXCEPT ![at[h]] = Append(@, Recorded(h))]
    /\ Resume(h, IF op[h] = "deactivate" THEN "softDelete" ELSE "idle")
    /\ UNCHANGED <<rows, raced, failed>>

RemoveRule(h) == SoftDelete(h) /\ UNCHANGED <<history, failed>>

AwaitRejects(h) ==
    /\ Rejects(h)
    /\ failed' = failed \cup {at[h]}
    /\ UNCHANGED history

-----------------------------------------------------------------------------
Next ==
    \/ \E h \in Handlers, i \in Ids :
          \/ \E n \in Names, t \in Thresholds : Create(h, i, n, t) \/ Update(h, i, n, t)
          \/ Deactivate(h, i)
    \/ \E h \in Handlers : \/ SaveReload(h) \/ SaveWrite(h) \/ InsertHistory(h)
                           \/ RemoveRule(h) \/ AwaitRejects(h)

Spec == Init /\ [][Next]_vars

-----------------------------------------------------------------------------
(* Every variable holds what its column, or its local, may hold.           *)
TypeOK ==
    /\ EditingOK(Rule, Ops, Pcs)
    /\ history \in [Ids -> Seq(Entry)]
    /\ failed \subseteq Ids

(* "nothing is silently overwritten": once no request is at work on it, a  *)
(* rule's history is its versions 1, 2, ... in order, and ends with what   *)
(* the rule shows; unless requests for it overlapped or failed half-way.   *)
HistoryTellsRule ==
    \A i \in Ids \ (raced \cup failed) : rows[i] # NoRow /\ ~Busy(i) =>
        LET n == rows[i].version IN
        /\ Len(history[i]) = IF rows[i].deleted THEN n + 1 ELSE n
        /\ \A v \in 1..Len(history[i]) :
              /\ history[i][v].version = v
              /\ history[i][v].deactivated <=> v > n
        /\ LET last == history[i][Len(history[i])] IN
           /\ last.name = rows[i].name /\ last.threshold = rows[i].threshold

(* A version names one entry of the history: no change is recorded under a *)
(* version the rule does not have, and two entries share one only when the *)
(* earlier is a deactivation that failed on its way (the rule then stays,  *)
(* a version behind its history); whatever else fails, and unless requests *)
(* overlap.                                                                *)
VersionsDistinct ==
    \A i \in Ids \ raced : \A v, w \in DOMAIN history[i] :
        /\ ~history[i][v].deactivated => history[i][v].version <= rows[i].version
        /\ v < w /\ history[i][v].version = history[i][w].version =>
              history[i][v].deactivated /\ i \in failed

=============================================================================
