------------------------------- MODULE Outbox -------------------------------
(***************************************************************************)
(* The audit outbox: AuditOutboxRelayJob, which every minute relays the    *)
(* PENDING rows one after the other, and the resilient client (retries     *)
(* inside a circuit breaker with a timeout) it relays them with.           *)
(*                                                                         *)
(* Cron does not wait for a tick to end, so ticks overlap.  Nothing in the *)
(* service writes outbox rows yet; they appear.  What opossum does is      *)
(* external: whether a failure opens a closed breaker is left open.        *)
(***************************************************************************)
EXTENDS Naturals, Repository

CONSTANTS
    Events,         \* ids of outbox rows
    Ticks,          \* ticks at work at a time; a tick is used again
    NoRow,          \* no row has this id
    Null,
    MaxAttempts,    \* MAX_RELAY_ATTEMPTS
    Retries,        \* of the resilient client
    Configured,     \* whether AUDIT_SERVICE_URL is set
    MaxFailures     \* bound: saves that reject and crashes, in a behaviour

Row  == [status : {"PENDING", "SENT", "FAILED"}, attempts : Nat]
Copy == [event : Events, row : Row]

ASSUME OutboxAssumption ==
    /\ NoRow \notin Row /\ Null \notin Copy
    /\ MaxAttempts \in Nat \ {0} /\ {Retries, MaxFailures} \subseteq Nat
    /\ Configured \in BOOLEAN

VARIABLES
    rows,           \* audit_outbox
    breaker,        \* the circuit breaker of AuditClient
    pc,             \* where each tick stands
    left,           \* its copies of the rows it has not come to yet
    copy,           \* its copy of the row it is at
    tries,          \* attempts of the request that have failed
    entity,         \* the row it saves
    cols,           \* columns the save() in progress is about to UPDATE
    delivered,      \* history: events the audit service has got
    failures,       \* history: per row, how often it went to the catch block
                    \*   (counted up to MaxAttempts)
    overlapped,     \* history: a tick began while another was at work
    failed          \* saves that rejected, and crashes

ticking == <<pc, left, copy, tries, entity, cols>>
history == <<delivered, failures, overlapped>>
vars    == <<rows, breaker, pc, left, copy, tries, entity, cols,
             delivered, failures, overlapped, failed>>

Breakers == {"closed", "open", "halfOpen", "trial"}
Pcs      == {"idle", "loop", "relay", "reload", "write"}

Init ==
    /\ rows = [e \in Events |-> NoRow]
    /\ breaker = "closed"
    /\ pc = [t \in Ticks |-> "idle"]
    /\ left = [t \in Ticks |-> {}]
    /\ copy = [t \in Ticks |-> Null]
    /\ tries = [t \in Ticks |-> 0]
    /\ entity = [t \in Ticks |-> NoRow]
    /\ cols = [t \in Ticks |-> {}]
    /\ delivered = {} /\ failures = [e \in Events |-> 0]
    /\ overlapped = FALSE /\ failed = 0

(* Whatever has an event to record writes its row.                         *)
Append(e) ==
    /\ rows[e] = NoRow
    /\ rows' = [rows EXCEPT ![e] = [status |-> "PENDING", attempts |-> 0]]
    /\ UNCHANGED <<breaker, ticking, history, failed>>

-----------------------------------------------------------------------------
(* The for loop of handle()                                                *)

(* Cron: findPending, when something is pending.                           *)
Pending_All == {e \in Events : rows[e] # NoRow /\ rows[e].status # "FAILED"}
Pending == {e \in Events : rows[e] # NoRow /\ rows[e].status = "PENDING"}

Tick(t) ==
    /\ pc[t] = "idle" /\ Pending # {}
    /\ pc' = [pc EXCEPT ![t] = "loop"]
    /\ left' = [left EXCEPT ![t] = {[event |-> e, row |-> rows[e]] : e \in Pending}]
    /\ overlapped' = (overlapped \/ \E u \in Ticks : pc[u] # "idle")
    /\ UNCHANGED <<rows, breaker, copy, tries, entity, cols, delivered, failures, failed>>

(* save({ ...row, ... }) begins.                                           *)
Save(t, row) ==
    /\ pc' = [pc EXCEPT ![t] = "reload"]
    /\ entity' = [entity EXCEPT ![t] = row]
    /\ tries' = [tries EXCEPT ![t] = 0]
    /\ cols' = [cols EXCEPT ![t] = {}]

GiveUp(n) == n >= MaxAttempts

Catch_NotCounted(t, c) ==
    /\ Save(t, [status |-> IF GiveUp(c.row.attempts) THEN "FAILED" ELSE "PENDING",
                attempts |-> c.row.attempts])
    /\ failures' = [failures EXCEPT ![c.event] = IF @ < MaxAttempts THEN @ + 1 ELSE @]
(* The catch block: count the attempt, on the copy the tick began with.    *)
Catch(t, c) ==
    LET n == c.row.attempts + 1 IN
    /\ Save(t, [status |-> IF GiveUp(n) THEN "FAILED" ELSE "PENDING", attempts |-> n])
    /\ failures' = [failures EXCEPT ![c.event] = IF @ < MaxAttempts THEN @ + 1 ELSE @]

(* The save is through: go on with the loop, or end.                       *)
LoopOn(t) ==
    /\ pc' = [pc EXCEPT ![t] = IF left[t] = {} THEN "idle" ELSE "loop"]
    /\ copy' = [copy EXCEPT ![t] = Null]
    /\ entity' = [entity EXCEPT ![t] = NoRow]
    /\ cols' = [cols EXCEPT ![t] = {}]
    /\ UNCHANGED <<left, tries>>

(* relay of the next row: throws without a URL; breaker.fire rejects at    *)
(* once while it is open, and lets one request through when half-open.     *)
Relay(t) ==
    /\ pc[t] = "loop"
    /\ \E c \in left[t] :
          /\ left' = [left EXCEPT ![t] = @ \ {c}]
          /\ copy' = [copy EXCEPT ![t] = c]
          /\ IF Configured /\ breaker \in {"closed", "halfOpen"}
             THEN /\ pc' = [pc EXCEPT ![t] = "relay"]
                  /\ breaker' = IF breaker = "halfOpen" THEN "trial" ELSE breaker
                  /\ UNCHANGED <<tries, entity, cols, failures>>
             ELSE Catch(t, c) /\ UNCHANGED breaker
    /\ UNCHANGED <<rows, delivered, overlapped, failed>>

-----------------------------------------------------------------------------
(* The resilient client                                                    *)

(* The breaker sees the request succeed or fail.                           *)
Closes == breaker' = IF breaker = "trial" THEN "closed" ELSE breaker
Opens  == \/ breaker = "trial" /\ breaker' = "open"
          \/ breaker # "trial" /\ breaker' \in {breaker, "open"}

(* An attempt is answered: the row is to be saved as SENT.                 *)
Answered_Unsent(t) ==
    /\ pc[t] = "relay"
    /\ Save(t, [copy[t].row EXCEPT !.status = "SENT"])
    /\ Closes
    /\ UNCHANGED <<rows, left, copy, history, failed>>
Answered(t) ==
    /\ pc[t] = "relay"
    /\ delivered' = delivered \cup {copy[t].event}
    /\ Save(t, [copy[t].row EXCEPT !.status = "SENT"])
    /\ Closes
    /\ UNCHANGED <<rows, left, copy, failures, overlapped, failed>>

(* An attempt fails, whether or not the service got it: withRetries tries  *)
(* again, or the request has failed.                                       *)
AttemptFails(t) ==
    /\ pc[t] = "relay"
    /\ delivered' \in {delivered, delivered \cup {copy[t].event}}
    /\ IF tries[t] < Retries
       THEN /\ tries' = [tries EXCEPT ![t] = @ + 1]
            /\ UNCHANGED <<pc, entity, cols, breaker, failures>>
       ELSE Catch(t, copy[t]) /\ Opens
    /\ UNCHANGED <<rows, left, copy, overlapped, failed>>

(* The breaker's timeout: its attempts may still reach the service, but    *)
(* nobody waits for them.                                                  *)
TimesOut(t) ==
    /\ pc[t] = "relay"
    /\ delivered' \in {delivered, delivered \cup {copy[t].event}}
    /\ Catch(t, copy[t]) /\ Opens
    /\ UNCHANGED <<rows, left, copy, overlapped, failed>>

(* resetTimeout has passed.                                                *)
HalfOpen ==
    /\ breaker = "open" /\ breaker' = "halfOpen"
    /\ UNCHANGED <<rows, ticking, history, failed>>

-----------------------------------------------------------------------------
(* repository.save                                                         *)

SaveReload(t) ==
    LET changed == Diff(entity[t], rows[copy[t].event]) IN
    /\ pc[t] = "reload"
    /\ IF changed = {} THEN LoopOn(t)
       ELSE /\ pc' = [pc EXCEPT ![t] = "write"]
            /\ cols' = [cols EXCEPT ![t] = changed]
            /\ UNCHANGED <<left, copy, tries, entity>>
    /\ UNCHANGED <<rows, breaker, history, failed>>

SaveWrite(t) ==
    /\ pc[t] = "write"
    /\ rows' = [rows EXCEPT ![copy[t].event] = Patch(@, entity[t], cols[t])]
    /\ LoopOn(t)
    /\ UNCHANGED <<breaker, history, failed>>

(* The tick ends where it is.                                              *)
Ended(T) ==
    /\ pc' = [t \in Ticks |-> IF t \in T THEN "idle" ELSE pc[t]]
    /\ left' = [t \in Ticks |-> IF t \in T THEN {} ELSE left[t]]
    /\ copy' = [t \in Ticks |-> IF t \in T THEN Null ELSE copy[t]]
    /\ tries' = [t \in Ticks |-> IF t \in T THEN 0 ELSE tries[t]]
    /\ entity' = [t \in Ticks |-> IF t \in T THEN NoRow ELSE entity[t]]
    /\ cols' = [t \in Ticks |-> IF t \in T THEN {} ELSE cols[t]]

(* The save of SENT rejects inside the try block; any other one leaves the *)
(* loop and the tick.                                                      *)
SaveRejects(t) ==
    /\ pc[t] \in {"reload", "write"} /\ failed < MaxFailures
    /\ failed' = failed + 1
    /\ IF entity[t].status = "SENT" THEN Catch(t, copy[t]) /\ UNCHANGED <<left, copy>>
       ELSE Ended({t}) /\ UNCHANGED failures
    /\ UNCHANGED <<rows, breaker, delivered, overlapped>>

(* The process dies and starts again.                                      *)
Crash ==
    /\ failed < MaxFailures
    /\ failed' = failed + 1
    /\ Ended(Ticks) /\ breaker' = "closed"
    /\ UNCHANGED <<rows, history>>

-----------------------------------------------------------------------------
Work(t) ==
    \/ Relay(t) \/ Answered(t) \/ AttemptFails(t) \/ TimesOut(t)
    \/ SaveReload(t) \/ SaveWrite(t)

Next ==
    \/ \E e \in Events : Append(e)
    \/ \E t \in Ticks : Tick(t) \/ Work(t) \/ SaveRejects(t)
    \/ HalfOpen \/ Crash

Spec == Init /\ [][Next]_vars

(* Cron keeps firing, and the event loop resumes every tick whose await    *)
(* settles, as the breaker's timeout makes the relay do.                   *)
FairSpec == Spec /\ WF_vars(\E t \in Ticks : Tick(t))
                 /\ \A t \in Ticks : WF_vars(Work(t))

-----------------------------------------------------------------------------
(* Every variable holds what its column, or its local, may hold.           *)
TypeOK ==
    /\ rows \in [Events -> Row \cup {NoRow}]
    /\ breaker \in Breakers
    /\ pc \in [Ticks -> Pcs]
    /\ left \in [Ticks -> SUBSET Copy] /\ copy \in [Ticks -> Copy \cup {Null}]
    /\ tries \in [Ticks -> Nat] /\ entity \in [Ticks -> Row \cup {NoRow}]
    /\ cols \in [Ticks -> SUBSET {"status", "attempts"}]
    /\ delivered \subseteq Events /\ failures \in [Events -> Nat]
    /\ overlapped \in BOOLEAN /\ failed \in Nat

(* However ticks overlap, requests time out and saves fail: a row is SENT  *)
(* only if the audit service got its event, FAILED only after              *)
(* MAX_RELAY_ATTEMPTS failures.                                            *)
OutcomeIsEarned ==
    \A e \in Events : rows[e] # NoRow =>
        /\ rows[e].status = "SENT" => e \in delivered
        /\ rows[e].status = "FAILED" => failures[e] = MaxAttempts

(* What a row ended as it stays, and its attempts never go back, unless    *)
(* ticks overlap: a later save is of a copy as old as its tick.            *)
OutcomeIsFinal ==
    [][~overlapped' => \A e \in Events : rows[e] # NoRow =>
          /\ rows[e].status # "PENDING" => rows'[e] = rows[e]
          /\ rows'[e].attempts >= rows[e].attempts
      ]_vars

(* The row is SENT or FAILED.                                              *)
Settled(e) == rows[e] # NoRow /\ rows[e].status # "PENDING"

(* Every row settles; ticks that overlap may take an outcome back, and     *)
(* then it settles again.  With OutcomeIsFinal: for good, if they do not.  *)
RowsSettle == \A e \in Events : rows[e] # NoRow ~> Settled(e)

=============================================================================
