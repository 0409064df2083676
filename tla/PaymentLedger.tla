--------------------------- MODULE PaymentLedger ---------------------------
(***************************************************************************)
(* What bill payment promises, with no handler in sight: one payment per   *)
(* idempotency key, each closed by SUCCESS, and bills that are PAID only   *)
(* because a payment for them succeeded.                                   *)
(***************************************************************************)
CONSTANTS Keys, Bills, Statuses, NoEntry

VARIABLES
    entry,      \* the payment recorded under each key
    paid        \* the bills shown as PAID

vars == <<entry, paid>>

Entries == [bill : Bills, status : Statuses]

Init == /\ entry = [k \in Keys |-> NoEntry]
        /\ paid = {}

(* The first attempt under a key is recorded, whatever its outcome.        *)
Record(k) == /\ entry[k] = NoEntry
             /\ \E e \in Entries : entry' = [entry EXCEPT ![k] = e]
             /\ UNCHANGED paid

(* Another attempt for the same payment ends in another status.            *)
Resolve(k) == /\ entry[k] # NoEntry
              /\ entry[k].status # "SUCCESS"
              /\ \E status \in Statuses :
                    entry' = [entry EXCEPT ![k].status = status]
              /\ UNCHANGED paid

(* The bill of a payment that succeeded becomes PAID.                      *)
Settle(k) == /\ entry[k] # NoEntry
             /\ entry[k].status = "SUCCESS"
             /\ paid' = paid \cup {entry[k].bill}
             /\ UNCHANGED entry

Next == \E k \in Keys : Record(k) \/ Resolve(k) \/ Settle(k)

Spec == Init /\ [][Next]_vars

=============================================================================
