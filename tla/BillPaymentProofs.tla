------------------------- MODULE BillPaymentProofs -------------------------
EXTENDS BillPayment, TLAPS

(* The placeholders of the locals a handler has not assigned have the      *)
(* types of what it will assign.                                           *)
LEMMA BlankTypes == /\ BlankBill \in BillRow
                    /\ BlankPayment \in PaymentRow
                    /\ IdleSeeder \in SeederStates
  <1>1. PICK k \in Keys, b \in Bills, m \in Amounts, a \in Actors : TRUE
    BY BillPaymentAssumption
  <1>2. BlankBill \in BillRow
    BY <1>1 DEF BlankBill, BillRow
  <1>3. BlankPayment \in PaymentRow
    BY <1>1 DEF BlankPayment, PaymentRow, Statuses
  <1>4. IdleSeeder \in SeederStates
    BY <1>2 DEF IdleSeeder, SeederStates, BillRow
  <1>5. QED BY <1>2, <1>3, <1>4

(* The UPDATE of a save keeps a bill row a bill row, with the status of    *)
(* the row or of the copy being saved.                                     *)
LEMMA PatchBill ==
  ASSUME NEW row \in BillRow, NEW entity \in BillRow, NEW cols
  PROVE  /\ Patch(row, entity, cols) \in BillRow
         /\ Patch(row, entity, cols).status \in {row.status, entity.status}
  BY DEF Patch, BillRow

(* The UPDATE of a save keeps a payment row a payment row; a column on     *)
(* which row and copy agree is not changed by it.                          *)
LEMMA PatchPayment ==
  ASSUME NEW row \in PaymentRow, NEW entity \in PaymentRow, NEW cols
  PROVE  /\ Patch(row, entity, cols) \in PaymentRow
         /\ Patch(row, entity, cols).status \in {row.status, entity.status}
         /\ row.bill = entity.bill => Patch(row, entity, cols).bill = row.bill
         /\ row.amount = entity.amount => Patch(row, entity, cols).amount = row.amount
         /\ row.owner = entity.owner => Patch(row, entity, cols).owner = row.owner
  BY DEF Patch, PaymentRow

(* findOne by bill number or by biller and consumer returns a row of the   *)
(* bill it was asked for.                                                  *)
LEMMA LookupFound ==
  ASSUME NEW b \in Bills, Found(b)
  PROVE  Lookup(b) \in BillRows /\ Lookup(b)[2] = b
  BY DEF Found, Lookup, BillRows

(* The tables of an empty service, and the handlers that have not started, *)
(* are well-typed.                                                         *)
LEMMA InitType == Init => TypeOK
  <1> SUFFICES ASSUME Init PROVE TypeOK OBVIOUS
  <1>1. PICK price \in [BillRows -> Amounts] :
           bills = [br \in BillRows |-> [status |-> "UNPAID", amount |-> price[br]]]
    BY DEF Init
  <1>2. bills \in [BillRows -> BillRow]
    BY <1>1 DEF BillRow
  <1>3. dto \in [Requests -> Dto]
    <2>1. (CHOOSE k \in Keys : TRUE) \in Keys
      BY BillPaymentAssumption
    <2>2. QED BY <2>1, BlankTypes DEF Init, Dto, PaymentRow
  <1>4. /\ payments \in [Keys -> PaymentRow \cup {NoPayment}]
        /\ pc \in [Requests -> Pcs]
        /\ billEntity \in [Requests -> BillRow]
        /\ payEntity \in [Requests -> PaymentRow]
        /\ dirty \in [Requests -> SUBSET (DOMAIN BlankBill \cup DOMAIN BlankPayment)]
        /\ DOMAIN result = Requests
    BY BlankTypes DEF Init, Pcs, RequestDone
  <1>5. QED BY <1>2, <1>3, <1>4, BlankTypes DEF Init, TypeOK

(* Answering a client leaves the handler's locals well-typed.              *)
LEMMA AnswerType ==
  ASSUME TypeOK, NEW r \in Requests, NEW outcome, Answer(r, outcome)
  PROVE  /\ pc' \in [Requests -> Pcs]
         /\ dto' \in [Requests -> Dto]
         /\ billEntity' \in [Requests -> BillRow]
         /\ payEntity' \in [Requests -> PaymentRow]
         /\ dirty' \in [Requests -> SUBSET (DOMAIN BlankBill \cup DOMAIN BlankPayment)]
         /\ DOMAIN result' = Requests
  BY BlankTypes DEF TypeOK, Answer, Pcs, RequestDone

(* A request that reaches the controller puts a valid body before its      *)
(* handler.                                                                *)
LEMMA SendType ==
  ASSUME TypeOK, NEW r \in Requests, NEW d \in Dto, Send(r, d)
  PROVE  TypeOK'
  BY DEF TypeOK, Send, Pcs, tables, service

(* The look-up of the idempotency key in create keeps the types.           *)
LEMMA CheckKeyType ==
  ASSUME TypeOK, NEW r \in Requests, CheckKey(r)
  PROVE  TypeOK'
  <1>1. CASE pc' = [pc EXCEPT ![r] = "find"]
             /\ UNCHANGED <<dto, billEntity, payEntity, dirty, result>>
    BY <1>1 DEF TypeOK, CheckKey, Pcs, tables, service, history
  <1>2. CASE Answer(r, "PAYMENT_NOT_FOUND")
    BY <1>2, AnswerType DEF TypeOK, CheckKey, tables, service, history
  <1>3. CASE /\ Existing(dto[r].key)
             /\ payEntity' = [payEntity EXCEPT ![r] = payments[dto[r].key]]
             /\ pc' = [pc EXCEPT ![r] = "replay"]
             /\ UNCHANGED <<dto, billEntity, dirty, result>>
    <2>1. payments[dto[r].key] \in PaymentRow
      BY <1>3 DEF TypeOK, Existing, Dto
    <2>2. QED BY <1>3, <2>1 DEF TypeOK, CheckKey, Pcs, PayPcs, tables, service, history
  <1>4. QED BY <1>1, <1>2, <1>3 DEF CheckKey

(* The answer to a repeated key keeps the types.                           *)
LEMMA ReplayType ==
  ASSUME TypeOK, NEW r \in Requests, Replay(r)
  PROVE  TypeOK'
  BY AnswerType DEF TypeOK, Replay, tables, service, history

(* The look-up of the bill in create keeps the types.                      *)
LEMMA FindBillType ==
  ASSUME TypeOK, NEW r \in Requests, FindBill(r)
  PROVE  TypeOK'
  <1>1. CASE \E outcome : Answer(r, outcome)
    BY <1>1, AnswerType DEF TypeOK, FindBill, tables, service, history
  <1>2. CASE /\ Found(dto[r].bill)
             /\ billEntity' = [billEntity EXCEPT ![r] = bills[Lookup(dto[r].bill)]]
             /\ pc' = [pc EXCEPT ![r] = "dispatch"]
             /\ UNCHANGED <<dto, payEntity, dirty, result>>
    <2>1. bills[Lookup(dto[r].bill)] \in BillRow
      BY <1>2, LookupFound DEF TypeOK, Dto
    <2>2. QED BY <1>2, <2>1 DEF TypeOK, FindBill, Pcs, tables, service, history
  <1>3. QED BY <1>1, <1>2 DEF FindBill

(* The call of BBPS in create keeps the types.                             *)
LEMMA DispatchType ==
  ASSUME TypeOK, NEW r \in Requests, Dispatch(r)
  PROVE  TypeOK'
  <1>1. PICK status \in Statuses :
          /\ CallBbps(r, status)
          /\ payEntity' = [payEntity EXCEPT ![r] =
                [bill |-> dto[r].bill, amount |-> billEntity[r].amount,
                 status |-> status, ref |-> Reference(r, status),
                 owner |-> dto[r].actor]]
    BY DEF Dispatch
  <1>2. payEntity' \in [Requests -> PaymentRow]
    BY <1>1 DEF TypeOK, Dto, BillRow, PaymentRow, Reference
  <1>3. {dispatched', charged', late'} \subseteq SUBSET Requests
    BY <1>1 DEF TypeOK, CallBbps
  <1>4. QED BY <1>2, <1>3 DEF TypeOK, Dispatch, Pcs, PayPcs, tables, service

(* The INSERT of create, refused or not, keeps the types.                  *)
LEMMA InsertPaymentType ==
  ASSUME TypeOK, NEW r \in Requests, InsertPayment(r)
  PROVE  TypeOK'
  <1>1. dto[r].key \in Keys /\ payEntity[r] \in PaymentRow /\ billEntity[r] \in BillRow
    BY DEF TypeOK, Dto
  <1>2. payments' \in [Keys -> PaymentRow \cup {NoPayment}]
    BY <1>1 DEF TypeOK, InsertPayment
  <1>3. CASE \E outcome : Answer(r, outcome)
    BY <1>2, <1>3, AnswerType DEF TypeOK, InsertPayment, service, history
  <1>4. CASE /\ billEntity' = [billEntity EXCEPT ![r] = MarkPaid(@)]
             /\ pc' = [pc EXCEPT ![r] = "markReload"]
             /\ UNCHANGED <<dto, payEntity, dirty, result>>
    <2>1. MarkPaid(billEntity[r]) \in BillRow
      BY <1>1 DEF MarkPaid, BillRow
    <2>2. QED BY <1>2, <1>4, <2>1
              DEF TypeOK, InsertPayment, Pcs, PayPcs, service, history
  <1>5. QED BY <1>3, <1>4 DEF InsertPayment

(* A handler past its INSERT or its look-up holds a recorded payment whose *)
(* bill is in a table.                                                     *)
LEMMA HeldBill ==
  ASSUME TypeOK, RowsFound, NEW r \in Requests, HoldsPayment(r),
         pc[r] \in PayPcs \ {"insert"}
  PROVE  /\ payEntity[r].bill \in Bills
         /\ Found(payEntity[r].bill)
         /\ Lookup(payEntity[r].bill) \in BillRows
         /\ bills[Lookup(payEntity[r].bill)] \in BillRow
         /\ payments[dto[r].key] \in PaymentRow
         /\ dto[r].key \in Keys
  <1>1. dto[r].key \in Keys
    BY DEF TypeOK, Dto
  <1>2. payments[dto[r].key] \in PaymentRow /\ payEntity[r] \in PaymentRow
    BY <1>1 DEF TypeOK, HoldsPayment, Recorded
  <1>3. payEntity[r].bill \in Bills /\ Found(payEntity[r].bill)
    BY <1>1, <1>2 DEF RowsFound, HoldsPayment, SameIdentity, PaymentRow
  <1>4. QED BY <1>1, <1>2, <1>3, LookupFound DEF TypeOK

(* Both halves of save(bill) keep the types.                               *)
LEMMA SaveBillType ==
  ASSUME TypeOK, RowsFound, NEW r \in Requests, HoldsPayment(r), SaveBill(r)
  PROVE  TypeOK'
  <1>1. CASE MarkReload(r)
    <2>1. bills[Lookup(payEntity[r].bill)] \in BillRow
      BY <1>1, HeldBill DEF MarkReload, PayPcs
    <2>2. Diff(billEntity[r], bills[Lookup(payEntity[r].bill)]) \subseteq DOMAIN BlankBill
      BY <2>1, BlankTypes DEF Diff, BillRow
    <2>3. QED BY <1>1, <2>2
              DEF TypeOK, MarkReload, Pcs, PayPcs, tables, service, history
  <1>2. CASE MarkWrite(r)
    <2>1. bills' \in [BillRows -> BillRow]
      BY <1>2, HeldBill, PatchBill DEF TypeOK, MarkWrite, PayPcs
    <2>2. QED BY <1>2, <2>1, AnswerType DEF TypeOK, MarkWrite, service, history
  <1>3. QED BY <1>1, <1>2 DEF SaveBill

(* Every await of payViaBbps keeps the types.                              *)
LEMMA RetryType ==
  ASSUME TypeOK, RowsFound, NEW r \in Requests, HoldsPayment(r), Retry(r)
  PROVE  TypeOK'
  <1>1. CASE LoadPayment(r)
    <2>1. CASE \E outcome : Answer(r, outcome)
      BY <1>1, <2>1, AnswerType DEF TypeOK, LoadPayment, tables, service, history
    <2>2. CASE /\ payments[dto[r].key] # NoPayment
               /\ payEntity' = [payEntity EXCEPT ![r] = payments[dto[r].key]]
               /\ pc' = [pc EXCEPT ![r] = "redispatch"]
               /\ UNCHANGED <<dto, billEntity, dirty, result>>
      <3>1. payments[dto[r].key] \in PaymentRow
        BY <2>2 DEF TypeOK, Dto
      <3>2. QED BY <1>1, <2>2, <3>1
                DEF TypeOK, LoadPayment, Pcs, PayPcs, tables, service, history
    <2>3. QED BY <1>1, <2>1, <2>2 DEF LoadPayment
  <1>2. CASE Redispatch(r)
    <2>1. PICK status \in Statuses :
            /\ CallBbps(r, status)
            /\ payEntity' = [payEntity EXCEPT
                  ![r].status = status,
                  ![r].ref = NewReference(r, status, @)]
      BY <1>2 DEF Redispatch
    <2>2. payEntity' \in [Requests -> PaymentRow]
      <3>1. payEntity[r] \in PaymentRow
        BY DEF TypeOK
      <3>2. NewReference(r, status, payEntity[r].ref) \in Requests \cup {NoRef}
        BY <3>1 DEF PaymentRow, NewReference, Reference
      <3>3. [payEntity[r] EXCEPT !.status = status,
                !.ref = NewReference(r, status, payEntity[r].ref)] \in PaymentRow
        BY <3>1, <3>2 DEF PaymentRow
      <3>4. payEntity' = [payEntity EXCEPT ![r] =
               [payEntity[r] EXCEPT !.status = status,
                   !.ref = NewReference(r, status, payEntity[r].ref)]]
        BY <2>1, <3>1 DEF TypeOK
      <3>5. QED BY <3>3, <3>4 DEF TypeOK
    <2>3. {dispatched', charged', late'} \subseteq SUBSET Requests
      BY <2>1 DEF TypeOK, CallBbps
    <2>4. QED BY <1>2, <2>2, <2>3
              DEF TypeOK, Redispatch, Pcs, PayPcs, tables, service
  <1>3. CASE SaveReload(r)
    <2>1. payments[dto[r].key] \in PaymentRow
      BY <1>3, HeldBill DEF SaveReload, PayPcs
    <2>2. Diff(payEntity[r], payments[dto[r].key]) \subseteq DOMAIN BlankPayment
      BY <2>1, BlankTypes DEF Diff, PaymentRow
    <2>3. QED BY <1>3, <2>2
              DEF TypeOK, SaveReload, Pcs, PayPcs, tables, service, history
  <1>4. CASE SaveWrite(r)
    <2>1. payments' \in [Keys -> PaymentRow \cup {NoPayment}]
      BY <1>4, HeldBill, PatchPayment DEF TypeOK, SaveWrite, PayPcs
    <2>2. CASE Answer(r, payEntity[r].status)
      BY <1>4, <2>1, <2>2, AnswerType DEF TypeOK, SaveWrite, service, history
    <2>3. CASE /\ pc' = [pc EXCEPT ![r] = "refind"]
               /\ dirty' = [dirty EXCEPT ![r] = {}]
               /\ UNCHANGED <<dto, billEntity, payEntity, result>>
      BY <1>4, <2>1, <2>3 DEF TypeOK, SaveWrite, Pcs, PayPcs, service, history
    <2>4. QED BY <1>4, <2>2, <2>3 DEF SaveWrite
  <1>5. CASE Refind(r)
    <2>1. MarkPaid(bills[Lookup(payEntity[r].bill)]) \in BillRow
      BY <1>5, HeldBill DEF Refind, PayPcs, MarkPaid, BillRow
    <2>2. QED BY <1>5, <2>1 DEF TypeOK, Refind, Pcs, PayPcs, tables, service, history
  <1>6. QED BY <1>1, <1>2, <1>3, <1>4, <1>5 DEF Retry

(* The seeder upserts rows the tables have.                                *)
LEMMA SeededAreRows == SeededRows \subseteq BillRows
  BY BillPaymentAssumption DEF SeededRows, BillRows

(* A crash, a boot and the steps of the seeder keep the types.             *)
LEMMA ServiceType ==
  ASSUME TypeOK, SeederKeepsPaid, Crash \/ Boot \/ Seed
  PROVE  TypeOK'
  <1>1. CASE Crash
    <2>1. boots' \in Nat
      <3>1. boots \in Nat /\ boots' = boots + 1
        BY <1>1 DEF TypeOK, Crash
      <3>2. QED BY <3>1
    <2>2. pc' \in [Requests -> Pcs]
      BY <1>1 DEF TypeOK, Crash, Pcs, RequestDone
    <2>3. QED BY <1>1, <2>1, <2>2, BlankTypes DEF TypeOK, Crash, tables, history
  <1>2. CASE Boot
    <2>1. PICK catalog \in [SeededBills -> Amounts] :
            seeder' = [IdleSeeder EXCEPT !.pc = "load", !.todo = SeededRows,
                                         !.catalog = catalog]
      BY <1>2 DEF Boot
    <2>2. seeder' \in SeederStates
      BY <2>1, BlankTypes DEF SeederStates
    <2>3. boots' \in Nat
      <3>1. boots \in Nat /\ boots' \in {boots, boots + 1}
        BY <1>2 DEF TypeOK, Boot
      <3>2. QED BY <3>1
    <2>4. QED BY <1>2, <2>2, <2>3 DEF TypeOK, Boot, tables, locals, history
  <1>3. CASE SeedLoad
    <2>1. PICK row \in seeder.todo :
            seeder' = [seeder EXCEPT
                  !.pc = "reload", !.row = row, !.todo = @ \ {row},
                  !.entity = [status |-> SeedStatus(row),
                              amount |-> seeder.catalog[row[2]]]]
      BY <1>3 DEF SeedLoad
    <2>2. row \in SeededRows /\ row[2] \in SeededBills
      BY <2>1 DEF TypeOK, SeederStates, SeededRows
    <2>3. [status |-> SeedStatus(row), amount |-> seeder.catalog[row[2]]] \in BillRow
      BY <2>2 DEF TypeOK, SeederStates, SeedStatus, BillRow
    <2>4. seeder' \in SeederStates
      BY <2>1, <2>2, <2>3 DEF TypeOK, SeederStates
    <2>5. QED BY <1>3, <2>4 DEF TypeOK, SeedLoad, tables, locals, history
  <1>4. CASE SeedReload
    <2>1. bills[seeder.row] \in BillRow /\ seeder.entity \in BillRow
      BY <1>4, SeededAreRows DEF TypeOK, SeedReload, SeederKeepsPaid, SeederStates
    <2>2. Diff(seeder.entity, bills[seeder.row]) \subseteq DOMAIN BlankBill
      BY <2>1, BlankTypes DEF Diff, BillRow
    <2>3. seeder' \in SeederStates
      BY <1>4, <2>2 DEF TypeOK, SeedReload, SeederStates
    <2>4. QED BY <1>4, <2>3 DEF TypeOK, SeedReload, tables, locals, history
  <1>5. CASE SeedWrite
    <2>1. bills' \in [BillRows -> BillRow]
      BY <1>5, PatchBill, SeededAreRows
         DEF TypeOK, SeedWrite, SeederKeepsPaid, SeederStates
    <2>2. seeder' \in SeederStates
      BY <1>5, BlankTypes DEF TypeOK, SeedWrite, SeederStates
    <2>3. QED BY <1>5, <2>1, <2>2 DEF TypeOK, SeedWrite, locals, history
  <1>6. CASE SeedDone
    BY <1>6, BlankTypes DEF TypeOK, SeedDone, tables, locals, history
  <1>7. QED BY <1>1, <1>2, <1>3, <1>4, <1>5, <1>6 DEF Seed
-----------------------------------------------------------------------------
(* What no step undoes                                                     *)

Grows ==
    /\ charged \subseteq charged'
    /\ \A k \in Keys : Recorded(k) => SameIdentity(payments[k], payments'[k])
    /\ \A r \in Requests : pc[r] # "new" => dto'[r] = dto[r] /\ pc'[r] # "new"

Local(r) == /\ HoldsBill(r) /\ HoldsPayment(r) /\ WritesWhatBbpsSaid(r)
            /\ LateOnlyReplays(r) /\ OneHandler(r)

(* A step that is not r's leaves everything of r alone.                    *)
Untouched(r) ==
    /\ pc'[r] = pc[r] /\ payEntity'[r] = payEntity[r] /\ dto'[r] = dto[r]
    /\ (r \in late') = (r \in late)
    /\ (r \in dispatched') = (r \in dispatched)
    /\ (r \in charged') = (r \in charged)

(* The invariant, request by request.                                      *)
LEMMA IInvParts == IInv <=> /\ TypeOK /\ RowsFound
                            /\ \A r \in Requests : Local(r)
                            /\ SeederKeepsPaid
                            /\ PaidOnlyByCharge /\ SuccessOnlyByCharge
  BY DEF IInv, Local

(* What a handler knows stays true while others run: payments keep their   *)
(* identity and charges are never forgotten.                               *)
LEMMA LocalUntouched ==
  ASSUME IInv, Grows, NEW r \in Requests, Untouched(r)
  PROVE  Local(r)'
  <1>1. Local(r) /\ dto[r].key \in Keys
    BY DEF IInv, Local, TypeOK, Dto
  <1>2. HoldsBill(r)'
    BY <1>1 DEF Local, HoldsBill, Untouched
  <1>3. HoldsPayment(r)'
    BY <1>1 DEF Local, HoldsPayment, Untouched, Grows, Recorded, SameIdentity
  <1>4. WritesWhatBbpsSaid(r)'
    BY <1>1 DEF Local, WritesWhatBbpsSaid, Untouched
  <1>5. LateOnlyReplays(r)'
    BY <1>1 DEF Local, LateOnlyReplays, Untouched, Grows, Recorded, SameIdentity
  <1>6. OneHandler(r)'
    BY <1>1 DEF Local, OneHandler, Untouched
  <1>7. QED BY <1>2, <1>3, <1>4, <1>5, <1>6 DEF Local

(* A bill that has been charged stays charged.                             *)
LEMMA ChargedForGrows ==
  ASSUME IInv, Grows, NEW b, ChargedFor(b)
  PROVE  ChargedFor(b)'
  <1>1. PICK r \in charged : /\ Recorded(dto[r].key)
                             /\ payments[dto[r].key].bill = b
    BY DEF ChargedFor
  <1>2. r \in Requests /\ dto[r].key \in Keys /\ pc[r] # "new"
    BY DEF IInv, TypeOK, Dto, OneHandler
  <1>3. r \in charged' /\ dto'[r] = dto[r]
    BY <1>2 DEF Grows
  <1>4. payments'[dto[r].key] # NoPayment /\ payments'[dto[r].key].bill = b
    BY <1>1, <1>2 DEF Grows, SameIdentity
  <1>5. QED BY <1>3, <1>4 DEF ChargedFor, Recorded

(* PaidOnlyByCharge, row by row.                                           *)
LEMMA PaidRow ==
  PaidOnlyByCharge <=> \A row \in BillRows : bills[row].status = "PAID" =>
                          row = Lookup(row[2]) /\ ChargedFor(row[2])
  BY DEF PaidOnlyByCharge, ChargedFor

(* A step that leaves the bill tables alone keeps paid bills charged.      *)
LEMMA SameBills ==
  ASSUME IInv, Grows, UNCHANGED bills
  PROVE  PaidOnlyByCharge'
  <1> SUFFICES ASSUME NEW row \in BillRows, bills'[row].status = "PAID"
               PROVE  row = Lookup(row[2]) /\ ChargedFor(row[2])'
    BY DEF PaidOnlyByCharge, ChargedFor
  <1>1. row = Lookup(row[2]) /\ ChargedFor(row[2])
    BY PaidRow DEF IInv
  <1>2. QED BY <1>1, ChargedForGrows

(* A step that leaves the seeder alone keeps what it is about to write     *)
(* true.                                                                   *)
LEMMA SameSeeder ==
  ASSUME IInv, Grows, UNCHANGED seeder
  PROVE  SeederKeepsPaid'
  <1> SUFFICES ASSUME seeder.pc \in {"reload", "write"}
               PROVE  /\ seeder.row \in SeededRows
                      /\ seeder.entity.status = "PAID" =>
                            /\ seeder.row = Lookup(seeder.row[2])
                            /\ ChargedFor(seeder.row[2])'
    BY DEF SeederKeepsPaid
  <1>1. QED BY ChargedForGrows DEF IInv, SeederKeepsPaid

(* A SUCCESS row whose call answered SUCCESS keeps that call.              *)
LEMMA SameStatus ==
  ASSUME IInv, Grows, NEW k \in Keys, Recorded(k), payments[k].status = "SUCCESS"
  PROVE  \E r \in charged' : dto'[r].key = k
  <1>1. PICK r \in charged : dto[r].key = k
    BY DEF IInv, SuccessOnlyByCharge
  <1>2. r \in Requests /\ pc[r] # "new"
    BY DEF IInv, TypeOK, OneHandler
  <1>3. QED BY <1>1, <1>2 DEF Grows

(* A step that leaves bill_payment alone keeps its rows' bills found and   *)
(* its SUCCESS rows charged.                                               *)
LEMMA SamePayments ==
  ASSUME IInv, Grows, UNCHANGED payments
  PROVE  RowsFound' /\ SuccessOnlyByCharge'
  <1>1. RowsFound'
    BY DEF IInv, RowsFound, Recorded
  <1>2. SuccessOnlyByCharge'
    BY SameStatus DEF SuccessOnlyByCharge, Recorded
  <1>3. QED BY <1>1, <1>2
-----------------------------------------------------------------------------
(* The invariant, action by action                                         *)

(* The steps of a handler that leave both tables and the seeder alone.     *)
LEMMA QuietStep ==
  ASSUME IInv, NEW r \in Requests, UNCHANGED <<bills, payments, seeder>>,
         TypeOK', Grows, Local(r)',
         \A s \in Requests \ {r} : Untouched(s)
  PROVE  IInv' /\ Grows
  <1>1. \A s \in Requests : Local(s)'
    BY LocalUntouched
  <1>2. QED BY <1>1, SameBills, SameSeeder, SamePayments DEF IInv, Local

(* A payment has the bill, amount and owner it has.                        *)
LEMMA SameIdentityRefl ==
  ASSUME TypeOK, NEW k \in Keys, Recorded(k)
  PROVE  SameIdentity(payments[k], payments[k])
  BY DEF Recorded, SameIdentity

(* A handler's own step, when it changes neither its request's body nor a  *)
(* recorded payment.                                                       *)
LEMMA HandlerFrame ==
  ASSUME TypeOK, NEW r \in Requests, NEW p, NEW e,
         pc[r] # "new", pc' = [pc EXCEPT ![r] = p], p # "new",
         payEntity' = [payEntity EXCEPT ![r] = e],
         UNCHANGED <<dto, late>>,
         charged' \in {charged, charged \cup {r}},
         dispatched' \in {dispatched, dispatched \cup {r}}
  PROVE  /\ \A s \in Requests \ {r} : Untouched(s)
         /\ charged \subseteq charged'
         /\ \A s \in Requests : pc[s] # "new" => dto'[s] = dto[s] /\ pc'[s] # "new"
         /\ pc'[r] = p /\ payEntity'[r] = e /\ dto'[r] = dto[r]
  BY DEF TypeOK, Untouched

(* Answering a client without touching a table preserves the invariant.    *)
LEMMA AnswerStep ==
  ASSUME IInv, NEW r \in Requests, NEW outcome, Answer(r, outcome),
         pc[r] # "new", UNCHANGED <<bills, payments, seeder, history>>, TypeOK'
  PROVE  IInv' /\ Grows
  <1>1. /\ \A s \in Requests \ {r} : Untouched(s)
        /\ \A s \in Requests : pc[s] # "new" => dto'[s] = dto[s] /\ pc'[s] # "new"
        /\ pc'[r] = "answered" /\ dto'[r] = dto[r]
    BY HandlerFrame DEF IInv, Answer, history
  <1>2. Grows
    BY <1>1, SameIdentityRefl DEF IInv, Grows, history
  <1>3. Local(r)'
    <2>1. Local(r)
      BY DEF IInv, Local
    <2>2. QED BY <1>1, <2>1
              DEF Local, HoldsBill, HoldsPayment, WritesWhatBbpsSaid,
                  LateOnlyReplays, OneHandler, PayPcs, Recorded, history
  <1>4. QED BY <1>1, <1>2, <1>3, QuietStep

(* A rejected query ends its handler's work and touches nothing else.      *)
LEMMA Rejects ==
  ASSUME TypeOK, NEW r \in Requests, AwaitRejects(r)
  PROVE  /\ Answer(r, "ERROR") /\ pc[r] \notin RequestDone
         /\ pc' = [pc EXCEPT ![r] = "answered"]
         /\ result' = [result EXCEPT ![r] = "ERROR"]
         /\ UNCHANGED <<bills, payments, dto, serving, seeder, boots, history>>
         /\ TypeOK'
  <1>1. faults' \in Nat
    <2>1. faults \in Nat /\ faults' = faults + 1
      BY DEF TypeOK, AwaitRejects
    <2>2. QED BY <2>1
  <1>2. TypeOK'
    BY <1>1, AnswerType DEF AwaitRejects, TypeOK, tables, history
  <1>3. QED BY <1>2 DEF AwaitRejects, Answer, Queries, RequestDone, tables

(* A handler whose query is rejected preserves the invariant.              *)
LEMMA AwaitRejectsStep ==
  ASSUME IInv, NEW r \in Requests, AwaitRejects(r)
  PROVE  IInv' /\ Grows
  <1>1. QED BY Rejects, AnswerStep DEF IInv, RequestDone

(* The arrival of a request preserves the invariant.                       *)
LEMMA SendStep ==
  ASSUME IInv, NEW r \in Requests, NEW d \in Dto, Send(r, d)
  PROVE  IInv' /\ Grows
  <1>1. /\ pc[r] = "new" /\ dto'[r] = d
        /\ pc'[r] = IF d.kind = "create" THEN "check" ELSE "load"
        /\ UNCHANGED <<bills, payments, seeder, payEntity, charged, dispatched>>
        /\ \A s \in Requests \ {r} : Untouched(s)
        /\ r \in late' => Recorded(d.key) \/ r \in late
    BY DEF IInv, TypeOK, Send, Untouched, Recorded, tables, service
  <1>2. Grows
    BY <1>1, SameIdentityRefl DEF IInv, TypeOK, Grows, Untouched
  <1>3. Local(r)'
    <2>1. Local(r) /\ d.kind \in {"create", "retry"}
      BY DEF IInv, Local, Dto
    <2>2. QED BY <1>1, <2>1
              DEF Local, HoldsBill, HoldsPayment, WritesWhatBbpsSaid,
                  LateOnlyReplays, OneHandler, PayPcs, Recorded
  <1>4. QED BY <1>1, <1>2, <1>3, SendType, QuietStep DEF IInv

(* create's look-up of the key preserves the invariant.                    *)
LEMMA CheckKeyStep ==
  ASSUME IInv, NEW r \in Requests, CheckKey(r)
  PROVE  IInv' /\ Grows
  <1>1. /\ pc[r] = "check" /\ TypeOK'
        /\ UNCHANGED <<bills, payments, seeder, history>>
    BY CheckKeyType DEF IInv, CheckKey, tables, service
  <1>2. CASE Answer(r, "PAYMENT_NOT_FOUND")
    BY <1>1, <1>2, AnswerStep
  <1>3. CASE /\ pc' = [pc EXCEPT ![r] = "find"]
             /\ UNCHANGED <<dto, payEntity>>
    <2>1. /\ \A s \in Requests \ {r} : Untouched(s)
          /\ \A s \in Requests : pc[s] # "new" => dto'[s] = dto[s] /\ pc'[s] # "new"
          /\ pc'[r] = "find" /\ dto'[r] = dto[r] /\ ~Recorded(dto[r].key)
      BY <1>1, <1>3 DEF IInv, TypeOK, Untouched, history, CheckKey, Answer,
                        Existing, Recorded
    <2>2. Grows
      BY <1>1, <2>1, SameIdentityRefl DEF IInv, Grows, history
    <2>3. Local(r)'
      <3>1. Local(r)
        BY DEF IInv, Local
      <3>2. QED BY <1>1, <2>1, <3>1
                DEF Local, HoldsBill, HoldsPayment, WritesWhatBbpsSaid,
                    LateOnlyReplays, OneHandler, PayPcs, Recorded, history
    <2>4. QED BY <1>1, <2>1, <2>2, <2>3, QuietStep
  <1>4. CASE /\ Recorded(dto[r].key)
             /\ payEntity' = [payEntity EXCEPT ![r] = payments[dto[r].key]]
             /\ pc' = [pc EXCEPT ![r] = "replay"]
             /\ UNCHANGED dto
    <2>1. /\ \A s \in Requests \ {r} : Untouched(s)
          /\ \A s \in Requests : pc[s] # "new" => dto'[s] = dto[s] /\ pc'[s] # "new"
          /\ pc'[r] = "replay" /\ dto'[r] = dto[r]
          /\ payEntity'[r] = payments[dto[r].key]
      BY <1>1, <1>4, HandlerFrame DEF IInv, history
    <2>2. Grows
      BY <1>1, <2>1, SameIdentityRefl DEF IInv, Grows, history
    <2>3. Local(r)'
      <3>1. Local(r) /\ dto[r].key \in Keys
        BY DEF IInv, Local, TypeOK, Dto
      <3>2. QED BY <1>1, <1>4, <2>1, <3>1
                DEF Local, HoldsBill, HoldsPayment, WritesWhatBbpsSaid, SameIdentity,
                    LateOnlyReplays, OneHandler, PayPcs, Recorded, history
    <2>4. QED BY <1>1, <2>1, <2>2, <2>3, QuietStep
  <1>5. QED BY <1>2, <1>3, <1>4 DEF CheckKey, Existing, Recorded

(* create's look-up of the bill preserves the invariant.                   *)
LEMMA FindBillStep ==
  ASSUME IInv, NEW r \in Requests, FindBill(r)
  PROVE  IInv' /\ Grows
  <1>1. /\ pc[r] = "find" /\ TypeOK'
        /\ UNCHANGED <<bills, payments, seeder, history>>
    BY FindBillType DEF IInv, FindBill, tables, service
  <1>2. CASE \E outcome : Answer(r, outcome)
    BY <1>1, <1>2, AnswerStep
  <1>3. CASE /\ Found(dto[r].bill)
             /\ pc' = [pc EXCEPT ![r] = "dispatch"]
             /\ UNCHANGED <<dto, payEntity>>
    <2>1. /\ \A s \in Requests \ {r} : Untouched(s)
          /\ \A s \in Requests : pc[s] # "new" => dto'[s] = dto[s] /\ pc'[s] # "new"
          /\ pc'[r] = "dispatch" /\ dto'[r] = dto[r] /\ payEntity'[r] = payEntity[r]
      BY <1>1, <1>3 DEF IInv, TypeOK, Untouched, history
    <2>2. Grows
      BY <1>1, <2>1, SameIdentityRefl DEF IInv, Grows, history
    <2>3. Local(r)'
      <3>1. Local(r)
        BY DEF IInv, Local
      <3>2. QED BY <1>1, <1>3, <2>1, <3>1
                DEF Local, HoldsBill, HoldsPayment, WritesWhatBbpsSaid, Found,
                    LateOnlyReplays, OneHandler, PayPcs, Recorded, history
    <2>4. QED BY <1>1, <2>1, <2>2, <2>3, QuietStep
  <1>4. QED BY <1>2, <1>3 DEF FindBill

(* create's call of BBPS preserves the invariant: the copy it builds is    *)
(* SUCCESS only if the call was.                                           *)
LEMMA DispatchStep ==
  ASSUME IInv, NEW r \in Requests, Dispatch(r)
  PROVE  IInv' /\ Grows
  <1>1. PICK status \in Statuses :
          /\ CallBbps(r, status)
          /\ payEntity' = [payEntity EXCEPT ![r] =
                [bill |-> dto[r].bill, amount |-> billEntity[r].amount,
                 status |-> status, ref |-> Reference(r, status),
                 owner |-> dto[r].actor]]
    BY DEF Dispatch
  <1>2. /\ pc[r] = "dispatch" /\ TypeOK'
        /\ UNCHANGED <<bills, payments, seeder, dto, late>>
        /\ pc' = [pc EXCEPT ![r] = "insert"]
        /\ dispatched' = dispatched \cup {r}
        /\ charged' = IF status = "SUCCESS" THEN charged \cup {r} ELSE charged
    BY <1>1, DispatchType DEF IInv, Dispatch, CallBbps, tables, service
  <1>3. /\ \A s \in Requests \ {r} : Untouched(s)
        /\ charged \subseteq charged'
        /\ \A s \in Requests : pc[s] # "new" => dto'[s] = dto[s] /\ pc'[s] # "new"
        /\ pc'[r] = "insert" /\ dto'[r] = dto[r]
        /\ payEntity'[r].bill = dto[r].bill /\ payEntity'[r].status = status
    <2>1. /\ TypeOK /\ pc[r] # "new"
          /\ charged' \in {charged, charged \cup {r}}
          /\ dispatched' \in {dispatched, dispatched \cup {r}}
      BY <1>2, Zenon DEF IInv, Dispatch
    <2>2. payEntity'[r].bill = dto[r].bill /\ payEntity'[r].status = status
      BY <1>1, <2>1 DEF TypeOK
    <2>3. \A s \in Requests \ {r} : payEntity'[s] = payEntity[s]
      BY <1>1, <2>1 DEF TypeOK
    <2>4. QED BY <1>2, <2>1, <2>2, <2>3 DEF TypeOK, Untouched
  <1>4. Grows
    BY <1>2, <1>3, SameIdentityRefl DEF IInv, Grows
  <1>5. Local(r)'
    <2>1. Local(r)
      BY DEF IInv, Local
    <2>2. QED BY <1>2, <1>3, <2>1
              DEF Local, HoldsBill, HoldsPayment, WritesWhatBbpsSaid, Found,
                  LateOnlyReplays, OneHandler, PayPcs, Recorded
  <1>6. QED BY <1>2, <1>3, <1>4, <1>5, QuietStep

(* An INSERT and the UPDATE of a save write the acting handler's copy.     *)
LEMMA InsertPaymentStep ==
  ASSUME IInv, NEW r \in Requests, InsertPayment(r)
  PROVE  IInv' /\ Grows
  <1>1. /\ pc[r] = "insert" /\ TypeOK' /\ UNCHANGED <<bills, seeder, history, dto>>
        /\ dto[r].key \in Keys /\ Local(r)
        /\ payEntity[r] \in PaymentRow /\ payEntity[r] # NoPayment
    <2>1. payEntity[r] \in PaymentRow /\ dto[r].key \in Keys /\ Local(r)
      BY DEF IInv, TypeOK, Dto, Local
    <2>2. UNCHANGED dto
      BY DEF InsertPayment, Answer
    <2>3. QED BY <2>1, <2>2, InsertPaymentType, NoPaymentAssumption
              DEF IInv, InsertPayment, service
  <1>2. CASE ~KeyFree(dto[r].key)
    BY <1>1, <1>2, AnswerStep DEF InsertPayment
  <1>3. CASE KeyFree(dto[r].key)
    <2>1. payments' = [payments EXCEPT ![dto[r].key] = payEntity[r]]
      BY <1>3 DEF InsertPayment
    <2>2. PICK p \in {"answered", "markReload"} :
            /\ pc' = [pc EXCEPT ![r] = p]
            /\ p = "markReload" => /\ payEntity[r].status = "SUCCESS"
                                   /\ UNCHANGED payEntity
            /\ \A s \in Requests \ {r} : payEntity'[s] = payEntity[s]
      BY <1>3 DEF InsertPayment, Answer, Settles, IInv, TypeOK
    <2>3. /\ \A s \in Requests \ {r} : Untouched(s)
          /\ \A s \in Requests : pc[s] # "new" => dto'[s] = dto[s] /\ pc'[s] # "new"
          /\ pc'[r] = p
      BY <1>1, <2>2 DEF IInv, TypeOK, Untouched, history
    <2>4. Grows
      BY <1>1, <1>3, <2>1, <2>3, SameIdentityRefl
         DEF IInv, TypeOK, Grows, history, KeyFree, Recorded
    <2>5. Local(r)'
      BY <1>1, <2>1, <2>2, <2>3
         DEF IInv, TypeOK, Local, HoldsBill, HoldsPayment, WritesWhatBbpsSaid,
             LateOnlyReplays, OneHandler, PayPcs, Recorded, SameIdentity, history
    <2>6. RowsFound'
      BY <1>1, <2>1 DEF IInv, TypeOK, RowsFound, Recorded, Local, HoldsBill, Found
    <2>7. SuccessOnlyByCharge'
      <3> SUFFICES ASSUME NEW k \in Keys, Recorded(k)', payments'[k].status = "SUCCESS"
                   PROVE  \E q \in charged' : dto'[q].key = k
        BY DEF SuccessOnlyByCharge
      <3>1. CASE k = dto[r].key
        BY <1>1, <2>1, <3>1 DEF IInv, TypeOK, Local, WritesWhatBbpsSaid, history
      <3>2. CASE k # dto[r].key
        BY <2>1, <2>4, <3>2, SameStatus DEF IInv, TypeOK, Recorded
      <3>3. QED BY <3>1, <3>2
    <2>8. \A s \in Requests : Local(s)'
      BY <2>3, <2>4, <2>5, LocalUntouched
    <2>9. QED BY <1>1, <2>4, <2>6, <2>7, <2>8, SameBills, SameSeeder DEF IInv, Local
  <1>4. QED BY <1>2, <1>3

(* Returning the recorded payment for a repeated key preserves the         *)
(* invariant.                                                              *)
LEMMA ReplayStep ==
  ASSUME IInv, NEW r \in Requests, Replay(r)
  PROVE  IInv' /\ Grows
  BY ReplayType, AnswerStep DEF IInv, Replay, tables, service

(* MarkReload, SaveReload and Refind take a handler one step further.      *)
LEMMA NextReadStep ==
  ASSUME IInv, NEW r \in Requests, MarkReload(r) \/ SaveReload(r) \/ Refind(r)
  PROVE  IInv' /\ Grows
  <1>1. PICK p \in {"markWrite", "saveWrite", "markReload"} :
          /\ pc' = [pc EXCEPT ![r] = p]
          /\ p = "markWrite" => pc[r] = "markReload"
          /\ p = "saveWrite" => pc[r] = "saveReload"
          /\ p = "markReload" => pc[r] = "refind"
    BY DEF MarkReload, SaveReload, Refind
  <1>2. /\ UNCHANGED <<bills, payments, seeder, payEntity, dto, history>>
        /\ Local(r)
    BY DEF IInv, Local, MarkReload, SaveReload, Refind, tables, service
  <1>3. TypeOK'
    BY SaveBillType, RetryType DEF IInv, SaveBill, Retry
  <1>4. /\ \A s \in Requests \ {r} : Untouched(s)
        /\ \A s \in Requests : pc[s] # "new" => dto'[s] = dto[s] /\ pc'[s] # "new"
        /\ pc'[r] = p
    BY <1>1, <1>2 DEF IInv, TypeOK, Untouched, history
  <1>5. Grows
    BY <1>2, <1>4, SameIdentityRefl DEF IInv, Grows, history
  <1>6. Local(r)'
    BY <1>1, <1>2, <1>4
       DEF Local, HoldsBill, HoldsPayment, WritesWhatBbpsSaid, LateOnlyReplays,
           OneHandler, PayPcs, Recorded, SameIdentity, history
  <1>7. QED BY <1>2, <1>3, <1>4, <1>5, <1>6, QuietStep

(* The UPDATE of save(bill) preserves the invariant: it writes PAID for    *)
(* the bill of a charged payment.                                          *)
LEMMA MarkWriteStep ==
  ASSUME IInv, NEW r \in Requests, MarkWrite(r)
  PROVE  IInv' /\ Grows
  <1> DEFINE b == payEntity[r].bill
  <1>1. /\ pc[r] = "markWrite" /\ Answer(r, "SUCCESS")
        /\ UNCHANGED <<payments, seeder, history, dto>>
        /\ bills' = [bills EXCEPT ![Lookup(b)] =
                       Patch(bills[Lookup(b)], billEntity[r], dirty[r])]
    BY DEF MarkWrite, Answer, service
  <1>2. TypeOK' /\ Local(r)
    BY SaveBillType DEF IInv, SaveBill, Local
  <1>3. /\ b \in Bills /\ Found(b) /\ r \in charged /\ Recorded(dto[r].key)
        /\ payments[dto[r].key].bill = b
    <2>1. pc[r] \in PayPcs \ {"insert"} /\ HoldsPayment(r)
      BY <1>1, <1>2 DEF Local, PayPcs
    <2>2. b \in Bills /\ Found(b)
      BY <2>1, HeldBill DEF IInv
    <2>3. QED BY <1>1, <1>2, <2>1, <2>2
              DEF Local, HoldsPayment, WritesWhatBbpsSaid, SameIdentity
  <1>4. /\ \A s \in Requests \ {r} : Untouched(s)
        /\ \A s \in Requests : pc[s] # "new" => dto'[s] = dto[s] /\ pc'[s] # "new"
        /\ pc'[r] = "answered"
    BY <1>1, HandlerFrame DEF IInv, Answer, history
  <1>5. Grows
    BY <1>1, <1>4, SameIdentityRefl DEF IInv, Grows, history
  <1>6. \A s \in Requests : Local(s)'
    <2>1. Local(r)'
      BY <1>1, <1>2, <1>4
         DEF Local, HoldsBill, HoldsPayment, WritesWhatBbpsSaid, LateOnlyReplays,
             OneHandler, PayPcs, Recorded, history
    <2>2. QED BY <1>4, <1>5, <2>1, LocalUntouched
  <1>7. PaidOnlyByCharge'
    <2> SUFFICES ASSUME NEW row \in BillRows, bills'[row].status = "PAID"
                 PROVE  row = Lookup(row[2]) /\ ChargedFor(row[2])'
      BY DEF PaidOnlyByCharge, ChargedFor
    <2>1. CASE row = Lookup(b)
      <3>1. row[2] = b
        BY <1>3, <2>1, LookupFound
      <3>2. ChargedFor(b)
        BY <1>3 DEF ChargedFor
      <3>3. QED BY <1>5, <2>1, <3>1, <3>2, ChargedForGrows
    <2>2. CASE row # Lookup(b)
      <3>1. bills[row].status = "PAID"
        BY <1>1, <2>2 DEF IInv, TypeOK
      <3>2. row = Lookup(row[2]) /\ ChargedFor(row[2])
        BY <3>1, PaidRow DEF IInv
      <3>3. QED BY <1>5, <3>2, ChargedForGrows
    <2>3. QED BY <2>1, <2>2
  <1>8. QED BY <1>1, <1>2, <1>5, <1>6, <1>7, SameSeeder, SamePayments DEF IInv, Local

(* payViaBbps's look-up of the payment preserves the invariant.            *)
LEMMA LoadPaymentStep ==
  ASSUME IInv, NEW r \in Requests, LoadPayment(r)
  PROVE  IInv' /\ Grows
  <1>1. /\ pc[r] = "load" /\ TypeOK'
        /\ UNCHANGED <<bills, payments, seeder, history>>
    BY RetryType DEF IInv, Retry, LoadPayment, tables, service
  <1>2. CASE \E outcome : Answer(r, outcome)
    BY <1>1, <1>2, AnswerStep
  <1>3. CASE /\ Recorded(dto[r].key)
             /\ payments[dto[r].key].status # "SUCCESS"
             /\ payEntity' = [payEntity EXCEPT ![r] = payments[dto[r].key]]
             /\ pc' = [pc EXCEPT ![r] = "redispatch"]
             /\ UNCHANGED dto
    <2>1. /\ \A s \in Requests \ {r} : Untouched(s)
          /\ \A s \in Requests : pc[s] # "new" => dto'[s] = dto[s] /\ pc'[s] # "new"
          /\ pc'[r] = "redispatch" /\ dto'[r] = dto[r]
          /\ payEntity'[r] = payments[dto[r].key]
      BY <1>1, <1>3 DEF IInv, TypeOK, Untouched, history
    <2>2. Grows
      BY <1>1, <2>1, SameIdentityRefl DEF IInv, Grows, history
    <2>3. Local(r)'
      <3>1. Local(r) /\ dto[r].key \in Keys
        BY DEF IInv, Local, TypeOK, Dto
      <3>2. QED BY <1>1, <1>3, <2>1, <3>1
                DEF Local, HoldsBill, HoldsPayment, WritesWhatBbpsSaid, SameIdentity,
                    LateOnlyReplays, OneHandler, PayPcs, Recorded, history
    <2>4. QED BY <1>1, <2>1, <2>2, <2>3, QuietStep
  <1>4. QED BY <1>2, <1>3 DEF LoadPayment, Recorded, Final

(* payViaBbps's call of BBPS preserves the invariant.                      *)
LEMMA RedispatchStep ==
  ASSUME IInv, NEW r \in Requests, Redispatch(r)
  PROVE  IInv' /\ Grows
  <1>1. PICK status \in Statuses :
          /\ CallBbps(r, status)
          /\ payEntity' = [payEntity EXCEPT
                ![r].status = status,
                ![r].ref = NewReference(r, status, @)]
    BY DEF Redispatch
  <1>2. /\ pc[r] = "redispatch" /\ TypeOK' /\ Local(r) /\ TypeOK
        /\ UNCHANGED <<bills, payments, seeder, dto, late>>
        /\ pc' = [pc EXCEPT ![r] = "saveReload"]
        /\ dispatched' = dispatched \cup {r}
        /\ charged' = IF status = "SUCCESS" THEN charged \cup {r} ELSE charged
    BY <1>1, RetryType DEF IInv, Local, Retry, Redispatch, CallBbps, tables, service
  <1>3. /\ payEntity'[r].status = status
        /\ payEntity'[r].bill = payEntity[r].bill
        /\ payEntity'[r].amount = payEntity[r].amount
        /\ payEntity'[r].owner = payEntity[r].owner
        /\ \A s \in Requests \ {r} : payEntity'[s] = payEntity[s]
    BY <1>1, <1>2 DEF TypeOK, PaymentRow
  <1>4. /\ \A s \in Requests \ {r} : Untouched(s)
        /\ charged \subseteq charged'
        /\ \A s \in Requests : pc[s] # "new" => dto'[s] = dto[s] /\ pc'[s] # "new"
        /\ pc'[r] = "saveReload" /\ dto'[r] = dto[r]
    BY <1>2, <1>3 DEF TypeOK, Untouched
  <1>5. Grows
    BY <1>2, <1>4, SameIdentityRefl DEF Grows
  <1>6. Local(r)'
    <2> payEntity'[r] # NoPayment
      BY <1>2, NoPaymentAssumption DEF TypeOK
    <2>1. HoldsPayment(r)'
      BY <1>2, <1>3, <1>4 DEF Local, HoldsPayment, SameIdentity, PayPcs, Recorded
    <2>2. LateOnlyReplays(r)' /\ OneHandler(r)'
      BY <1>2, <1>4 DEF Local, LateOnlyReplays, OneHandler, Recorded
    <2>3. HoldsBill(r)' /\ WritesWhatBbpsSaid(r)'
      BY <1>2, <1>3, <1>4 DEF Local, HoldsBill, WritesWhatBbpsSaid
    <2>4. QED BY <2>1, <2>2, <2>3 DEF Local
  <1>7. QED BY <1>2, <1>4, <1>5, <1>6, QuietStep

(* The UPDATE of save(payment) preserves the invariant: it may overwrite a *)
(* status, never a payment's identity.                                     *)
LEMMA SaveWriteStep ==
  ASSUME IInv, NEW r \in Requests, SaveWrite(r)
  PROVE  IInv' /\ Grows
  <1> DEFINE k == dto[r].key
  <1> DEFINE new == Patch(payments[k], payEntity[r], dirty[r])
  <1>1. /\ pc[r] = "saveWrite" /\ Local(r) /\ TypeOK'
        /\ UNCHANGED <<bills, seeder, history, dto>>
        /\ payments' = [payments EXCEPT ![k] = new]
    BY RetryType DEF IInv, Local, Retry, SaveWrite, Answer, service
  <1>2. /\ k \in Keys /\ Recorded(k) /\ payments[k] \in PaymentRow
        /\ payEntity[r] \in PaymentRow
        /\ SameIdentity(payments[k], payEntity[r])
    BY <1>1 DEF IInv, TypeOK, Dto, Local, HoldsPayment, Recorded, PayPcs
  <1>3. /\ SameIdentity(payments[k], new)
        /\ new.status \in {payments[k].status, payEntity[r].status}
    BY <1>2, PatchPayment, NoPaymentAssumption DEF SameIdentity
  <1>4. PICK p \in {"answered", "refind"} :
          /\ pc' = [pc EXCEPT ![r] = p]
          /\ p = "refind" => /\ payEntity[r].status = "SUCCESS"
                             /\ UNCHANGED payEntity
          /\ \A s \in Requests \ {r} : payEntity'[s] = payEntity[s]
    BY DEF SaveWrite, Answer, Settles, IInv, TypeOK
  <1>5. /\ \A s \in Requests \ {r} : Untouched(s)
        /\ \A s \in Requests : pc[s] # "new" => dto'[s] = dto[s] /\ pc'[s] # "new"
        /\ pc'[r] = p
    BY <1>1, <1>4 DEF IInv, TypeOK, Untouched, history
  <1>6. /\ payments'[k] = new
        /\ \A j \in Keys \ {k} : payments'[j] = payments[j]
    BY <1>1, <1>2 DEF IInv, TypeOK
  <1>7. Grows
    <2>1. \A j \in Keys : Recorded(j) => SameIdentity(payments[j], payments'[j])
      BY <1>3, <1>6, SameIdentityRefl DEF IInv
    <2>2. QED BY <1>1, <1>5, <2>1 DEF Grows, history
  <1>8. Local(r)'
    BY <1>1, <1>2, <1>3, <1>4, <1>5, <1>6
       DEF Local, HoldsBill, HoldsPayment, WritesWhatBbpsSaid, LateOnlyReplays,
           OneHandler, PayPcs, Recorded, SameIdentity, history
  <1>9. RowsFound'
    BY <1>2, <1>3, <1>6 DEF IInv, RowsFound, Recorded, SameIdentity
  <1>10. SuccessOnlyByCharge'
    <2> SUFFICES ASSUME NEW j \in Keys, Recorded(j)', payments'[j].status = "SUCCESS"
                 PROVE  \E q \in charged' : dto'[q].key = j
      BY DEF SuccessOnlyByCharge
    <2>1. CASE j = k /\ payEntity[r].status = "SUCCESS"
      BY <1>1, <2>1 DEF Local, WritesWhatBbpsSaid, history
    <2>2. CASE payments[j].status = "SUCCESS" /\ Recorded(j)
      BY <1>7, <2>2, SameStatus
    <2>3. QED BY <1>2, <1>3, <1>6, <2>1, <2>2 DEF Recorded
  <1>11. QED
    BY <1>1, <1>5, <1>7, <1>8, <1>9, <1>10, LocalUntouched, SameBills, SameSeeder
       DEF IInv, Local
-----------------------------------------------------------------------------
(* Crashes, boots and the seeder                                           *)

(* A step of the service that leaves the handlers alone.                   *)
LEMMA ServiceFrame ==
  ASSUME IInv, TypeOK', UNCHANGED <<payments, locals, history>>
  PROVE  /\ Grows /\ RowsFound' /\ SuccessOnlyByCharge'
         /\ \A s \in Requests : Local(s)'
  <1>1. Grows
    BY SameIdentityRefl DEF IInv, Grows, locals, history
  <1>2. \A s \in Requests : Untouched(s)
    BY DEF Untouched, locals, history
  <1>3. QED BY <1>1, <1>2, LocalUntouched, SamePayments

(* A crash preserves the invariant: rows and charges outlive the handlers. *)
LEMMA CrashStep ==
  ASSUME IInv, Crash
  PROVE  IInv' /\ Grows
  <1>1. /\ TypeOK' /\ UNCHANGED <<bills, payments, dto, history>>
        /\ seeder' = IdleSeeder
        /\ \A s \in Requests : pc'[s] = IF s \in InFlight THEN "lost" ELSE pc[s]
    BY ServiceType DEF IInv, Crash, tables
  <1>2. Grows
    BY <1>1, SameIdentityRefl DEF IInv, Grows, history, InFlight, RequestDone
  <1>3. \A s \in Requests : Local(s)'
    <2> TAKE s \in Requests
    <2>1. pc'[s] \in {"new", "answered", "lost"} /\ (pc'[s] = "new" <=> pc[s] = "new")
      BY <1>1 DEF InFlight, RequestDone
    <2>2. Local(s)
      BY DEF IInv, Local
    <2>3. QED BY <1>1, <2>1, <2>2
              DEF Local, HoldsBill, HoldsPayment, WritesWhatBbpsSaid,
                  LateOnlyReplays, OneHandler, PayPcs, Recorded, history
  <1>4. SeederKeepsPaid'
    BY <1>1 DEF SeederKeepsPaid, IdleSeeder
  <1>5. QED BY <1>1, <1>2, <1>3, <1>4, SameBills, SamePayments DEF IInv, Local

(* A boot and the seeder's steps preserve the invariant: it writes back    *)
(* the status it read, so PAID only where a charge stands behind it.       *)
LEMMA SeederStep ==
  ASSUME IInv, Boot \/ Seed
  PROVE  IInv' /\ Grows
  <1>1. /\ TypeOK' /\ UNCHANGED <<payments, locals, history>>
    BY ServiceType
       DEF IInv, Boot, Seed, SeedLoad, SeedReload, SeedWrite, SeedDone, tables
  <1>2. /\ Grows /\ RowsFound' /\ SuccessOnlyByCharge'
        /\ \A s \in Requests : Local(s)'
    BY <1>1, ServiceFrame
  <1>3. SeederKeepsPaid' /\ PaidOnlyByCharge'
    <2>1. CASE Boot
      BY <1>2, <2>1, SameBills DEF Boot, SeederKeepsPaid, IdleSeeder, tables
    <2>2. CASE SeedLoad
      <3>1. UNCHANGED bills /\ PaidOnlyByCharge'
        BY <1>2, <2>2, SameBills DEF SeedLoad, tables
      <3>2. PICK row \in seeder.todo :
              seeder' = [seeder EXCEPT
                    !.pc = "reload", !.row = row, !.todo = @ \ {row},
                    !.entity = [status |-> SeedStatus(row),
                                amount |-> seeder.catalog[row[2]]]]
        BY <2>2 DEF SeedLoad
      <3>3. /\ row \in SeededRows /\ seeder'.row = row
            /\ seeder'.entity.status = SeedStatus(row)
        BY <3>2 DEF IInv, TypeOK, SeederStates
      <3>4. SeedStatus(row) = "PAID" => row = Lookup(row[2]) /\ ChargedFor(row[2])
        BY <3>3, PaidRow, SeededAreRows DEF IInv, SeedStatus
      <3>5. SeederKeepsPaid'
        BY <1>2, <3>3, <3>4, ChargedForGrows DEF SeederKeepsPaid
      <3>6. QED BY <3>1, <3>5
    <2>3. CASE SeedReload
      <3>1. UNCHANGED bills /\ PaidOnlyByCharge'
        BY <1>2, <2>3, SameBills DEF SeedReload, tables
      <3>2. /\ seeder.pc = "reload"
            /\ seeder'.row = seeder.row /\ seeder'.entity = seeder.entity
        BY <2>3 DEF SeedReload, IInv, TypeOK, SeederStates
      <3>3. SeederKeepsPaid'
        BY <1>2, <3>2, ChargedForGrows DEF IInv, SeederKeepsPaid
      <3>4. QED BY <3>1, <3>3
    <2>4. CASE SeedWrite
      <3>1. /\ seeder.pc = "write" /\ seeder'.pc = "load"
            /\ bills' = [bills EXCEPT ![seeder.row] =
                           Patch(bills[seeder.row], seeder.entity, seeder.cols)]
        BY <2>4 DEF SeedWrite, IInv, TypeOK, SeederStates
      <3>2. SeederKeepsPaid'
        BY <3>1 DEF SeederKeepsPaid
      <3>3. PaidOnlyByCharge'
        <4> SUFFICES ASSUME NEW row \in BillRows, bills'[row].status = "PAID"
                     PROVE  row = Lookup(row[2]) /\ ChargedFor(row[2])'
          BY DEF PaidOnlyByCharge, ChargedFor
        <4>1. \/ bills[row].status = "PAID"
              \/ row = seeder.row /\ seeder.entity.status = "PAID"
          BY <3>1, PatchBill DEF IInv, TypeOK, SeederStates
        <4>2. row = Lookup(row[2]) /\ ChargedFor(row[2])
          BY <3>1, <4>1, PaidRow DEF IInv, SeederKeepsPaid
        <4>3. QED BY <1>2, <4>2, ChargedForGrows
      <3>4. QED BY <3>2, <3>3
    <2>5. CASE SeedDone
      BY <1>2, <2>5, SameBills DEF SeedDone, SeederKeepsPaid, IdleSeeder, tables
    <2>6. QED BY <2>1, <2>2, <2>3, <2>4, <2>5 DEF Seed
  <1>4. QED BY <1>1, <1>2, <1>3 DEF IInv, Local

-----------------------------------------------------------------------------
(* The theorems                                                            *)

(* The invariant holds of the empty service.                               *)
LEMMA InitIInv == Init => IInv
  <1> SUFFICES ASSUME Init PROVE IInv OBVIOUS
  <1>1. TypeOK
    BY InitType
  <1>2. /\ \A k \in Keys : ~Recorded(k)
        /\ \A r \in Requests : pc[r] = "new"
        /\ seeder.pc = "off" /\ dispatched = {} /\ charged = {} /\ late = {}
    BY DEF Init, Recorded, IdleSeeder
  <1>3. \A row \in BillRows : bills[row].status = "UNPAID"
    <2>1. PICK price \in [BillRows -> Amounts] :
             bills = [br \in BillRows |-> [status |-> "UNPAID", amount |-> price[br]]]
      BY DEF Init
    <2>2. QED BY <2>1
  <1>4. \A r \in Requests : Local(r)
    BY <1>2 DEF Local, HoldsBill, HoldsPayment, WritesWhatBbpsSaid,
                LateOnlyReplays, OneHandler, PayPcs
  <1>5. QED BY <1>1, <1>2, <1>3, <1>4
            DEF IInv, Local, RowsFound, SeederKeepsPaid, PaidOnlyByCharge,
                SuccessOnlyByCharge

(* Every step preserves the invariant, and none undoes what Grows lists.   *)
LEMMA NextIInv == IInv /\ [Next]_vars => IInv' /\ Grows
  <1> SUFFICES ASSUME IInv, [Next]_vars PROVE IInv' /\ Grows OBVIOUS
  <1>1. ASSUME NEW r \in Requests, SendCreate(r) PROVE IInv' /\ Grows
    BY <1>1, SendStep DEF SendCreate
  <1>2. ASSUME NEW r \in Requests, SendRetry(r) PROVE IInv' /\ Grows
    <2>1. PICK k \in Keys, a \in Actors :
            Send(r, [dto[r] EXCEPT !.kind = "retry", !.key = k, !.actor = a])
      BY <1>2 DEF SendRetry
    <2>2. dto[r] \in Dto
      BY DEF IInv, TypeOK
    <2>3. [dto[r] EXCEPT !.kind = "retry", !.key = k, !.actor = a] \in Dto
      BY <2>2 DEF Dto
    <2>4. QED BY <2>1, <2>3, SendStep
  <1>3. ASSUME NEW r \in Requests, Handle(r) PROVE IInv' /\ Grows
    BY <1>3, CheckKeyStep, ReplayStep, FindBillStep, DispatchStep, InsertPaymentStep,
       NextReadStep, MarkWriteStep, LoadPaymentStep, RedispatchStep, SaveWriteStep,
       AwaitRejectsStep
       DEF Handle, Create, SaveBill, Retry, AwaitRejects
  <1>4. CASE Crash \/ Boot \/ Seed
    BY <1>4, CrashStep, SeederStep
  <1>5. CASE UNCHANGED vars
    <2>1. UNCHANGED <<bills, payments, locals, history, seeder, boots, serving, faults>>
      BY <1>5 DEF vars, locals, history
    <2>2. TypeOK'
      BY <2>1 DEF IInv, TypeOK, locals, history
    <2>3. QED BY <2>1, <2>2, ServiceFrame, SameBills, SameSeeder DEF IInv, Local
  <1>6. QED BY <1>1, <1>2, <1>3, <1>4, <1>5 DEF Next

(* At every point of every execution of PaymentService, its adapter and    *)
(* the catalog seeder, the inductive invariant holds.                      *)
THEOREM Inductive == Spec => []IInv
  <1>1. QED BY InitIInv, NextIInv, PTL DEF Spec

(* Tables, handlers' locals and seeder are well-typed in every reachable   *)
(* state.                                                                  *)
THEOREM TypesCorrect == Spec => []TypeOK
  <1>1. IInv => TypeOK
    BY DEF IInv
  <1>2. QED BY <1>1, Inductive, PTL

(* A bill row reads PAID only if a BBPS call for that bill answered        *)
(* SUCCESS and its payment is recorded, whatever create, payViaBbps, the   *)
(* seeder and crashes do.                                                  *)
THEOREM PaidBillsWereCharged == Spec => []PaidOnlyByCharge
  <1>1. IInv => PaidOnlyByCharge
    BY DEF IInv
  <1>2. QED BY <1>1, Inductive, PTL

(* A payment row reads SUCCESS only if a BBPS call under its key answered  *)
(* SUCCESS.                                                                *)
THEOREM SuccessWasCharged == Spec => []SuccessOnlyByCharge
  <1>1. IInv => SuccessOnlyByCharge
    BY DEF IInv
  <1>2. QED BY <1>1, Inductive, PTL

(* A create that arrives when its key already has a payment does not call  *)
(* BBPS.                                                                   *)
THEOREM RecordedKeysAreSafe == Spec => []RecordedKeyNeverRedispatched
  <1>1. IInv => RecordedKeyNeverRedispatched
    BY DEF IInv, TypeOK, LateOnlyReplays, RecordedKeyNeverRedispatched
  <1>2. QED BY <1>1, Inductive, PTL

(* No create, retry or save changes the bill, the amount or the owner of a *)
(* recorded payment, nor removes it.                                       *)
THEOREM PaymentsKeepIdentity == Spec => IdentityStable
  <1>1. IInv /\ [Next]_vars =>
          [\A k \in Keys : Recorded(k) => SameIdentity(payments[k], payments'[k])]_vars
    BY NextIInv DEF Grows
  <1>2. QED BY <1>1, Inductive, PTL DEF Spec, IdentityStable
-----------------------------------------------------------------------------
(* PAID is final where instances do not boot beside a serving one          *)

(* Nothing is in flight before the first boot.                             *)
LEMMA InitBootAlone == Init => BootAlone
  BY DEF Init, BootAlone, IdleSeeder, InFlight, RequestDone

(* Apart from the UPDATE of save(bill), a handler's step touches no bill   *)
(* row and starts no seeder.                                               *)
LEMMA HandlerBootAlone ==
  ASSUME IInv, BootAlone, NEW r \in Requests,
         SendCreate(r) \/ SendRetry(r) \/ Handle(r), ~MarkWrite(r)
  PROVE  BootAlone' /\ UNCHANGED bills
  <1>1. /\ serving /\ UNCHANGED <<bills, seeder, serving>>
    <2>1. CASE SendCreate(r) \/ SendRetry(r)
      BY <2>1 DEF SendCreate, SendRetry, Send, tables, service
    <2>2. CASE Handle(r)
      <3>1. pc[r] \notin RequestDone
        BY <2>2 DEF Handle, Create, SaveBill, Retry, AwaitRejects, Queries, CheckKey,
                    Replay, FindBill, Dispatch, InsertPayment, MarkReload, MarkWrite,
                    LoadPayment, Redispatch, SaveReload, SaveWrite, Refind, RequestDone
      <3>2. serving
        BY <3>1 DEF BootAlone, InFlight
      <3>3. UNCHANGED <<bills, seeder, serving>>
        BY <2>2 DEF Handle, Create, SaveBill, Retry, AwaitRejects, CheckKey, Replay,
                    FindBill,
                    Dispatch, InsertPayment, MarkReload, LoadPayment, Redispatch,
                    SaveReload, SaveWrite, Refind, tables, service
      <3>4. QED BY <3>2, <3>3
    <2>3. QED BY <2>1, <2>2
  <1>2. \A s \in Requests \ {r} : pc'[s] = pc[s] /\ billEntity'[s] = billEntity[s]
    <2>1. CASE SendCreate(r) \/ SendRetry(r)
      BY <2>1 DEF SendCreate, SendRetry, Send, IInv, TypeOK
    <2>2. CASE Create(r)
      BY <2>2 DEF Create, CheckKey, Replay, FindBill, Dispatch, InsertPayment, Answer,
                  IInv, TypeOK
    <2>3. CASE MarkReload(r) \/ Retry(r)
      BY <2>3 DEF MarkReload, Retry, LoadPayment, Redispatch, SaveReload, SaveWrite,
                  Refind, Answer, IInv, TypeOK
    <2>4. CASE AwaitRejects(r)
      BY <2>4 DEF AwaitRejects, Answer, IInv, TypeOK
    <2>5. QED BY <2>1, <2>2, <2>3, <2>4 DEF Handle, SaveBill
  <1>3. pc'[r] \in {"markReload", "markWrite"} => billEntity'[r].status = "PAID"
    <2>1. CASE SendCreate(r) \/ SendRetry(r)
      BY <2>1 DEF SendCreate, SendRetry, Send, IInv, TypeOK
    <2>2. CASE CheckKey(r) \/ Replay(r) \/ FindBill(r) \/ Dispatch(r)
      BY <2>2 DEF CheckKey, Replay, FindBill, Dispatch, Answer, IInv, TypeOK
    <2>3. CASE InsertPayment(r)
      BY <2>3 DEF InsertPayment, Answer, MarkPaid, IInv, TypeOK, BillRow
    <2>4. CASE MarkReload(r)
      BY <2>4 DEF MarkReload, BootAlone, IInv, TypeOK
    <2>5. CASE LoadPayment(r) \/ Redispatch(r) \/ SaveReload(r) \/ SaveWrite(r)
      BY <2>5 DEF LoadPayment, Redispatch, SaveReload, SaveWrite, Answer, IInv, TypeOK
    <2>6. CASE Refind(r)
      <3>1. bills[Lookup(payEntity[r].bill)] \in BillRow
        BY <2>6, HeldBill DEF Refind, IInv, PayPcs
      <3>2. QED BY <2>6, <3>1 DEF Refind, MarkPaid, IInv, TypeOK, BillRow
    <2>7. CASE AwaitRejects(r)
      BY <2>7, Rejects DEF IInv, TypeOK
    <2>8. QED BY <2>1, <2>2, <2>3, <2>4, <2>5, <2>6, <2>7
              DEF Handle, Create, SaveBill, Retry
  <1>4. QED BY <1>1, <1>2, <1>3 DEF BootAlone

(* The UPDATE of save(bill) leaves its bill's status alone or makes it     *)
(* PAID, and no other row changes.                                         *)
LEMMA MarkWriteBootAlone ==
  ASSUME IInv, BootAlone, NEW r \in Requests, MarkWrite(r)
  PROVE  /\ BootAlone'
         /\ Lookup(payEntity[r].bill) \in BillRows
         /\ bills'[Lookup(payEntity[r].bill)].status \in
               {"PAID", bills[Lookup(payEntity[r].bill)].status}
         /\ \A row \in BillRows \ {Lookup(payEntity[r].bill)} : bills'[row] = bills[row]
  <1> DEFINE mine == Lookup(payEntity[r].bill)
  <1>1. /\ pc[r] = "markWrite" /\ billEntity[r].status = "PAID"
        /\ billEntity[r] \in BillRow
        /\ bills' = [bills EXCEPT ![mine] = Patch(bills[mine], billEntity[r], dirty[r])]
    BY DEF MarkWrite, BootAlone, IInv, TypeOK
  <1>2. mine \in BillRows /\ bills[mine] \in BillRow
    BY <1>1, HeldBill DEF IInv, PayPcs
  <1>3. bills'[mine].status \in {"PAID", bills[mine].status}
    BY <1>1, <1>2, PatchBill DEF IInv, TypeOK
  <1>4. serving /\ UNCHANGED <<serving, seeder>>
    BY <1>1 DEF MarkWrite, BootAlone, InFlight, RequestDone, service
  <1>5. BootAlone'
    BY <1>4 DEF BootAlone, MarkWrite, Answer, IInv, TypeOK
  <1>6. QED BY <1>1, <1>2, <1>3, <1>5 DEF IInv, TypeOK

(* A seeder that runs alone writes back the status it read.                *)
LEMMA ServiceBootAlone ==
  ASSUME ~Rolling, IInv, BootAlone, Crash \/ Boot \/ Seed
  PROVE  /\ BootAlone'
         /\ \A row \in BillRows : bills'[row].status = bills[row].status
  <1>1. CASE Crash
    BY <1>1 DEF Crash, BootAlone, IdleSeeder, InFlight, RequestDone, tables
  <1>2. CASE Boot
    BY <1>2 DEF Boot, BootAlone, IdleSeeder, InFlight, tables, locals
  <1>3. CASE SeedLoad
    <2>1. PICK row \in seeder.todo :
            seeder' = [seeder EXCEPT
                  !.pc = "reload", !.row = row, !.todo = @ \ {row},
                  !.entity = [status |-> SeedStatus(row),
                              amount |-> seeder.catalog[row[2]]]]
      BY <1>3 DEF SeedLoad
    <2>2. bills[row] \in BillRow
      BY SeededAreRows DEF IInv, TypeOK, SeederStates
    <2>3. /\ seeder'.pc = "reload" /\ seeder'.row = row
          /\ seeder'.entity.status = bills[row].status
      BY <2>1, <2>2 DEF IInv, TypeOK, SeederStates, SeedStatus, BillRow
    <2>4. QED BY <1>3, <2>3 DEF SeedLoad, BootAlone, InFlight, tables, locals
  <1>4. CASE SeedReload
    <2>1. /\ seeder.pc = "reload" /\ seeder'.pc = "write"
          /\ seeder'.row = seeder.row /\ seeder'.entity = seeder.entity
      BY <1>4 DEF SeedReload, IInv, TypeOK, SeederStates
    <2>2. QED BY <1>4, <2>1 DEF SeedReload, BootAlone, InFlight, tables, locals
  <1>5. CASE SeedWrite
    <2>1. /\ seeder.pc = "write" /\ seeder'.pc = "load"
          /\ bills' = [bills EXCEPT ![seeder.row] =
                         Patch(bills[seeder.row], seeder.entity, seeder.cols)]
      BY <1>5 DEF SeedWrite, IInv, TypeOK, SeederStates
    <2>2. seeder.row \in BillRows /\ seeder.entity \in BillRow
      BY <2>1, SeededAreRows DEF IInv, SeederKeepsPaid, TypeOK, SeederStates
    <2>3. \A row \in BillRows : bills'[row].status = bills[row].status
      BY <2>1, <2>2, PatchBill DEF IInv, TypeOK, BootAlone
    <2>4. QED BY <1>5, <2>1, <2>3 DEF SeedWrite, BootAlone, InFlight, locals
  <1>6. CASE SeedDone
    BY <1>6 DEF SeedDone, BootAlone, IdleSeeder, InFlight, tables, locals
  <1>7. QED BY <1>1, <1>2, <1>3, <1>4, <1>5, <1>6 DEF Seed

(* Where no instance boots beside a serving one, no step takes a bill from *)
(* PAID.                                                                   *)
LEMMA NextBootAlone ==
  ASSUME ~Rolling, IInv, BootAlone, [Next]_vars
  PROVE  /\ BootAlone'
         /\ \A row \in BillRows : bills[row].status = "PAID" => bills'[row].status = "PAID"
  <1>1. ASSUME NEW r \in Requests, SendCreate(r) \/ SendRetry(r) \/ Handle(r),
               ~MarkWrite(r)
        PROVE  BootAlone' /\ UNCHANGED bills
    BY <1>1, HandlerBootAlone
  <1>2. CASE \E r \in Requests : MarkWrite(r)
    BY <1>2, MarkWriteBootAlone
  <1>3. CASE Crash \/ Boot \/ Seed
    BY <1>3, ServiceBootAlone
  <1>4. CASE UNCHANGED vars
    BY <1>4 DEF vars, BootAlone, InFlight
  <1>5. QED BY <1>1, <1>2, <1>3, <1>4 DEF Next

(* Without rolling restarts, no handler runs while the catalog seeder      *)
(* does, and the copy a seeder holds has its row's status.                 *)
THEOREM SeederBootsAlone == ASSUME ~Rolling PROVE Spec => []BootAlone
  <1>1. Init => BootAlone
    BY InitBootAlone
  <1>2. IInv /\ BootAlone /\ [Next]_vars => BootAlone'
    BY NextBootAlone
  <1>3. QED BY <1>1, <1>2, Inductive, PTL DEF Spec

(* Without rolling restarts, a bill once PAID stays PAID: neither a stale  *)
(* save nor the seeder resets it.                                          *)
THEOREM PaidIsFinal == ASSUME ~Rolling PROVE Spec => PaidFinal
  <1>1. IInv /\ BootAlone /\ [Next]_vars =>
          [\A row \in BillRows : bills[row].status = "PAID"
                              => bills'[row].status = "PAID"]_vars
    BY NextBootAlone
  <1>2. QED BY <1>1, Inductive, SeederBootsAlone, PTL DEF Spec, PaidFinal
-----------------------------------------------------------------------------
(* Where clients do not retry, the tables implement the ledger             *)

(* Nothing rewrites a payment: the mark of a bill follows a SUCCESS that   *)
(* is in the table.                                                        *)
MarksAfterSuccess ==
    /\ \A r \in Requests : dto[r].kind = "create"
    /\ \A r \in Requests : pc[r] \in {"markReload", "markWrite"} =>
          payments[dto[r].key].status = "SUCCESS"

(* Where clients do not retry, a handler marks a bill only once the        *)
(* SUCCESS row is in the table, and the only write to bill_payment is the  *)
(* INSERT of a new key.                                                    *)
LEMMA HandlerMarks ==
  ASSUME ~Retries, IInv, MarksAfterSuccess, NEW r \in Requests,
         SendCreate(r) \/ SendRetry(r) \/ Handle(r)
  PROVE  /\ MarksAfterSuccess'
         /\ \/ UNCHANGED payments
            \/ /\ InsertPayment(r) /\ ~Recorded(dto[r].key)
               /\ payments' = [payments EXCEPT ![dto[r].key] = payEntity[r]]
  <1>1. CASE SendCreate(r) \/ SendRetry(r)
    <2>1. PICK d \in Dto : d.kind = "create" /\ Send(r, d)
      BY <1>1 DEF SendCreate, SendRetry, ValidCreate
    <2>2. QED BY <2>1 DEF Send, MarksAfterSuccess, IInv, TypeOK, tables
  <1>2. CASE CheckKey(r) \/ Replay(r) \/ FindBill(r) \/ Dispatch(r) \/ MarkReload(r)
             \/ MarkWrite(r)
    BY <1>2 DEF CheckKey, Replay, FindBill, Dispatch, MarkReload, MarkWrite, Answer,
                MarksAfterSuccess, IInv, TypeOK, tables
  <1>3. CASE InsertPayment(r)
    <2>1. dto[r].key \in Keys /\ UNCHANGED dto
      BY <1>3 DEF InsertPayment, Answer, IInv, TypeOK, Dto
    <2>2. CASE ~KeyFree(dto[r].key)
      BY <1>3, <2>1, <2>2 DEF InsertPayment, Answer, MarksAfterSuccess, IInv, TypeOK
    <2>3. CASE KeyFree(dto[r].key)
      <3>1. /\ payments' = [payments EXCEPT ![dto[r].key] = payEntity[r]]
            /\ ~Recorded(dto[r].key)
        BY <1>3, <2>3 DEF InsertPayment, KeyFree, Recorded
      <3>2. ASSUME NEW s \in Requests, pc'[s] \in {"markReload", "markWrite"}
            PROVE  payments'[dto'[s].key].status = "SUCCESS"
        <4>1. CASE s = r
          BY <1>3, <2>1, <2>3, <3>1, <3>2, <4>1
             DEF InsertPayment, Answer, Settles, IInv, TypeOK
        <4>2. CASE s # r
          <5>1. pc[s] \in {"markReload", "markWrite"}
            BY <1>3, <3>2, <4>2 DEF InsertPayment, Answer, IInv, TypeOK
          <5>2. Recorded(dto[s].key) /\ dto[s].key \in Keys
            BY <5>1 DEF IInv, HoldsPayment, PayPcs, TypeOK, Dto
          <5>3. QED BY <2>1, <3>1, <5>1, <5>2 DEF MarksAfterSuccess, IInv, TypeOK
        <4>3. QED BY <4>1, <4>2
      <3>3. QED BY <1>3, <2>1, <3>1, <3>2 DEF MarksAfterSuccess
    <2>4. QED BY <2>2, <2>3
  <1>4. ~Retry(r)
    BY DEF Retry, LoadPayment, Redispatch, SaveReload, SaveWrite, Refind,
           IInv, OneHandler, MarksAfterSuccess
  <1>5. CASE AwaitRejects(r)
    BY <1>5, Rejects DEF MarksAfterSuccess, IInv, TypeOK
  <1>6. QED BY <1>1, <1>2, <1>3, <1>4, <1>5 DEF Handle, Create, SaveBill

(* The same for every step.                                                *)
LEMMA NextMarks ==
  ASSUME ~Retries, IInv, MarksAfterSuccess, [Next]_vars
  PROVE  MarksAfterSuccess'
  <1>1. CASE Crash
    BY <1>1 DEF Crash, MarksAfterSuccess, InFlight, RequestDone, tables
  <1>2. CASE Boot \/ Seed
    BY <1>2 DEF Boot, Seed, SeedLoad, SeedReload, SeedWrite, SeedDone,
                MarksAfterSuccess, tables, locals
  <1>3. CASE UNCHANGED vars
    BY <1>3 DEF vars, MarksAfterSuccess
  <1>4. QED BY <1>1, <1>2, <1>3, HandlerMarks DEF Next

(* A step that leaves the payments and the rows' status alone is a stutter *)
(* of the ledger.                                                          *)
LEMMA LedgerStutter ==
  ASSUME IInv, UNCHANGED payments,
         \A row \in BillRows : bills'[row].status = bills[row].status
  PROVE  UNCHANGED Ledger!vars
  <1>1. \A k \in Keys : LedgerEntry(k)' = LedgerEntry(k)
    BY DEF LedgerEntry, Recorded
  <1>2. PaidBills' = PaidBills
    BY LookupFound DEF PaidBills
  <1>3. QED BY <1>1, <1>2 DEF Ledger!vars

(* The INSERT of create records its key in the ledger.                     *)
LEMMA LedgerRecord ==
  ASSUME IInv, NEW r \in Requests, InsertPayment(r), ~Recorded(dto[r].key),
         payments' = [payments EXCEPT ![dto[r].key] = payEntity[r]]
  PROVE  Ledger!Next
  <1>0. PICK k \in Keys : k = dto[r].key
    BY DEF IInv, TypeOK, Dto
  <1> DEFINE e == [bill |-> payEntity[r].bill, status |-> payEntity[r].status]
  <1>1. payEntity[r] \in PaymentRow /\ payEntity[r] # NoPayment
    BY NoPaymentAssumption DEF IInv, TypeOK
  <1>2. e \in Ledger!Entries
    BY <1>1 DEF PaymentRow, Ledger!Entries
  <1>3. LedgerEntry(k) = NoPayment /\ LedgerEntry(k)' = e
    BY <1>0, <1>1 DEF LedgerEntry, Recorded, IInv, TypeOK
  <1>4. \A j \in Keys \ {k} : LedgerEntry(j)' = LedgerEntry(j)
    BY <1>0 DEF LedgerEntry, Recorded, IInv, TypeOK
  <1>5. PaidBills' = PaidBills
    BY DEF InsertPayment, PaidBills
  <1>6. [j \in Keys |-> LedgerEntry(j)]' = [[j \in Keys |-> LedgerEntry(j)] EXCEPT ![k] = e]
    BY <1>3, <1>4
  <1>7. Ledger!Record(k)
    BY <1>2, <1>3, <1>5, <1>6 DEF Ledger!Record
  <1>8. QED BY <1>7 DEF Ledger!Next

(* The UPDATE of save(bill) settles the payment in the ledger, or leaves a *)
(* bill that was settled already.                                          *)
LEMMA LedgerSettle ==
  ASSUME IInv, BootAlone, NEW r \in Requests, MarkWrite(r),
         payments[dto[r].key].status = "SUCCESS"
  PROVE  [Ledger!Next]_(Ledger!vars)
  <1> DEFINE k == dto[r].key
  <1> DEFINE b == payEntity[r].bill
  <1>1. /\ pc[r] = "markWrite" /\ pc[r] \in PayPcs \ {"insert"}
        /\ HoldsPayment(r) /\ UNCHANGED payments
    BY DEF MarkWrite, PayPcs, IInv
  <1>2. /\ k \in Keys /\ Recorded(k) /\ payments[k].bill = b
        /\ payments[k].status = "SUCCESS" /\ b \in Bills /\ Found(b)
    BY <1>1, HeldBill DEF IInv, HoldsPayment, SameIdentity
  <1>3. /\ Lookup(b) \in BillRows
        /\ bills'[Lookup(b)].status \in {"PAID", bills[Lookup(b)].status}
        /\ \A row \in BillRows \ {Lookup(b)} : bills'[row] = bills[row]
    BY MarkWriteBootAlone
  <1>4. \A j \in Keys : LedgerEntry(j)' = LedgerEntry(j)
    BY <1>1 DEF LedgerEntry, Recorded
  <1>5. CASE bills'[Lookup(b)].status = bills[Lookup(b)].status
    BY <1>1, <1>3, <1>5, LedgerStutter
  <1>6. CASE bills'[Lookup(b)].status = "PAID"
    <2>1. \A c \in Bills : Found(c) /\ c # b => bills'[Lookup(c)] = bills[Lookup(c)]
      BY <1>2, <1>3, LookupFound
    <2>2. PaidBills' = PaidBills \cup {b}
      BY <1>2, <1>6, <2>1 DEF PaidBills
    <2>3. /\ LedgerEntry(k) # NoPayment
          /\ LedgerEntry(k).status = "SUCCESS" /\ LedgerEntry(k).bill = b
      <3>1. LedgerEntry(k) = [bill |-> b, status |-> "SUCCESS"]
        BY <1>2 DEF LedgerEntry
      <3>2. QED BY <1>2, <3>1, NoEntryAssumption DEF Statuses
    <2>4. Ledger!Settle(k)
      BY <1>2, <1>4, <2>2, <2>3 DEF Ledger!Settle
    <2>5. QED BY <1>2, <2>4 DEF Ledger!Next
  <1>7. QED BY <1>3, <1>5, <1>6

(* Every step is a step of the ledger or a stutter.                        *)
LEMMA LedgerStep ==
  ASSUME ~Rolling, ~Retries, IInv, BootAlone, MarksAfterSuccess, [Next]_vars
  PROVE  [Ledger!Next]_(Ledger!vars)
  <1>1. ASSUME NEW r \in Requests, MarkWrite(r) PROVE [Ledger!Next]_(Ledger!vars)
    BY <1>1, LedgerSettle DEF MarksAfterSuccess, MarkWrite
  <1>2. ASSUME NEW r \in Requests, SendCreate(r) \/ SendRetry(r) \/ Handle(r),
               ~MarkWrite(r)
        PROVE  [Ledger!Next]_(Ledger!vars)
    <2>1. UNCHANGED bills
      BY <1>2, HandlerBootAlone
    <2>2. QED BY <1>2, <2>1, HandlerMarks, LedgerRecord, LedgerStutter
  <1>3. CASE Crash \/ Boot \/ Seed
    <2>1. UNCHANGED payments
      BY <1>3 DEF Crash, Boot, Seed, SeedLoad, SeedReload, SeedWrite, SeedDone, tables
    <2>2. QED BY <1>3, <2>1, ServiceBootAlone, LedgerStutter
  <1>4. CASE UNCHANGED vars
    BY <1>4, LedgerStutter DEF vars
  <1>5. QED BY <1>1, <1>2, <1>3, <1>4 DEF Next

(* Empty tables are an empty ledger.                                       *)
LEMMA LedgerInit == Init => Ledger!Init
  <1> SUFFICES ASSUME Init PROVE Ledger!Init OBVIOUS
  <1>1. \A k \in Keys : LedgerEntry(k) = NoPayment
    BY DEF Init, LedgerEntry, Recorded
  <1>2. PaidBills = {}
    <2>1. PICK price \in [BillRows -> Amounts] :
             bills = [br \in BillRows |-> [status |-> "UNPAID", amount |-> price[br]]]
      BY DEF Init
    <2>2. QED BY <2>1, LookupFound DEF PaidBills
  <1>3. QED BY <1>1, <1>2 DEF Ledger!Init

(* Where clients do not retry and instances do not boot beside serving     *)
(* ones, the tables written by create implement the abstract ledger of     *)
(* PaymentLedger.                                                          *)
THEOREM CreateImplementsLedger ==
  ASSUME ~Rolling, ~Retries PROVE Spec => ImplementsLedger
  <1>1. Init => MarksAfterSuccess
    BY DEF Init, MarksAfterSuccess
  <1>2. IInv /\ MarksAfterSuccess /\ [Next]_vars => MarksAfterSuccess'
    BY NextMarks
  <1>3. IInv /\ BootAlone /\ MarksAfterSuccess /\ [Next]_vars
          => [Ledger!Next]_(Ledger!vars)
    BY LedgerStep
  <1>4. QED BY <1>1, <1>2, <1>3, LedgerInit, Inductive, SeederBootsAlone, PTL
            DEF Spec, ImplementsLedger, Ledger!Spec
-----------------------------------------------------------------------------
(* Requests handled one at a time: what a handler read is current          *)

OneAtATime == \A r, s \in InFlight : r = s

Succeeded(k) == Recorded(k) /\ payments[k].status = "SUCCESS"

(* What a handler read is still so when it acts on it: its key is free,    *)
(* its copy is the row it copied, its payment is not SUCCESS yet, and the  *)
(* columns it is about to UPDATE are all that row and copy differ in.      *)
Current(r) ==
    /\ pc[r] \in {"find", "dispatch", "insert"} => ~Recorded(dto[r].key)
    /\ pc[r] \in {"replay", "redispatch"} => payEntity[r] = payments[dto[r].key]
    /\ pc[r] \in {"redispatch", "saveReload", "saveWrite"} => ~Succeeded(dto[r].key)
    /\ pc[r] = "saveWrite" => dirty[r] = Diff(payEntity[r], payments[dto[r].key])
    /\ pc[r] \in {"refind", "markReload", "markWrite"} => Succeeded(dto[r].key)
    /\ pc[r] = "markWrite" =>
          dirty[r] = Diff(billEntity[r], bills[Lookup(payEntity[r].bill)])

(* A handler about to record an outcome holds that of its own call, and    *)
(* no handler has called BBPS before its step that does.                   *)
HoldsOutcome(r) ==
    /\ r \in charged => r \in dispatched
    /\ pc[r] \in {"new", "check", "replay", "find", "dispatch", "load", "redispatch"}
          => r \notin dispatched
    /\ pc[r] \in {"insert", "saveReload", "saveWrite"} =>
          /\ r \in charged <=> payEntity[r].status = "SUCCESS"
          /\ payEntity[r].status = "SUCCESS" => payEntity[r].ref = r

SerialInv ==
    /\ OneAtATime
    /\ \A r \in Requests : Current(r) /\ HoldsOutcome(r)
    /\ AnsweredChargeSettled /\ ReferenceOfCharge

(* A save of the columns in which row and copy differ makes the row the    *)
(* copy.                                                                   *)
LEMMA PatchAllPayment ==
  ASSUME NEW row \in PaymentRow, NEW entity \in PaymentRow
  PROVE  Patch(row, entity, Diff(entity, row)) = entity
  <1> DEFINE new == Patch(row, entity, Diff(entity, row))
  <1>1. DOMAIN row = {"bill", "amount", "status", "ref", "owner"}
    BY DEF PaymentRow
  <1>2. /\ new.bill = entity.bill /\ new.amount = entity.amount
        /\ new.status = entity.status /\ new.ref = entity.ref
        /\ new.owner = entity.owner
    BY <1>1 DEF Patch, Diff
  <1>3. new \in PaymentRow
    BY PatchPayment
  <1> HIDE DEF new
  <1>4. new = entity
    BY <1>2, <1>3 DEF PaymentRow
  <1> QED BY <1>4 DEF new

(* The same of a bill, column by column.                                   *)
LEMMA PatchAllBill ==
  ASSUME NEW row \in BillRow, NEW entity \in BillRow
  PROVE  /\ Patch(row, entity, Diff(entity, row)).status = entity.status
         /\ Patch(row, entity, Diff(entity, row)).amount = entity.amount
  BY DEF Patch, Diff, BillRow

(* A request that arrives brings a body, which asks for a create or a      *)
(* retry.                                                                  *)
LEMMA SendsBody ==
  ASSUME IInv, NEW r \in Requests, SendCreate(r) \/ SendRetry(r)
  PROVE  \E d \in Dto : Send(r, d) /\ (ValidCreate(d) \/ d.kind = "retry")
  <1>1. CASE SendCreate(r)
    BY <1>1 DEF SendCreate
  <1>2. CASE SendRetry(r)
    <2>1. PICK k \in Keys, a \in Actors :
            Send(r, [dto[r] EXCEPT !.kind = "retry", !.key = k, !.actor = a])
      BY <1>2 DEF SendRetry
    <2>2. dto[r] \in Dto
      BY DEF IInv, TypeOK
    <2> DEFINE d == [dto[r] EXCEPT !.kind = "retry", !.key = k, !.actor = a]
    <2>3. Send(r, d) /\ d \in Dto /\ d.kind = "retry"
      BY <2>1, <2>2 DEF Dto
    <2> HIDE DEF d
    <2>4. QED BY <2>3
  <1>3. QED BY <1>1, <1>2

(* A handler's step leaves every other request as it was ...               *)
LEMMA OthersKept ==
  ASSUME IInv, NEW r \in Requests, SendCreate(r) \/ SendRetry(r) \/ Handle(r)
  PROVE  \A s \in Requests \ {r} :
            /\ pc'[s] = pc[s] /\ dto'[s] = dto[s] /\ result'[s] = result[s]
            /\ (s \in dispatched') = (s \in dispatched)
            /\ (s \in charged') = (s \in charged)
  <1>1. CASE SendCreate(r) \/ SendRetry(r)
    <2>1. PICK d \in Dto : Send(r, d)
      BY <1>1, SendsBody
    <2>2. QED BY <2>1 DEF Send, IInv, TypeOK
  <1>2. CASE \/ CheckKey(r) \/ Replay(r) \/ FindBill(r) \/ InsertPayment(r)
             \/ SaveBill(r) \/ LoadPayment(r) \/ SaveReload(r) \/ SaveWrite(r) \/ Refind(r)
    <2>1. /\ UNCHANGED <<dto, history>>
          /\ \E p : pc' = [pc EXCEPT ![r] = p]
          /\ result' = result \/ \E outcome : result' = [result EXCEPT ![r] = outcome]
      <3>1. CASE CheckKey(r)
        BY <3>1 DEF CheckKey, Answer
      <3>2. CASE Replay(r)
        BY <3>2 DEF Replay, Answer
      <3>3. CASE FindBill(r)
        BY <3>3 DEF FindBill, Answer
      <3>4. CASE InsertPayment(r)
        BY <3>4 DEF InsertPayment, Answer
      <3>5. CASE SaveBill(r) \/ SaveReload(r) \/ Refind(r)
        BY <3>5 DEF SaveBill, MarkReload, MarkWrite, SaveReload, Refind, Answer
      <3>6. CASE LoadPayment(r)
        BY <3>6 DEF LoadPayment, Answer
      <3>7. CASE SaveWrite(r)
        BY <3>7 DEF SaveWrite, Answer
      <3>8. QED BY <1>2, <3>1, <3>2, <3>3, <3>4, <3>5, <3>6, <3>7
    <2>2. QED BY <2>1 DEF IInv, TypeOK, history
  <1>3. CASE Dispatch(r) \/ Redispatch(r)
    <2>1. /\ UNCHANGED <<dto, result>> /\ \E p : pc' = [pc EXCEPT ![r] = p]
          /\ dispatched' = dispatched \cup {r}
          /\ charged' \in {charged, charged \cup {r}}
      BY <1>3 DEF Dispatch, Redispatch, CallBbps
    <2>2. QED BY <2>1 DEF IInv, TypeOK
  <1>4. CASE AwaitRejects(r)
    BY <1>4, Rejects DEF IInv, TypeOK, history
  <1>5. QED BY <1>1, <1>2, <1>3, <1>4 DEF Handle, Create, Retry

(* ... and, where requests are handled one at a time, none of them is in   *)
(* flight.                                                                 *)
LEMMA OthersAtRest ==
  ASSUME ~Overlap, IInv, OneAtATime, NEW r \in Requests,
         SendCreate(r) \/ SendRetry(r) \/ Handle(r)
  PROVE  /\ \A s \in Requests \ {r} : pc[s] \in RequestDone
         /\ OneAtATime'
  <1>1. \A s \in Requests \ {r} : pc[s] \in RequestDone
    <2>1. CASE SendCreate(r) \/ SendRetry(r)
      BY <2>1, SendsBody DEF Send, InFlight
    <2>2. CASE Handle(r)
      <3>1. pc[r] \notin RequestDone
        BY <2>2 DEF Handle, Create, SaveBill, Retry, AwaitRejects, Queries, CheckKey,
                    Replay, FindBill, Dispatch, InsertPayment, MarkReload, MarkWrite,
                    LoadPayment, Redispatch, SaveReload, SaveWrite, Refind, RequestDone
      <3>2. QED BY <3>1 DEF OneAtATime, InFlight
    <2>3. QED BY <2>1, <2>2
  <1>2. QED BY <1>1, OthersKept DEF OneAtATime, InFlight

(* A write to bill_payment makes the row of the handler's key the payment  *)
(* the handler holds, and never rewrites a SUCCESS.                        *)
WritesOwn(r) ==
    /\ pc[r] \in {"insert", "saveWrite"} /\ ~Succeeded(dto[r].key)
    /\ payments' = [payments EXCEPT ![dto[r].key] = payEntity[r]]
    /\ UNCHANGED <<bills, dto, history>>

LEMMA PaymentWrites ==
  ASSUME IInv, NEW r \in Requests, Current(r),
         SendCreate(r) \/ SendRetry(r) \/ Handle(r)
  PROVE  UNCHANGED payments \/ WritesOwn(r)
  <1>1. CASE InsertPayment(r)
    <2>1. pc[r] = "insert" /\ ~Recorded(dto[r].key)
      BY <1>1 DEF InsertPayment, Current
    <2>2. /\ payments' = [payments EXCEPT ![dto[r].key] = payEntity[r]]
          /\ UNCHANGED <<bills, dto, history>>
      BY <1>1, <2>1 DEF InsertPayment, KeyFree, Recorded, Answer
    <2>3. QED BY <2>1, <2>2 DEF WritesOwn, Succeeded
  <1>2. CASE SaveWrite(r)
    <2>1. /\ pc[r] = "saveWrite" /\ ~Succeeded(dto[r].key)
          /\ dirty[r] = Diff(payEntity[r], payments[dto[r].key])
      BY <1>2 DEF SaveWrite, Current
    <2>2. payments[dto[r].key] \in PaymentRow /\ payEntity[r] \in PaymentRow
      BY <2>1, HeldBill DEF IInv, TypeOK, PayPcs
    <2>3. payments' = [payments EXCEPT ![dto[r].key] = payEntity[r]]
      <3>1. Patch(payments[dto[r].key], payEntity[r], dirty[r]) = payEntity[r]
        BY <2>1, <2>2, PatchAllPayment
      <3>2. QED BY <1>2, <3>1 DEF SaveWrite
    <2>4. QED BY <1>2, <2>1, <2>3 DEF WritesOwn, SaveWrite, Answer
  <1>3. CASE SendCreate(r) \/ SendRetry(r)
    BY <1>3, SendsBody DEF Send, tables
  <1>4. QED
    BY <1>1, <1>2, <1>3
       DEF Handle, Create, SaveBill, Retry, AwaitRejects, CheckKey,
           Replay, FindBill, Dispatch,
           MarkReload, MarkWrite, LoadPayment, Redispatch, SaveReload, Refind, tables

(* So SUCCESS stays ...                                                    *)
LEMMA SuccessStays ==
  ASSUME IInv, NEW r \in Requests, UNCHANGED payments \/ WritesOwn(r)
  PROVE  \A k \in Keys : Succeeded(k) => payments'[k] = payments[k] /\ Succeeded(k)'
  BY DEF WritesOwn, Succeeded, Recorded, IInv, TypeOK

(* ... and comes with the reference of the call that was charged.          *)
LEMMA ReferencesStay ==
  ASSUME IInv, IInv', Grows, ReferenceOfCharge, NEW r \in Requests, HoldsOutcome(r),
         UNCHANGED payments \/ WritesOwn(r)
  PROVE  ReferenceOfCharge'
  <1> SUFFICES ASSUME NEW k \in Keys, Succeeded(k)'
               PROVE  payments'[k].ref \in charged' /\ dto'[payments'[k].ref].key = k
    BY DEF ReferenceOfCharge, Succeeded, Recorded
  <1>1. CASE payments'[k] = payments[k]
    <2>1. payments[k].ref \in charged /\ dto[payments[k].ref].key = k
      BY <1>1 DEF ReferenceOfCharge, Succeeded, Recorded
    <2>2. payments[k].ref \in Requests /\ pc[payments[k].ref] # "new"
      BY <2>1 DEF IInv, TypeOK, OneHandler
    <2>3. QED BY <1>1, <2>1, <2>2 DEF Grows
  <1>2. CASE payments'[k] # payments[k]
    <2>1. WritesOwn(r) /\ k = dto[r].key /\ payments'[k] = payEntity[r]
      BY <1>2 DEF WritesOwn, IInv, TypeOK
    <2>2. r \in charged /\ payEntity[r].ref = r
      BY <2>1 DEF WritesOwn, HoldsOutcome, Succeeded
    <2>3. QED BY <2>1, <2>2 DEF WritesOwn, history
  <1>3. QED BY <1>1, <1>2

(* AnsweredChargeSettled, request by request.                              *)
SettledCharge(r) ==
    r \in charged /\ pc[r] = "answered" /\ result[r] # "ERROR" =>
        /\ Recorded(dto[r].key)
        /\ payments[dto[r].key].status = "SUCCESS"
        /\ bills[Lookup(payments[dto[r].key].bill)].status = "PAID"

Own(r) == Current(r) /\ HoldsOutcome(r) /\ SettledCharge(r)

LEMMA SettledParts ==
  ASSUME TypeOK
  PROVE  AnsweredChargeSettled <=> \A r \in Requests : SettledCharge(r)
  BY DEF AnsweredChargeSettled, SettledCharge, TypeOK

(* A request that is answered without having been charged leaves nothing   *)
(* to settle.                                                              *)
LEMMA AnsweredUncharged ==
  ASSUME IInv, NEW r \in Requests, NEW outcome, Answer(r, outcome),
         HoldsOutcome(r), r \notin charged, UNCHANGED history
  PROVE  Own(r)'
  <1>1. pc'[r] = "answered" /\ r \notin charged'
    BY DEF Answer, IInv, TypeOK, history
  <1>2. QED BY <1>1 DEF Own, Current, HoldsOutcome, SettledCharge

(* Nor does a request that is answered 500.                                *)
LEMMA RejectedOwn ==
  ASSUME IInv, NEW r \in Requests, HoldsOutcome(r), AwaitRejects(r)
  PROVE  Own(r)'
  <1>1. pc'[r] = "answered" /\ result'[r] = "ERROR" /\ UNCHANGED history
    BY Rejects DEF IInv, TypeOK
  <1>2. QED BY <1>1 DEF Own, Current, HoldsOutcome, SettledCharge, history

(* create, step by step, knows what Own says.                              *)
LEMMA CreateOwn ==
  ASSUME IInv, NEW r \in Requests, Own(r), Create(r)
  PROVE  Own(r)'
  <1>0. dto[r].key \in Keys /\ payEntity[r] \in PaymentRow
    BY DEF IInv, TypeOK, Dto
  <1>1. CASE CheckKey(r)
    <2>1. /\ pc[r] = "check" /\ r \notin dispatched /\ r \notin charged
          /\ UNCHANGED <<tables, history>>
      BY <1>1 DEF CheckKey, Own, HoldsOutcome
    <2>2. CASE Answer(r, "PAYMENT_NOT_FOUND")
      BY <2>1, <2>2, AnsweredUncharged DEF Own
    <2>3. CASE /\ ~Existing(dto[r].key)
               /\ pc' = [pc EXCEPT ![r] = "find"] /\ UNCHANGED <<dto, payEntity>>
      BY <1>0, <2>1, <2>3 DEF Own, Current, HoldsOutcome, SettledCharge, Recorded,
                         Existing, IInv, TypeOK, tables, history
    <2>4. CASE /\ payEntity' = [payEntity EXCEPT ![r] = payments[dto[r].key]]
               /\ pc' = [pc EXCEPT ![r] = "replay"] /\ UNCHANGED dto
      BY <1>0, <2>1, <2>4 DEF Own, Current, HoldsOutcome, SettledCharge, IInv, TypeOK,
                         tables, history
    <2>5. QED BY <1>1, <2>2, <2>3, <2>4 DEF CheckKey
  <1>2. CASE Replay(r)
    <2>1. /\ pc[r] = "replay" /\ r \notin charged /\ UNCHANGED history
          /\ \E outcome : Answer(r, outcome)
      BY <1>2 DEF Replay, Own, HoldsOutcome
    <2>2. QED BY <2>1, AnsweredUncharged DEF Own
  <1>3. CASE FindBill(r)
    <2>1. /\ pc[r] = "find" /\ r \notin dispatched /\ r \notin charged
          /\ ~Recorded(dto[r].key) /\ UNCHANGED <<tables, history>>
      BY <1>3 DEF FindBill, Own, HoldsOutcome, Current
    <2>2. CASE \E outcome : Answer(r, outcome)
      BY <2>1, <2>2, AnsweredUncharged DEF Own
    <2>3. CASE pc' = [pc EXCEPT ![r] = "dispatch"] /\ UNCHANGED <<dto, payEntity>>
      BY <1>0, <2>1, <2>3 DEF Own, Current, HoldsOutcome, SettledCharge, Recorded,
                         IInv, TypeOK, tables, history
    <2>4. QED BY <1>3, <2>2, <2>3 DEF FindBill
  <1>4. CASE Dispatch(r)
    <2>1. PICK status \in Statuses :
            /\ CallBbps(r, status)
            /\ payEntity' = [payEntity EXCEPT ![r] =
                  [bill |-> dto[r].bill, amount |-> billEntity[r].amount,
                   status |-> status, ref |-> Reference(r, status),
                   owner |-> dto[r].actor]]
      BY <1>4 DEF Dispatch
    <2>2. /\ pc[r] = "dispatch" /\ pc'[r] = "insert" /\ r \notin charged
          /\ ~Recorded(dto[r].key) /\ UNCHANGED <<tables, dto>>
      BY <1>4 DEF Dispatch, Own, HoldsOutcome, Current, IInv, TypeOK
    <2>3. /\ payEntity'[r].status = status
          /\ status = "SUCCESS" => payEntity'[r].ref = r
          /\ r \in dispatched' /\ (r \in charged' <=> status = "SUCCESS")
      BY <2>1, <2>2 DEF CallBbps, Reference, IInv, TypeOK
    <2>4. QED BY <2>2, <2>3 DEF Own, Current, HoldsOutcome, SettledCharge, Recorded,
                                tables
  <1>5. CASE InsertPayment(r)
    <2>1. /\ pc[r] = "insert" /\ ~Recorded(dto[r].key) /\ KeyFree(dto[r].key)
          /\ r \in charged <=> payEntity[r].status = "SUCCESS"
          /\ payments' = [payments EXCEPT ![dto[r].key] = payEntity[r]]
          /\ UNCHANGED history
      BY <1>5 DEF InsertPayment, Own, HoldsOutcome, Current, KeyFree, Recorded
    <2>2. CASE ~Settles(payEntity[r])
      <3>1. Answer(r, payEntity[r].status) /\ r \notin charged
        BY <1>5, <2>1, <2>2 DEF InsertPayment, Settles
      <3>2. QED BY <2>1, <3>1, AnsweredUncharged DEF Own
    <2>3. CASE Settles(payEntity[r])
      <3>1. /\ pc' = [pc EXCEPT ![r] = "markReload"] /\ UNCHANGED dto
        BY <1>5, <2>1, <2>3 DEF InsertPayment
      <3>2. pc'[r] = "markReload" /\ payments'[dto[r].key] = payEntity[r]
        BY <1>0, <2>1, <3>1 DEF IInv, TypeOK
      <3>3. Succeeded(dto[r].key)'
        BY <1>0, <2>3, <3>1, <3>2, NoPaymentAssumption DEF Succeeded, Recorded, Settles
      <3>4. QED BY <2>1, <3>1, <3>2, <3>3
                DEF Own, Current, HoldsOutcome, SettledCharge, history
    <2>4. QED BY <2>2, <2>3
  <1>6. QED BY <1>1, <1>2, <1>3, <1>4, <1>5 DEF Create

(* So do the two halves of save(bill): where nothing came between them,    *)
(* the bill is PAID.                                                       *)
LEMMA SaveBillOwn ==
  ASSUME IInv, BootAlone, NEW r \in Requests, Own(r), SaveBill(r)
  PROVE  Own(r)'
  <1>1. CASE MarkReload(r)
    BY <1>1 DEF MarkReload, Own, Current, HoldsOutcome, SettledCharge, Succeeded,
                Recorded, IInv, TypeOK, tables, history
  <1>2. CASE MarkWrite(r)
    <2> DEFINE row == Lookup(payEntity[r].bill)
    <2>1. /\ pc[r] = "markWrite" /\ Succeeded(dto[r].key)
          /\ dirty[r] = Diff(billEntity[r], bills[row])
          /\ UNCHANGED <<payments, history>> /\ Answer(r, "SUCCESS")
          /\ bills' = [bills EXCEPT ![row] = Patch(bills[row], billEntity[r], dirty[r])]
      BY <1>2 DEF MarkWrite, Own, Current
    <2>2. /\ row \in BillRows /\ bills[row] \in BillRow
          /\ billEntity[r] \in BillRow /\ billEntity[r].status = "PAID"
          /\ payments[dto[r].key].bill = payEntity[r].bill
      BY <2>1, HeldBill DEF IInv, TypeOK, BootAlone, PayPcs, HoldsPayment, SameIdentity
    <2>3. bills'[row].status = "PAID"
      BY <2>1, <2>2, PatchAllBill DEF IInv, TypeOK
    <2>4. pc'[r] = "answered" /\ UNCHANGED dto
      BY <2>1 DEF Answer, IInv, TypeOK
    <2>5. QED BY <1>2, <2>1, <2>2, <2>3, <2>4
              DEF Own, Current, HoldsOutcome, SettledCharge, Succeeded, Recorded, history
  <1>3. QED BY <1>1, <1>2 DEF SaveBill

(* And payViaBbps.                                                         *)
LEMMA RetryOwn ==
  ASSUME IInv, NEW r \in Requests, Own(r), Retry(r)
  PROVE  Own(r)'
  <1>0. dto[r].key \in Keys /\ payEntity[r] \in PaymentRow
    BY DEF IInv, TypeOK, Dto
  <1>1. CASE LoadPayment(r)
    <2>1. /\ pc[r] = "load" /\ r \notin dispatched /\ r \notin charged
          /\ UNCHANGED <<tables, history>>
      BY <1>1 DEF LoadPayment, Own, HoldsOutcome
    <2>2. CASE \E outcome : Answer(r, outcome)
      BY <2>1, <2>2, AnsweredUncharged DEF Own
    <2>3. CASE /\ ~Final(payments[dto[r].key])
               /\ payEntity' = [payEntity EXCEPT ![r] = payments[dto[r].key]]
               /\ pc' = [pc EXCEPT ![r] = "redispatch"] /\ UNCHANGED dto
      BY <1>0, <2>1, <2>3 DEF Own, Current, HoldsOutcome, SettledCharge, Succeeded,
                              Recorded, Final, IInv, TypeOK, tables, history
    <2>4. QED BY <1>1, <2>2, <2>3 DEF LoadPayment
  <1>2. CASE Redispatch(r)
    <2>1. PICK status \in Statuses :
            /\ CallBbps(r, status)
            /\ payEntity' = [payEntity EXCEPT
                  ![r].status = status,
                  ![r].ref = NewReference(r, status, @)]
      BY <1>2 DEF Redispatch
    <2>2. /\ pc[r] = "redispatch" /\ pc'[r] = "saveReload" /\ r \notin charged
          /\ ~Succeeded(dto[r].key) /\ UNCHANGED <<tables, dto>>
      BY <1>2 DEF Redispatch, Own, HoldsOutcome, Current, IInv, TypeOK
    <2>3. /\ payEntity'[r].status = status
          /\ status = "SUCCESS" => payEntity'[r].ref = r
      BY <1>0, <2>1 DEF NewReference, Reference, PaymentRow, IInv, TypeOK
    <2>4. r \in dispatched' /\ (r \in charged' <=> status = "SUCCESS")
      BY <2>1, <2>2 DEF CallBbps
    <2>5. QED BY <2>2, <2>3, <2>4 DEF Own, Current, HoldsOutcome, SettledCharge,
                                      Succeeded, Recorded, tables
  <1>3. CASE SaveReload(r)
    BY <1>3 DEF SaveReload, Own, Current, HoldsOutcome, SettledCharge, Succeeded,
                Recorded, IInv, TypeOK, tables, history
  <1>4. CASE SaveWrite(r)
    <2>1. /\ pc[r] = "saveWrite" /\ WritesOwn(r)
          /\ r \in charged <=> payEntity[r].status = "SUCCESS"
      <3>1. Patch(payments[dto[r].key], payEntity[r], dirty[r]) = payEntity[r]
        BY <1>0, <1>4, HeldBill, PatchAllPayment
           DEF SaveWrite, Own, Current, IInv, TypeOK, PayPcs
      <3>2. QED BY <1>4, <3>1 DEF SaveWrite, WritesOwn, Answer, Own, Current, HoldsOutcome
    <2>2. CASE ~Settles(payEntity[r])
      <3>1. Answer(r, payEntity[r].status) /\ r \notin charged /\ UNCHANGED history
        BY <1>4, <2>1, <2>2 DEF SaveWrite, Settles
      <3>2. QED BY <3>1, AnsweredUncharged DEF Own
    <2>3. CASE Settles(payEntity[r])
      <3>1. pc' = [pc EXCEPT ![r] = "refind"] /\ UNCHANGED <<dto, history>>
        BY <1>4, <2>3 DEF SaveWrite
      <3>2. pc'[r] = "refind" /\ payments'[dto[r].key] = payEntity[r]
        BY <1>0, <2>1, <3>1 DEF IInv, TypeOK, WritesOwn
      <3>3. Succeeded(dto[r].key)'
        BY <1>0, <2>3, <3>1, <3>2, NoPaymentAssumption DEF Succeeded, Recorded, Settles
      <3>4. QED BY <3>1, <3>2, <3>3
                DEF Own, Current, HoldsOutcome, SettledCharge, history
    <2>4. QED BY <2>2, <2>3
  <1>5. CASE Refind(r)
    BY <1>5 DEF Refind, Own, Current, HoldsOutcome, SettledCharge, Succeeded,
                Recorded, IInv, TypeOK, tables, history
  <1>6. QED BY <1>1, <1>2, <1>3, <1>4, <1>5 DEF Retry

(* A request that has been answered for its charge stays settled: nothing  *)
(* undoes SUCCESS or PAID.                                                 *)
LEMMA SettledStays ==
  ASSUME IInv, Grows, NEW s \in Requests, SettledCharge(s),
         \A k \in Keys : Succeeded(k) => Succeeded(k)',
         \A row \in BillRows : bills[row].status = "PAID" => bills'[row].status = "PAID",
         pc'[s] = "answered" => pc[s] = "answered", result'[s] = result[s],
         s \in charged' => s \in charged
  PROVE  SettledCharge(s)'
  <1> SUFFICES ASSUME s \in charged', pc'[s] = "answered", result'[s] # "ERROR"
               PROVE  SettledCharge(s)'
    BY DEF SettledCharge
  <1> DEFINE k == dto[s].key
  <1>1. /\ k \in Keys /\ dto'[s] = dto[s] /\ Recorded(k) /\ Succeeded(k)
        /\ bills[Lookup(payments[k].bill)].status = "PAID"
    BY DEF SettledCharge, Succeeded, Grows, IInv, TypeOK, Dto
  <1>2. payments[k].bill \in Bills /\ Found(payments[k].bill)
    BY <1>1 DEF IInv, RowsFound, TypeOK, Recorded, PaymentRow
  <1>3. Lookup(payments[k].bill) \in BillRows /\ payments'[k].bill = payments[k].bill
    BY <1>1, <1>2, LookupFound DEF Grows, SameIdentity
  <1>4. QED BY <1>1, <1>3 DEF SettledCharge, Succeeded, Recorded

(* Where requests are handled one at a time, a handler's step keeps what   *)
(* every request knows.                                                    *)
LEMMA SerialHandler ==
  ASSUME ~Overlap, ~Rolling, IInv, BootAlone, SerialInv, NEW r \in Requests,
         SendCreate(r) \/ SendRetry(r) \/ Handle(r)
  PROVE  SerialInv' /\ \A k \in Keys : Succeeded(k) => Succeeded(k)'
  <1>1. IInv' /\ Grows
    BY NextIInv DEF Next
  <1>2. \A s \in Requests : Own(s)
    BY SettledParts DEF SerialInv, Own, IInv
  <1>3. UNCHANGED payments \/ WritesOwn(r)
    BY PaymentWrites DEF SerialInv
  <1>4. \A k \in Keys : Succeeded(k) => Succeeded(k)'
    BY <1>3, SuccessStays
  <1>5. ReferenceOfCharge'
    BY <1>1, <1>3, ReferencesStay DEF SerialInv
  <1>6. /\ OneAtATime'
        /\ \A s \in Requests \ {r} : pc[s] \in RequestDone /\ pc'[s] = pc[s]
    BY OthersAtRest, OthersKept DEF SerialInv
  <1>7. Own(r)'
    <2>1. CASE SendCreate(r) \/ SendRetry(r)
      <3>1. PICK d \in Dto : Send(r, d)
        BY <2>1, SendsBody
      <3>2. /\ pc'[r] \in {"check", "load"} /\ pc[r] = "new"
            /\ UNCHANGED <<dispatched, charged>>
        BY <3>1 DEF Send, IInv, TypeOK
      <3>3. QED BY <1>2, <3>2 DEF Own, Current, HoldsOutcome, SettledCharge
    <2>2. CASE Handle(r)
      BY <1>2, <2>2, CreateOwn, SaveBillOwn, RetryOwn, RejectedOwn DEF Handle, Own
    <2>3. QED BY <2>1, <2>2
  <1>8. ASSUME NEW s \in Requests \ {r} PROVE Own(s)'
    <2>1. /\ pc[s] \in RequestDone /\ pc'[s] = pc[s] /\ Own(s)
          /\ result'[s] = result[s]
          /\ (s \in dispatched') = (s \in dispatched)
          /\ (s \in charged') = (s \in charged)
      BY <1>2, <1>6, OthersKept
    <2>2. SettledCharge(s)'
      <3>1. \A row \in BillRows : bills[row].status = "PAID" => bills'[row].status = "PAID"
        BY NextBootAlone DEF Next
      <3>2. QED BY <1>1, <1>4, <2>1, <3>1, SettledStays DEF Own
    <2>3. QED BY <2>1, <2>2 DEF Own, Current, HoldsOutcome, RequestDone
  <1>9. \A s \in Requests : Own(s)'
    BY <1>7, <1>8
  <1>10. AnsweredChargeSettled'
    BY <1>1, <1>9 DEF Own, SettledCharge, AnsweredChargeSettled, IInv, TypeOK
  <1>11. QED BY <1>4, <1>5, <1>6, <1>9, <1>10 DEF SerialInv, Own

(* A crash, a boot and the seeder leave no handler that knows anything.    *)
LEMMA SerialService ==
  ASSUME ~Rolling, IInv, BootAlone, SerialInv, Crash \/ Boot \/ Seed
  PROVE  SerialInv' /\ UNCHANGED payments
  <1>1. IInv' /\ Grows
    BY NextIInv DEF Next
  <1>2. UNCHANGED <<payments, dto, result, history>>
    BY DEF Crash, Boot, Seed, SeedLoad, SeedReload, SeedWrite, SeedDone, tables, locals
  <1>3. \A s \in Requests : /\ pc'[s] \in RequestDone
                            /\ pc'[s] \in {"new", "answered"} => pc'[s] = pc[s]
    <2>1. CASE Crash
      BY <2>1 DEF Crash, InFlight, RequestDone
    <2>2. CASE Boot \/ Seed
      <3>1. ~serving /\ UNCHANGED pc
        BY <2>2 DEF Boot, Seed, SeedLoad, SeedReload, SeedWrite, SeedDone, locals,
                    BootAlone
      <3>2. QED BY <3>1 DEF BootAlone, InFlight
    <2>3. QED BY <2>1, <2>2
  <1>4. \A k \in Keys : Succeeded(k) => Succeeded(k)'
    BY <1>2 DEF Succeeded, Recorded
  <1>5. ReferenceOfCharge'
    BY <1>2 DEF SerialInv, ReferenceOfCharge, Recorded, history
  <1>6. ASSUME NEW s \in Requests PROVE Own(s)'
    <2>1. Own(s)
      BY SettledParts DEF SerialInv, Own, IInv
    <2>2. SettledCharge(s)'
      <3>1. \A row \in BillRows : bills[row].status = "PAID" => bills'[row].status = "PAID"
        BY ServiceBootAlone
      <3>2. QED BY <1>1, <1>2, <1>3, <1>4, <2>1, <3>1, SettledStays DEF Own, history
    <2>3. QED BY <1>2, <1>3, <2>1, <2>2 DEF Own, Current, HoldsOutcome, RequestDone, history
  <1>7. OneAtATime'
    BY <1>3 DEF OneAtATime, InFlight
  <1>8. AnsweredChargeSettled'
    BY <1>1, <1>6 DEF Own, SettledCharge, AnsweredChargeSettled, IInv, TypeOK
  <1>9. QED BY <1>2, <1>5, <1>6, <1>7, <1>8 DEF SerialInv, Own

(* Every step keeps the invariant, and SUCCESS.                            *)
LEMMA NextSerial ==
  ASSUME ~Overlap, ~Rolling, IInv, BootAlone, SerialInv, [Next]_vars
  PROVE  SerialInv' /\ \A k \in Keys : Succeeded(k) => Succeeded(k)'
  <1>1. CASE \E r \in Requests : SendCreate(r) \/ SendRetry(r) \/ Handle(r)
    BY <1>1, SerialHandler
  <1>2. CASE Crash \/ Boot \/ Seed
    BY <1>2, SerialService DEF Succeeded, Recorded
  <1>3. CASE UNCHANGED vars
    BY <1>3 DEF vars, SerialInv, OneAtATime, InFlight, Current, HoldsOutcome, Succeeded,
                Recorded, AnsweredChargeSettled, ReferenceOfCharge
  <1>4. QED BY <1>1, <1>2, <1>3 DEF Next

LEMMA InitSerial == Init => SerialInv
  BY DEF Init, SerialInv, OneAtATime, InFlight, RequestDone, Current, HoldsOutcome,
         AnsweredChargeSettled, ReferenceOfCharge, Recorded

(* Where requests are handled one at a time and no instance boots beside a *)
(* serving one, a handler acts on what is still so: the invariant behind   *)
(* the theorems below, in spite of crashes.                                *)
THEOREM HandlersAreCurrent ==
  ASSUME ~Overlap, ~Rolling PROVE Spec => []SerialInv
  <1>1. IInv /\ BootAlone /\ SerialInv /\ [Next]_vars => SerialInv'
    BY NextSerial
  <1>2. QED BY <1>1, InitSerial, Inductive, SeederBootsAlone, PTL DEF Spec

(* A customer who was charged and got an answer other than 500 finds the   *)
(* payment SUCCESS and the bill PAID, whatever requests, crashes, boots    *)
(* and failing queries came before or since.                               *)
THEOREM ChargesAreSettled ==
  ASSUME ~Overlap, ~Rolling PROVE Spec => []AnsweredChargeSettled
  <1>1. SerialInv => AnsweredChargeSettled
    BY DEF SerialInv
  <1>2. QED BY <1>1, HandlersAreCurrent, PTL

(* The reference in a SUCCESS row is that of a charged call for its key.   *)
THEOREM ReferencesAreCharged ==
  ASSUME ~Overlap, ~Rolling PROVE Spec => []ReferenceOfCharge
  <1>1. SerialInv => ReferenceOfCharge
    BY DEF SerialInv
  <1>2. QED BY <1>1, HandlersAreCurrent, PTL

(* Neither a retry nor a late save takes a payment from SUCCESS.           *)
THEOREM SuccessIsFinal ==
  ASSUME ~Overlap, ~Rolling PROVE Spec => SuccessFinal
  <1>1. IInv /\ BootAlone /\ SerialInv /\ [Next]_vars =>
          [\A k \in Keys : Recorded(k) /\ payments[k].status = "SUCCESS"
                           => payments'[k].status = "SUCCESS"]_vars
    BY NextSerial DEF Succeeded
  <1>2. QED BY <1>1, Inductive, SeederBootsAlone, HandlersAreCurrent, PTL
            DEF Spec, SuccessFinal
-----------------------------------------------------------------------------
(* With retries: the tables implement the ledger, request after request    *)

(* The UPDATE of save(payment) in payViaBbps resolves the payment in the   *)
(* ledger.                                                                 *)
LEMMA LedgerResolve ==
  ASSUME IInv, IInv', Grows, NEW r \in Requests, Current(r), SaveWrite(r), WritesOwn(r)
  PROVE  Ledger!Next
  <1>0. PICK k \in Keys : k = dto[r].key
    BY DEF IInv, TypeOK, Dto
  <1>1. /\ pc[r] = "saveWrite" /\ Recorded(k) /\ ~Succeeded(k)
        /\ payments' = [payments EXCEPT ![k] = payEntity[r]]
        /\ UNCHANGED bills
    BY <1>0 DEF SaveWrite, WritesOwn, IInv, HoldsPayment, PayPcs
  <1>2. /\ payments'[k] = payEntity[r] /\ payments'[k] # NoPayment
        /\ payEntity[r].bill = payments[k].bill
        /\ payEntity[r].status \in Statuses
    BY <1>0, <1>1 DEF IInv, TypeOK, PaymentRow, Grows, SameIdentity
  <1>3. /\ LedgerEntry(k) = [bill |-> payments[k].bill, status |-> payments[k].status]
        /\ LedgerEntry(k)' = [bill |-> payments[k].bill, status |-> payEntity[r].status]
    BY <1>1, <1>2 DEF LedgerEntry, Recorded
  <1>4. \A j \in Keys \ {k} : LedgerEntry(j)' = LedgerEntry(j)
    BY <1>1 DEF LedgerEntry, Recorded, IInv, TypeOK
  <1>5. PaidBills' = PaidBills
    BY <1>1 DEF PaidBills
  <1>6. LedgerEntry(k) # NoPayment /\ LedgerEntry(k).status # "SUCCESS"
    <2>1. payments[k] \in PaymentRow
      BY <1>1 DEF IInv, TypeOK, Recorded
    <2>2. LedgerEntry(k) \in [bill : Bills, status : Statuses]
      BY <1>3, <2>1 DEF PaymentRow
    <2>3. QED BY <1>1, <1>3, <2>2, NoEntryAssumption DEF Succeeded
  <1>7. [j \in Keys |-> LedgerEntry(j)]' =
          [[j \in Keys |-> LedgerEntry(j)] EXCEPT ![k].status = payEntity[r].status]
    <2>1. LedgerEntry(k)' = [LedgerEntry(k) EXCEPT !.status = payEntity[r].status]
      BY <1>3
    <2> DEFINE old == [j \in Keys |-> LedgerEntry(j)]
    <2>2. [j \in Keys |-> LedgerEntry(j)]' = [old EXCEPT ![k] = LedgerEntry(k)']
      BY <1>4
    <2>3. QED BY <2>1, <2>2
  <1>8. Ledger!Resolve(k)
    BY <1>2, <1>5, <1>6, <1>7 DEF Ledger!Resolve
  <1>9. QED BY <1>8 DEF Ledger!Next

(* Every step of a service that handles its requests one at a time is a    *)
(* step of the ledger or a stutter.                                        *)
LEMMA SerialLedgerStep ==
  ASSUME ~Rolling, IInv, BootAlone, SerialInv, [Next]_vars
  PROVE  [Ledger!Next]_(Ledger!vars)
  <1>1. ASSUME NEW r \in Requests, SendCreate(r) \/ SendRetry(r) \/ Handle(r)
        PROVE  [Ledger!Next]_(Ledger!vars)
    <2>1. IInv' /\ Grows /\ Current(r)
      BY <1>1, NextIInv DEF Next, SerialInv
    <2>2. CASE MarkWrite(r)
      BY <2>1, <2>2, LedgerSettle DEF Current, Succeeded, MarkWrite
    <2>3. CASE ~MarkWrite(r) /\ UNCHANGED payments
      BY <1>1, <2>3, HandlerBootAlone, LedgerStutter
    <2>4. CASE WritesOwn(r) /\ payments' # payments /\ pc[r] = "insert"
      <3>1. InsertPayment(r)
        BY <1>1, <2>4, SendsBody
           DEF Send, Handle, Create, SaveBill, Retry, AwaitRejects, CheckKey, Replay,
               FindBill, Dispatch, MarkReload, MarkWrite, LoadPayment, Redispatch,
               SaveReload, SaveWrite, Refind, tables
      <3>2. ~Recorded(dto[r].key)
        BY <2>1, <2>4 DEF Current
      <3>3. QED BY <2>4, <3>1, <3>2, LedgerRecord DEF WritesOwn
    <2>5. CASE WritesOwn(r) /\ payments' # payments /\ pc[r] = "saveWrite"
      <3>1. SaveWrite(r)
        BY <1>1, <2>5, SendsBody
           DEF Send, Handle, Create, SaveBill, Retry, AwaitRejects, CheckKey, Replay,
               FindBill, Dispatch, InsertPayment, MarkReload, MarkWrite, LoadPayment,
               Redispatch, SaveReload, Refind, tables
      <3>2. QED BY <2>1, <2>5, <3>1, LedgerResolve
    <2>6. QED BY <1>1, <2>1, <2>2, <2>3, <2>4, <2>5, PaymentWrites DEF WritesOwn
  <1>2. CASE Crash \/ Boot \/ Seed
    <2>1. UNCHANGED payments
      BY <1>2, SerialService
    <2>2. QED BY <1>2, <2>1, ServiceBootAlone, LedgerStutter
  <1>3. CASE UNCHANGED vars
    BY <1>3, LedgerStutter DEF vars
  <1>4. QED BY <1>1, <1>2, <1>3 DEF Next

(* Where requests are handled one at a time and no instance boots beside a *)
(* serving one, create, payViaBbps, crashes and the catalog seeder         *)
(* together implement the abstract ledger: a payment is recorded once,     *)
(* SUCCESS closes it, and only then its bill becomes PAID.                 *)
THEOREM ServiceImplementsLedger ==
  ASSUME ~Overlap, ~Rolling PROVE Spec => ImplementsLedger
  <1>1. IInv /\ BootAlone /\ SerialInv /\ [Next]_vars => [Ledger!Next]_(Ledger!vars)
    BY SerialLedgerStep
  <1>2. QED BY <1>1, LedgerInit, Inductive, SeederBootsAlone, HandlersAreCurrent, PTL
            DEF Spec, ImplementsLedger, Ledger!Spec
-----------------------------------------------------------------------------
(* One call per key, and, without restarts, replays recognised             *)

(* The instance that serves is the one that started.                       *)
NoRestart == serving /\ seeder.pc = "off"

(* Without a restart the service never crashes, and no seeder runs.        *)
LEMMA StaysUp ==
  ASSUME MaxBoots = 0, IInv, NoRestart, [Next]_vars
  PROVE  NoRestart' /\ (UNCHANGED vars \/ \E r \in Requests :
                          SendCreate(r) \/ SendRetry(r) \/ Handle(r))
  <1>1. ~(Crash \/ Boot \/ Seed)
    <2>1. ~(boots < MaxBoots)
      BY DEF IInv, TypeOK
    <2>2. QED BY <2>1 DEF Crash, Boot, Seed, SeedLoad, SeedReload, SeedWrite, SeedDone,
                          NoRestart
  <1>2. ASSUME NEW r \in Requests, SendCreate(r) \/ SendRetry(r) \/ Handle(r)
        PROVE  NoRestart'
    <2>1. UNCHANGED <<serving, seeder>>
      BY <1>2, SendsBody
         DEF Send, Handle, Create, SaveBill, Retry, AwaitRejects, CheckKey,
             Replay, FindBill, Dispatch,
             InsertPayment, MarkReload, MarkWrite, LoadPayment, Redispatch, SaveReload,
             SaveWrite, Refind, service
    <2>2. QED BY <2>1 DEF NoRestart
  <1>3. QED BY <1>1, <1>2 DEF Next, NoRestart, vars

(* A client has its answer only when its handler is through.               *)
Silent == \A r \in Requests : pc[r] # "answered" => result[r] = "none"

Unanswered(r) == pc[r] = "lost" \/ result[r] = "ERROR"

(* A create that has called BBPS is about to record its payment, or has,   *)
(* or never will.                                                          *)
CreatesRecorded ==
    \A r \in dispatched : dto[r].kind = "create" =>
        pc[r] = "insert" \/ Recorded(dto[r].key) \/ Unanswered(r)

OnceInv == Silent /\ CreatesRecorded /\ RepeatsOnlyUnanswered

(* RepeatsOnlyUnanswered, pair by pair.                                    *)
SameCreate(r, s) == /\ dto[r].kind = "create" /\ dto[s].kind = "create"
                    /\ dto[r].key = dto[s].key /\ r # s

LEMMA RepeatsParts ==
  RepeatsOnlyUnanswered <=>
    \A r, s \in dispatched : SameCreate(r, s) => Unanswered(r) \/ Unanswered(s)
  BY DEF RepeatsOnlyUnanswered, SameCreate, Unanswered

(* A handler leaves answered requests, and those a crash took, alone; its  *)
(* own request has no answer while it runs.                                *)
LEMMA UnansweredStays ==
  ASSUME IInv, Silent, NEW r \in Requests, SendCreate(r) \/ SendRetry(r) \/ Handle(r)
  PROVE  /\ \A s \in Requests : Unanswered(s) => Unanswered(s)' /\ dto'[s] = dto[s]
         /\ Silent'
  <1>1. \A s \in Requests \ {r} : /\ pc'[s] = pc[s] /\ result'[s] = result[s]
                                   /\ dto'[s] = dto[s]
    BY OthersKept
  <1>2. pc[r] \notin {"answered", "lost"}
    BY SendsBody
       DEF Send, Handle, Create, SaveBill, Retry, AwaitRejects, Queries, CheckKey, Replay,
           FindBill, Dispatch, InsertPayment, MarkReload, MarkWrite, LoadPayment,
           Redispatch, SaveReload, SaveWrite, Refind
  <1>3. result[r] = "none" /\ ~Unanswered(r)
    BY <1>2 DEF Silent, Unanswered
  <1>4. pc'[r] = "answered" \/ result'[r] = "none"
    <2>1. CASE SendCreate(r) \/ SendRetry(r)
      BY <1>3, <2>1, SendsBody DEF Send
    <2>2. CASE Create(r)
      BY <1>3, <2>2 DEF Create, CheckKey, Replay, FindBill, Dispatch, InsertPayment,
                        Answer, IInv, TypeOK
    <2>3. CASE SaveBill(r) \/ AwaitRejects(r)
      BY <1>3, <2>3 DEF SaveBill, MarkReload, MarkWrite, AwaitRejects, Answer, IInv, TypeOK
    <2>4. CASE Retry(r)
      BY <1>3, <2>4 DEF Retry, LoadPayment, Redispatch, SaveReload, SaveWrite, Refind,
                        Answer, IInv, TypeOK
    <2>5. QED BY <2>1, <2>2, <2>3, <2>4 DEF Handle
  <1>5. QED BY <1>1, <1>3, <1>4 DEF Silent, Unanswered

(* A step of create either calls BBPS for a key that has no payment, or    *)
(* takes a create that has called it to its row or to its 500.             *)
LEMMA CallsOnce ==
  ASSUME IInv, Grows, NEW r \in Requests, Current(r), HoldsOutcome(r),
         Silent, CreatesRecorded, SendCreate(r) \/ SendRetry(r) \/ Handle(r),
         r \in dispatched', dto'[r].kind = "create"
  PROVE  /\ pc'[r] = "insert" \/ Recorded(dto[r].key)' \/ Unanswered(r)'
         /\ r \in dispatched \/ ~Recorded(dto[r].key)
         /\ dto'[r] = dto[r]
  <1>1. dto[r].key \in Keys /\ OneHandler(r)
    BY DEF IInv, TypeOK, Dto
  <1>2. Handle(r) /\ pc[r] # "new"
    <2>1. ~(SendCreate(r) \/ SendRetry(r))
      BY SendsBody DEF Send, HoldsOutcome
    <2>2. QED BY <2>1
          DEF Handle, Create, SaveBill, Retry, AwaitRejects, Queries, CheckKey, Replay,
              FindBill, Dispatch, InsertPayment, MarkReload, MarkWrite, LoadPayment,
              Redispatch, SaveReload, SaveWrite, Refind
  <1>3. dto'[r] = dto[r]
    BY <1>2 DEF Grows
  <1>4. CASE Dispatch(r)
    BY <1>1, <1>3, <1>4 DEF Dispatch, Current, IInv, TypeOK
  <1>5. CASE AwaitRejects(r)
    BY <1>3, <1>5, Rejects DEF IInv, TypeOK, Unanswered, history
  <1>6. CASE ~Dispatch(r) /\ ~AwaitRejects(r)
    <2>1. UNCHANGED dispatched
      BY <1>1, <1>2, <1>3, <1>6
         DEF Handle, Create, SaveBill, Retry, CheckKey, Replay, FindBill,
             InsertPayment, MarkReload, MarkWrite, LoadPayment, Redispatch, SaveReload,
             SaveWrite, Refind, OneHandler, history
    <2>2. pc[r] = "insert" \/ Recorded(dto[r].key) \/ Unanswered(r)
      BY <1>3, <2>1 DEF CreatesRecorded
    <2>3. CASE Recorded(dto[r].key)
      BY <1>1, <1>3, <2>1, <2>3 DEF Grows, SameIdentity, Recorded
    <2>4. CASE pc[r] = "insert"
      <3>1. InsertPayment(r) /\ ~Recorded(dto[r].key)
        BY <1>2, <1>6, <2>4
           DEF Handle, Create, SaveBill, Retry, CheckKey, Replay, FindBill, Dispatch,
               MarkReload, MarkWrite, LoadPayment, Redispatch, SaveReload, SaveWrite,
               Refind, Current
      <3>2. /\ payments' = [payments EXCEPT ![dto[r].key] = payEntity[r]]
            /\ payEntity[r] # NoPayment
        BY <3>1, NoPaymentAssumption DEF InsertPayment, KeyFree, Recorded, IInv, TypeOK
      <3>3. Recorded(dto[r].key)'
        BY <1>1, <1>3, <3>2 DEF Recorded, IInv, TypeOK
      <3>4. QED BY <1>3, <2>1, <3>3
    <2>5. CASE ~Recorded(dto[r].key) /\ Unanswered(r) /\ pc[r] # "insert"
      BY <1>3, <2>1, <2>5, UnansweredStays DEF Unanswered
    <2>6. QED BY <2>2, <2>3, <2>4, <2>5
  <1>7. QED BY <1>4, <1>5, <1>6

(* A call of BBPS for a create finds no other create of its key that has   *)
(* called, because that one would have recorded its payment, unless it     *)
(* got no outcome.                                                         *)
LEMMA HandlerOnce ==
  ASSUME ~Overlap, IInv, SerialInv, OnceInv, NEW r \in Requests,
         SendCreate(r) \/ SendRetry(r) \/ Handle(r)
  PROVE  OnceInv'
  <1>1. /\ Grows /\ Silent' /\ Current(r) /\ HoldsOutcome(r)
        /\ \A s \in Requests : Unanswered(s) => Unanswered(s)' /\ dto'[s] = dto[s]
    BY NextIInv, UnansweredStays DEF OnceInv, SerialInv, Next
  <1>2. \A s \in Requests \ {r} :
            /\ pc[s] \in RequestDone /\ dto'[s] = dto[s]
            /\ (s \in dispatched') = (s \in dispatched)
    BY OthersAtRest, OthersKept DEF SerialInv
  <1>3. dispatched \subseteq Requests /\ dispatched' \subseteq Requests
    BY NextIInv DEF IInv, TypeOK, Next
  <1>4. ASSUME NEW s \in dispatched, s # r, dto[s].kind = "create"
        PROVE  /\ Recorded(dto[s].key) \/ Unanswered(s)
               /\ Recorded(dto[s].key)' \/ Unanswered(s)'
    <2>1. /\ s \in Requests /\ dto[s].key \in Keys /\ dto'[s] = dto[s]
          /\ Recorded(dto[s].key) \/ Unanswered(s)
      BY <1>2, <1>3, <1>4 DEF OnceInv, CreatesRecorded, RequestDone, IInv, TypeOK, Dto
    <2>2. QED BY <1>1, <2>1 DEF Grows, SameIdentity, Recorded
  <1>5. ASSUME r \in dispatched', dto'[r].kind = "create"
        PROVE  /\ pc'[r] = "insert" \/ Recorded(dto[r].key)' \/ Unanswered(r)'
               /\ r \in dispatched \/ ~Recorded(dto[r].key)
               /\ dto'[r] = dto[r]
    BY <1>1, <1>5, CallsOnce DEF OnceInv
  <1>6. CreatesRecorded'
    BY <1>2, <1>3, <1>4, <1>5 DEF CreatesRecorded
  <1>7. ASSUME NEW p \in dispatched', NEW q \in dispatched', SameCreate(p, q)'
        PROVE  Unanswered(p)' \/ Unanswered(q)'
    <2>1. /\ dto'[p] = dto[p] /\ dto'[q] = dto[q] /\ SameCreate(p, q)
          /\ p \in Requests /\ q \in Requests
      BY <1>2, <1>3, <1>5, <1>7 DEF SameCreate
    <2>2. CASE p \in dispatched /\ q \in dispatched
      BY <1>1, <2>1, <2>2, RepeatsParts DEF OnceInv
    <2>3. CASE p \notin dispatched
      <3>1. p = r /\ ~Recorded(dto[p].key) /\ q \in dispatched /\ q # r
        BY <1>2, <1>5, <1>7, <2>1, <2>3 DEF SameCreate
      <3>2. Unanswered(q)
        BY <1>4, <2>1, <3>1 DEF SameCreate
      <3>3. QED BY <1>1, <2>1, <3>2
    <2>4. CASE q \notin dispatched
      <3>1. q = r /\ ~Recorded(dto[q].key) /\ p \in dispatched /\ p # r
        BY <1>2, <1>5, <1>7, <2>1, <2>4 DEF SameCreate
      <3>2. Unanswered(p)
        BY <1>4, <2>1, <3>1 DEF SameCreate
      <3>3. QED BY <1>1, <2>1, <3>2
    <2>5. QED BY <2>2, <2>3, <2>4
  <1>8. RepeatsOnlyUnanswered'
    BY <1>7 DEF RepeatsOnlyUnanswered, SameCreate, Unanswered
  <1>9. QED BY <1>1, <1>6, <1>8 DEF OnceInv

(* A crash takes the handlers with it, and neither it nor a boot calls     *)
(* BBPS.                                                                   *)
LEMMA ServiceOnce ==
  ASSUME IInv, OnceInv, Crash \/ Boot \/ Seed
  PROVE  OnceInv'
  <1>1. UNCHANGED <<payments, dto, result, history>>
    BY DEF Crash, Boot, Seed, SeedLoad, SeedReload, SeedWrite, SeedDone, tables, locals
  <1>2. \A s \in Requests : pc'[s] = pc[s] \/ (pc[s] \notin RequestDone /\ pc'[s] = "lost")
    BY DEF Crash, Boot, Seed, SeedLoad, SeedReload, SeedWrite, SeedDone, locals, InFlight
  <1>3. Silent'
    BY <1>1, <1>2 DEF OnceInv, Silent, RequestDone
  <1>4. \A s \in Requests : Unanswered(s) => Unanswered(s)'
    BY <1>1, <1>2 DEF Unanswered
  <1>5. dispatched \subseteq Requests /\ dispatched' = dispatched
    BY <1>1 DEF IInv, TypeOK, history
  <1>6. CreatesRecorded'
    BY <1>1, <1>2, <1>4, <1>5
       DEF OnceInv, CreatesRecorded, Unanswered, Recorded
  <1>7. RepeatsOnlyUnanswered'
    <2>1. ASSUME NEW p \in dispatched', NEW q \in dispatched', SameCreate(p, q)'
          PROVE  Unanswered(p)' \/ Unanswered(q)'
      BY <1>1, <1>4, <1>5, <2>1, RepeatsParts DEF OnceInv, SameCreate
    <2>2. QED BY <2>1 DEF RepeatsOnlyUnanswered, SameCreate, Unanswered
  <1>8. QED BY <1>3, <1>6, <1>7 DEF OnceInv

(* Without overlap, create calls BBPS a second time under a key only when  *)
(* the first call's client got no outcome, in spite of crashes and of      *)
(* queries that fail.                                                      *)
THEOREM RepeatsWereUnanswered ==
  ASSUME ~Overlap, ~Rolling PROVE Spec => []RepeatsOnlyUnanswered
  <1>1. Init => OnceInv
    BY DEF Init, OnceInv, Silent, CreatesRecorded, RepeatsOnlyUnanswered
  <1>2. IInv /\ SerialInv /\ OnceInv /\ [Next]_vars => OnceInv'
    <2> SUFFICES ASSUME IInv, SerialInv, OnceInv, [Next]_vars PROVE OnceInv'
      OBVIOUS
    <2>1. CASE UNCHANGED vars
      BY <2>1 DEF vars, OnceInv, Silent, CreatesRecorded, RepeatsOnlyUnanswered,
                  Unanswered, Recorded
    <2>2. QED BY <2>1, HandlerOnce, ServiceOnce DEF Next
  <1>3. OnceInv => RepeatsOnlyUnanswered
    BY DEF OnceInv
  <1>4. QED BY <1>1, <1>2, <1>3, Inductive, HandlersAreCurrent, PTL DEF Spec

(* A create holds the bill's amount, which is the requested one if the     *)
(* request names any.                                                      *)
SameAmount(r) ==
    /\ pc[r] \in {"dispatch", "insert"} =>
          /\ billEntity[r].amount = bills[Lookup(dto[r].bill)].amount
          /\ dto[r].amount \in {NoAmount, billEntity[r].amount}
    /\ pc[r] = "insert" => payEntity[r].amount = billEntity[r].amount
    /\ pc[r] \in {"markReload", "markWrite"} =>
          billEntity[r].amount = bills[Lookup(payEntity[r].bill)].amount

SameAsRecorded(r) ==
    Recorded(dto[r].key) /\ SamePaymentRequest(dto[r], payments[dto[r].key])

(* What a create was told says whether it equals the request its key's     *)
(* payment was recorded for.                                               *)
Told(r) ==
    /\ dto[r].kind = "create" => ValidCreate(dto[r])
    /\ pc[r] # "answered" => result[r] = "none"
    /\ dto[r].kind = "create"
          /\ (pc[r] \in {"markReload", "markWrite"} \/ result[r] \in Statuses)
          => SameAsRecorded(r)
    /\ result[r] = "IDEMPOTENCY_KEY_REUSED" =>
          Recorded(dto[r].key) /\ ~SameAsRecorded(r)

ReplayInv == NoRestart /\ \A r \in Requests : SameAmount(r) /\ Told(r)

SameAmounts == \A row \in BillRows : bills'[row].amount = bills[row].amount

(* While bills keep their amounts and payments their identity, a request   *)
(* stays equal, or unequal, to the one its key was recorded for.           *)
LEMMA SameRequestStays ==
  ASSUME IInv, Grows, SameAmounts, NEW s \in Requests, dto'[s] = dto[s],
         Recorded(dto[s].key)
  PROVE  /\ Recorded(dto[s].key)'
         /\ SameAsRecorded(s)' <=> SameAsRecorded(s)
  <1>1. dto[s].key \in Keys /\ dto[s].bill \in Bills
    BY DEF IInv, TypeOK, Dto
  <1>2. /\ payments'[dto[s].key] # NoPayment
        /\ payments'[dto[s].key].bill = payments[dto[s].key].bill
        /\ payments'[dto[s].key].amount = payments[dto[s].key].amount
    BY <1>1 DEF Grows, SameIdentity
  <1>3. Found(dto[s].bill) =>
           bills'[Lookup(dto[s].bill)].amount = bills[Lookup(dto[s].bill)].amount
    BY <1>1, LookupFound DEF SameAmounts
  <1>4. QED BY <1>2, <1>3 DEF SameAsRecorded, SamePaymentRequest, Recorded

(* A handler's UPDATE of its bill does not touch the amount.               *)
LEMMA AmountsStay ==
  ASSUME IInv, BootAlone, NEW r \in Requests, SameAmount(r),
         SendCreate(r) \/ SendRetry(r) \/ Handle(r)
  PROVE  SameAmounts
  <1>1. CASE ~MarkWrite(r)
    BY <1>1, HandlerBootAlone DEF SameAmounts
  <1>2. CASE MarkWrite(r)
    <2> DEFINE row == Lookup(payEntity[r].bill)
    <2>1. /\ pc[r] = "markWrite" /\ billEntity[r].amount = bills[row].amount
          /\ bills' = [bills EXCEPT ![row] = Patch(bills[row], billEntity[r], dirty[r])]
      BY <1>2 DEF MarkWrite, SameAmount
    <2>2. row \in BillRows /\ bills[row] \in BillRow /\ billEntity[r] \in BillRow
      BY <2>1, HeldBill DEF IInv, TypeOK, PayPcs
    <2>3. Patch(bills[row], billEntity[r], dirty[r]).amount = bills[row].amount
      BY <2>1, <2>2 DEF Patch, BillRow
    <2>4. QED BY <2>1, <2>2, <2>3 DEF SameAmounts, IInv, TypeOK
  <1>3. QED BY <1>1, <1>2

(* An answer other than an outcome or a refusal says nothing of the key.   *)
LEMMA AnsweredOtherwise ==
  ASSUME IInv, NEW r \in Requests, Told(r), NEW outcome, Answer(r, outcome),
         dto[r].kind = "create" => outcome \notin Statuses,
         outcome # "IDEMPOTENCY_KEY_REUSED"
  PROVE  SameAmount(r)' /\ Told(r)'
  <1>1. pc'[r] = "answered" /\ result'[r] = outcome /\ dto'[r] = dto[r]
    BY DEF Answer, IInv, TypeOK
  <1>2. QED BY <1>1 DEF SameAmount, Told, ValidCreate

(* create, step by step, tells a request whether it is the recorded one.   *)
LEMMA CreateTold ==
  ASSUME IInv, NEW r \in Requests, Current(r), SameAmount(r), Told(r), Create(r)
  PROVE  SameAmount(r)' /\ Told(r)'
  <1>0. /\ dto[r].key \in Keys /\ payEntity[r] \in PaymentRow /\ dto[r] \in Dto
        /\ billEntity[r] \in BillRow
    BY DEF IInv, TypeOK, Dto
  <1>1. CASE CheckKey(r)
    <2>1. CASE Answer(r, "PAYMENT_NOT_FOUND")
      BY <2>1, AnsweredOtherwise DEF Statuses
    <2>2. CASE \E p \in {"find", "replay"} : /\ pc' = [pc EXCEPT ![r] = p]
                                             /\ UNCHANGED <<dto, result>>
      BY <1>1, <2>2 DEF CheckKey, SameAmount, Told, ValidCreate, Statuses, IInv, TypeOK
    <2>3. QED BY <1>1, <2>1, <2>2 DEF CheckKey
  <1>2. CASE Replay(r)
    <2>1. /\ pc[r] = "replay" /\ payEntity[r] = payments[dto[r].key]
          /\ Recorded(dto[r].key) /\ UNCHANGED tables
      BY <1>2 DEF Replay, Current, IInv, HoldsPayment, PayPcs
    <2>2. CASE Answer(r, "DUPLICATE")
      BY <2>2, AnsweredOtherwise DEF Statuses
    <2>3. CASE /\ Answer(r, "IDEMPOTENCY_KEY_REUSED")
               /\ ~SamePaymentRequest(dto[r], payEntity[r])
      <3>1. /\ pc'[r] = "answered" /\ result'[r] = "IDEMPOTENCY_KEY_REUSED"
            /\ dto' = dto
        BY <2>3 DEF Answer, IInv, TypeOK
      <3>2. UNCHANGED <<bills, payments>>
        BY <2>1 DEF tables
      <3>3. Recorded(dto[r].key)' /\ ~SameAsRecorded(r)'
        BY <2>1, <2>3, <3>1, <3>2 DEF SameAsRecorded, SamePaymentRequest, Recorded
      <3>4. QED BY <3>1, <3>3 DEF SameAmount, Told, ValidCreate, Statuses
    <2>4. QED BY <1>2, <2>2, <2>3 DEF Replay
  <1>3. CASE FindBill(r)
    <2>1. CASE \E outcome \in {"BILL_NOT_FOUND", "BILL_NOT_PAYABLE", "AMOUNT_MISMATCH"} :
                  Answer(r, outcome)
      BY <2>1, AnsweredOtherwise DEF Statuses
    <2>2. CASE /\ dto[r].amount \in {NoAmount, bills[Lookup(dto[r].bill)].amount}
               /\ billEntity' = [billEntity EXCEPT ![r] = bills[Lookup(dto[r].bill)]]
               /\ pc' = [pc EXCEPT ![r] = "dispatch"]
               /\ UNCHANGED <<dto, result>>
      BY <1>3, <2>2 DEF FindBill, SameAmount, Told, ValidCreate, Statuses, IInv, TypeOK,
                        tables
    <2>3. QED BY <1>3, <2>1, <2>2 DEF FindBill
  <1>4. CASE Dispatch(r)
    <2>1. /\ pc[r] = "dispatch" /\ pc'[r] = "insert"
          /\ UNCHANGED <<bills, dto, billEntity, result>>
          /\ payEntity'[r].amount = billEntity[r].amount
      BY <1>4 DEF Dispatch, IInv, TypeOK, tables
    <2>2. QED BY <2>1 DEF SameAmount, Told, ValidCreate, Statuses
  <1>5. CASE InsertPayment(r)
    <2>1. /\ pc[r] = "insert" /\ ~Recorded(dto[r].key) /\ KeyFree(dto[r].key)
          /\ payments' = [payments EXCEPT ![dto[r].key] = payEntity[r]]
          /\ UNCHANGED <<bills, dto>>
      BY <1>5 DEF InsertPayment, Current, KeyFree, Recorded, Answer
    <2>2. payments'[dto[r].key] = payEntity[r] /\ payEntity[r] # NoPayment
      BY <1>0, <2>1, NoPaymentAssumption DEF IInv, TypeOK
    <2>3. /\ payEntity[r].bill = dto[r].bill /\ Found(dto[r].bill)
          /\ payEntity[r].amount = billEntity[r].amount
          /\ billEntity[r].amount = bills[Lookup(dto[r].bill)].amount
          /\ dto[r].amount \in {NoAmount, billEntity[r].amount}
      BY <2>1 DEF SameAmount, IInv, HoldsBill
    <2>4. dto[r].kind = "create" => SameAsRecorded(r)'
      <3> SUFFICES ASSUME dto[r].kind = "create" PROVE SameAsRecorded(r)'
        OBVIOUS
      <3> DEFINE p == payments'[dto'[r].key]
      <3>1. p # NoPayment /\ p.bill = dto'[r].bill /\ p.amount = billEntity[r].amount
        BY <2>1, <2>2, <2>3
      <3>2. CASE dto[r].by = "number"
        BY <2>1, <2>3, <3>1, <3>2 DEF SameAsRecorded, SamePaymentRequest, Recorded
      <3>3. CASE dto[r].by # "number"
        <4>1. dto[r].amount # NoAmount
          BY <1>0, <3>3 DEF Told, ValidCreate, Dto
        <4>2. QED BY <2>1, <2>3, <3>1, <3>3, <4>1
                  DEF SameAsRecorded, SamePaymentRequest, Recorded
      <3>4. QED BY <3>2, <3>3
    <2>5. CASE ~Settles(payEntity[r])
      <3>1. Answer(r, payEntity[r].status) /\ payEntity[r].status \in Statuses
        BY <1>0, <1>5, <2>1, <2>5 DEF InsertPayment, PaymentRow
      <3>2. pc'[r] = "answered" /\ result'[r] \in Statuses
        BY <3>1 DEF Answer, IInv, TypeOK
      <3>3. QED BY <2>1, <2>4, <3>2 DEF SameAmount, Told, ValidCreate, Statuses
    <2>6. CASE Settles(payEntity[r])
      <3>1. /\ billEntity' = [billEntity EXCEPT ![r] = MarkPaid(billEntity[r])]
            /\ pc' = [pc EXCEPT ![r] = "markReload"] /\ UNCHANGED <<payEntity, result>>
        BY <1>5, <2>1, <2>6 DEF InsertPayment
      <3>2. /\ pc'[r] = "markReload"
            /\ billEntity'[r].amount = billEntity[r].amount
        BY <1>0, <3>1 DEF MarkPaid, BillRow, IInv, TypeOK
      <3>3. QED BY <2>1, <2>3, <2>4, <3>1, <3>2
                DEF SameAmount, Told, ValidCreate, Statuses
    <2>7. QED BY <2>5, <2>6
  <1>6. QED BY <1>1, <1>2, <1>3, <1>4, <1>5 DEF Create

(* save(bill) and payViaBbps tell a retry how its payment stands.          *)
LEMMA RestTold ==
  ASSUME IInv, IInv', Grows, SameAmounts, NEW r \in Requests, SameAmount(r), Told(r),
         SaveBill(r) \/ Retry(r)
  PROVE  SameAmount(r)' /\ Told(r)'
  <1>0. dto[r].key \in Keys /\ payEntity[r] \in PaymentRow
    BY DEF IInv, TypeOK, Dto
  <1>1. CASE MarkReload(r)
    BY <1>1 DEF MarkReload, SameAmount, Told, SameAsRecorded, SamePaymentRequest,
                Recorded, ValidCreate, Statuses, IInv, TypeOK, tables
  <1>2. CASE MarkWrite(r)
    <2>1. /\ pc[r] = "markWrite" /\ pc'[r] = "answered" /\ result'[r] = "SUCCESS"
          /\ UNCHANGED dto
      BY <1>2 DEF MarkWrite, Answer, IInv, TypeOK
    <2>2. dto[r].kind = "create" => SameAsRecorded(r)'
      BY <2>1, SameRequestStays DEF Told, SameAsRecorded
    <2>3. QED BY <2>1, <2>2 DEF SameAmount, Told, ValidCreate
  <1>3. CASE LoadPayment(r)
    <2>1. CASE Answer(r, "PAYMENT_NOT_FOUND") \/ Answer(r, "NOOP")
      BY <2>1, AnsweredOtherwise DEF Statuses
    <2>2. CASE pc' = [pc EXCEPT ![r] = "redispatch"] /\ UNCHANGED <<dto, result>>
      BY <1>3, <2>2 DEF LoadPayment, SameAmount, Told, ValidCreate, Statuses, IInv, TypeOK
    <2>3. QED BY <1>3, <2>1, <2>2 DEF LoadPayment
  <1>4. CASE Redispatch(r) \/ SaveReload(r)
    <2>1. /\ pc[r] # "answered" /\ pc'[r] \in {"saveReload", "saveWrite"}
          /\ UNCHANGED <<dto, result>>
      BY <1>4 DEF Redispatch, SaveReload, IInv, TypeOK
    <2>2. QED BY <2>1 DEF SameAmount, Told, ValidCreate, Statuses
  <1>5. CASE SaveWrite(r)
    <2>1. pc[r] = "saveWrite" /\ dto[r].kind = "retry"
      BY <1>5 DEF SaveWrite, IInv, OneHandler
    <2>2. CASE Answer(r, payEntity[r].status)
      BY <1>0, <2>1, <2>2, AnsweredOtherwise DEF PaymentRow, Statuses
    <2>3. CASE pc' = [pc EXCEPT ![r] = "refind"] /\ UNCHANGED <<dto, result>>
      BY <2>1, <2>3 DEF SameAmount, Told, ValidCreate, Statuses, IInv, TypeOK
    <2>4. QED BY <1>5, <2>2, <2>3 DEF SaveWrite
  <1>6. CASE Refind(r)
    <2> DEFINE row == Lookup(payEntity[r].bill)
    <2>1. /\ pc[r] = "refind" /\ pc'[r] = "markReload" /\ dto[r].kind = "retry"
          /\ UNCHANGED <<bills, dto, payEntity, result>>
          /\ billEntity'[r] = MarkPaid(bills[row])
      BY <1>6 DEF Refind, IInv, TypeOK, OneHandler, tables
    <2>2. bills[row] \in BillRow
      BY <2>1, HeldBill DEF IInv, PayPcs
    <2>3. billEntity'[r].amount = bills'[row].amount
      BY <2>1, <2>2 DEF MarkPaid, BillRow
    <2>4. QED BY <2>1, <2>3 DEF SameAmount, Told, ValidCreate, Statuses
  <1>7. QED BY <1>1, <1>2, <1>3, <1>4, <1>5, <1>6 DEF SaveBill, Retry

(* Every step of a service that is not restarted keeps what requests were  *)
(* told true.                                                              *)
LEMMA NextReplay ==
  ASSUME ~Overlap, MaxBoots = 0, IInv, BootAlone, SerialInv, ReplayInv, [Next]_vars
  PROVE  ReplayInv'
  <1>1. NoRestart'
    BY StaysUp DEF ReplayInv
  <1>2. ASSUME NEW r \in Requests, SendCreate(r) \/ SendRetry(r) \/ Handle(r),
               NEW s \in Requests
        PROVE  SameAmount(s)' /\ Told(s)'
    <2>1. /\ IInv' /\ Grows /\ SameAmounts
          /\ Current(r) /\ SameAmount(r) /\ Told(r) /\ SameAmount(s) /\ Told(s)
      BY <1>2, NextIInv, AmountsStay DEF Next, SerialInv, ReplayInv
    <2>2. CASE s = r /\ (SendCreate(r) \/ SendRetry(r))
      <3>1. PICK d \in Dto : Send(r, d) /\ (ValidCreate(d) \/ d.kind = "retry")
        BY <2>2, SendsBody
      <3>2. /\ pc[r] = "new" /\ pc'[r] \in {"check", "load"} /\ dto'[r] = d
            /\ UNCHANGED result
        BY <3>1 DEF Send, IInv, TypeOK
      <3>3. QED BY <2>1, <2>2, <3>1, <3>2 DEF SameAmount, Told, ValidCreate, Statuses
    <2>3. CASE s = r /\ Handle(r)
      <3>1. CASE AwaitRejects(r)
        BY <2>1, <3>1, <2>3, Rejects, AnsweredOtherwise DEF IInv, Statuses
      <3>2. QED BY <2>1, <2>3, <3>1, CreateTold, RestTold DEF Handle
    <2>4. CASE s # r
      <3>1. /\ pc[s] \in RequestDone /\ pc'[s] = pc[s] /\ dto'[s] = dto[s]
            /\ result'[s] = result[s]
        BY <1>2, <2>4, OthersAtRest, OthersKept DEF SerialInv
      <3>2. Recorded(dto[s].key) => /\ Recorded(dto[s].key)'
                                    /\ SameAsRecorded(s)' <=> SameAsRecorded(s)
        BY <2>1, <3>1, SameRequestStays
      <3>3. QED BY <2>1, <3>1, <3>2
                DEF SameAmount, Told, ValidCreate, RequestDone, SameAsRecorded
    <2>5. QED BY <1>2, <2>2, <2>3, <2>4
  <1>3. CASE UNCHANGED vars
    BY <1>1, <1>3 DEF vars, ReplayInv, SameAmount, Told, SameAsRecorded,
                      SamePaymentRequest, Recorded, ValidCreate
  <1>4. QED BY <1>1, <1>2, <1>3, StaysUp DEF ReplayInv

(* Without overlap or restart, a repetition of the create that recorded a  *)
(* key's payment is never refused as a reuse of the key.                   *)
THEOREM ReplaysAreRecognised ==
  ASSUME ~Overlap, ~Rolling, MaxBoots = 0 PROVE Spec => []ReplayRecognised
  <1>1. Init => ReplayInv
    BY DEF Init, ReplayInv, NoRestart, IdleSeeder, SameAmount, Told, ValidCreate, Statuses
  <1>2. IInv /\ BootAlone /\ SerialInv /\ ReplayInv /\ [Next]_vars => ReplayInv'
    BY NextReplay
  <1>3. ReplayInv => ReplayRecognised
    BY DEF ReplayInv, ReplayRecognised, Told, SameAsRecorded
  <1>4. QED BY <1>1, <1>2, <1>3, Inductive, SeederBootsAlone, HandlersAreCurrent, PTL
            DEF Spec
-----------------------------------------------------------------------------
(* Overlapping creates: one outcome per key                                *)

(* A create that was, or is about to be, told what BBPS answered.          *)
Winner(r) == /\ dto[r].kind = "create"
             /\ pc[r] \in {"markReload", "markWrite"} \/ result[r] \in Statuses

OutcomeInv ==
    /\ \A r \in Requests : pc[r] = "new" => result[r] = "none"
    /\ \A r \in Requests : Winner(r) => Recorded(dto[r].key)
    /\ \A r, s \in Requests :
          Winner(r) /\ Winner(s) /\ dto[r].key = dto[s].key => r = s

(* The INSERT of a free key makes its create the winner; nothing else does. *)
LEMMA WinsByInsert ==
  ASSUME IInv, Grows, OutcomeInv, NEW r \in Requests,
         SendCreate(r) \/ SendRetry(r) \/ Handle(r), Winner(r)'
  PROVE  /\ dto'[r] = dto[r]
         /\ Winner(r) \/ (KeyFree(dto[r].key) /\ Recorded(dto[r].key)')
  <1>0. /\ payEntity[r] \in PaymentRow /\ dto[r].key \in Keys
        /\ payEntity[r] # NoPayment /\ {"none", "ERROR", "DUPLICATE"} \cap Statuses = {}
    BY NoPaymentAssumption DEF IInv, TypeOK, Dto, Statuses
  <1>1. CASE SendCreate(r) \/ SendRetry(r)
    BY <1>0, <1>1, SendsBody DEF Send, Winner, OutcomeInv, IInv, TypeOK
  <1>2. CASE CheckKey(r) \/ Replay(r) \/ FindBill(r) \/ Dispatch(r) \/ LoadPayment(r)
    <2>1. \/ \E p \in {"find", "replay", "dispatch", "insert", "redispatch"} :
                pc' = [pc EXCEPT ![r] = p] /\ UNCHANGED <<dto, result>>
          \/ \E outcome \in {"PAYMENT_NOT_FOUND", "DUPLICATE", "IDEMPOTENCY_KEY_REUSED",
                             "BILL_NOT_FOUND", "BILL_NOT_PAYABLE", "AMOUNT_MISMATCH",
                             "NOOP"} : Answer(r, outcome)
      BY <1>2 DEF CheckKey, Replay, FindBill, Dispatch, LoadPayment
    <2>2. QED BY <2>1 DEF Answer, Winner, Statuses, IInv, TypeOK
  <1>3. CASE InsertPayment(r)
    <2>1. CASE ~KeyFree(dto[r].key)
      BY <1>0, <1>3, <2>1 DEF InsertPayment, Answer, Winner, IInv, TypeOK
    <2>2. CASE KeyFree(dto[r].key)
      BY <1>0, <1>3, <2>2 DEF InsertPayment, Answer, Recorded, IInv, TypeOK
    <2>3. QED BY <2>1, <2>2
  <1>4. CASE SaveBill(r)
    BY <1>4 DEF SaveBill, MarkReload, MarkWrite, Answer, Winner, IInv, TypeOK
  <1>5. CASE AwaitRejects(r)
    BY <1>0, <1>5, Rejects DEF Winner, IInv, TypeOK
  <1>6. CASE Redispatch(r) \/ SaveReload(r) \/ SaveWrite(r) \/ Refind(r)
    BY <1>6 DEF Redispatch, SaveReload, SaveWrite, Refind, Answer, Winner, IInv, TypeOK,
                OneHandler
  <1>7. QED BY <1>1, <1>2, <1>3, <1>4, <1>5, <1>6 DEF Handle, Create, Retry

(* No step gives a key a second winner.                                    *)
LEMMA NextOutcome ==
  ASSUME IInv, OutcomeInv, [Next]_vars
  PROVE  OutcomeInv'
  <1>1. IInv' /\ Grows
    BY NextIInv
  <1>2. CASE Crash \/ Boot \/ Seed \/ UNCHANGED vars
    <2>1. /\ UNCHANGED <<payments, dto, result>>
          /\ \A s \in Requests : pc'[s] \in {pc[s], "lost"}
      BY <1>2 DEF Crash, Boot, Seed, SeedLoad, SeedReload, SeedWrite, SeedDone, tables,
                  locals, vars
    <2>2. QED BY <2>1 DEF OutcomeInv, Winner, Recorded
  <1>3. ASSUME NEW r \in Requests, SendCreate(r) \/ SendRetry(r) \/ Handle(r)
        PROVE  OutcomeInv'
    <2>1. \A s \in Requests \ {r} : /\ dto'[s] = dto[s] /\ pc'[s] = pc[s]
                                     /\ Winner(s)' = Winner(s)
      BY <1>3, OthersKept DEF Winner
    <2>2. Winner(r)' => /\ dto'[r] = dto[r]
                        /\ Winner(r) \/ (KeyFree(dto[r].key) /\ Recorded(dto[r].key)')
      BY <1>1, <1>3, WinsByInsert
    <2>3. pc'[r] # "new"
      BY <1>3, SendsBody
         DEF Send, Handle, Create, SaveBill, Retry, AwaitRejects, CheckKey, Replay,
             FindBill, Dispatch, InsertPayment, MarkReload, MarkWrite, LoadPayment,
             Redispatch, SaveReload, SaveWrite, Refind, Answer, IInv, TypeOK
    <2>4. \A s \in Requests : pc'[s] = "new" => result'[s] = "none"
      BY <1>3, <2>1, <2>3, OthersKept DEF OutcomeInv
    <2>5. ASSUME NEW s \in Requests, Winner(s)'
          PROVE  Recorded(dto[s].key)' /\ dto'[s] = dto[s]
      <3>1. dto'[s] = dto[s] /\ dto[s].key \in Keys
        BY <2>1, <2>2, <2>5 DEF IInv, TypeOK, Dto
      <3>2. CASE Winner(s)
        BY <1>1, <3>1, <3>2 DEF OutcomeInv, Grows, SameIdentity, Recorded
      <3>3. QED BY <2>1, <2>2, <2>5, <3>1, <3>2
    <2>6. ASSUME NEW p \in Requests, NEW q \in Requests, Winner(p)', Winner(q)',
                 dto'[p].key = dto'[q].key, p # q
          PROVE  FALSE
      <3>1. dto'[p] = dto[p] /\ dto'[q] = dto[q]
        BY <2>5, <2>6
      <3>2. CASE Winner(p) /\ Winner(q)
        BY <2>6, <3>1, <3>2 DEF OutcomeInv
      <3>3. CASE ~Winner(p)
        BY <2>1, <2>2, <2>6, <3>1, <3>3 DEF OutcomeInv, KeyFree, Recorded
      <3>4. CASE ~Winner(q)
        BY <2>1, <2>2, <2>6, <3>1, <3>4 DEF OutcomeInv, KeyFree, Recorded
      <3>5. QED BY <3>2, <3>3, <3>4
    <2>7. QED BY <2>4, <2>5, <2>6 DEF OutcomeInv
  <1>4. QED BY <1>2, <1>3 DEF Next

(* However creates under one key overlap, crash or fail, at most one is    *)
(* told what BBPS answered.                                                *)
THEOREM OutcomesAreToldOnce == Spec => []OneOutcomePerKey
  <1>1. Init => OutcomeInv
    BY DEF Init, OutcomeInv, Winner, Statuses
  <1>2. IInv /\ OutcomeInv /\ [Next]_vars => OutcomeInv'
    BY NextOutcome
  <1>3. OutcomeInv => OneOutcomePerKey
    BY DEF OutcomeInv, OneOutcomePerKey, Winner
  <1>4. QED BY <1>1, <1>2, <1>3, Inductive, PTL DEF Spec

=============================================================================
