---------------------------- MODULE BillPayment ----------------------------
(***************************************************************************)
(* PaymentService of the bill-payment module: `create` (POST /payment),    *)
(* `payViaBbps` (POST /payment/retry), the BBPS adapter they call, and     *)
(* BbpsCatalogSeeder, which rewrites the bill tables whenever an instance  *)
(* boots.  An action is the code between two awaits of a handler.          *)
(***************************************************************************)
EXTENDS Naturals, Repository

CONSTANTS
    Requests,       \* ids of the HTTP requests the clients may send
    Keys,           \* values of the Idempotency-Key header
    Bills,          \* bills a request may name: a billNumber, or its
                    \*   (billerCode, consumerNumber) pair
    MockBills,      \* bills with a row in mock_bill
    DemoBills,      \* bills with a row in demo_bbps_data
    SeededBills,    \* bills listed in BBPS_CATALOG
    Amounts,        \* amounts of a bill
    Actors,         \* Keycloak subjects of customers
    NoPayment,      \* no bill_payment row has this key
    NoAmount,       \* dto.amount left out
    NoRef,          \* bbps_reference_id IS NULL
    Retries,        \* whether clients call POST /payment/retry
    Overlap,        \* whether requests are handled concurrently
    Rolling,        \* whether an instance boots while another one serves
    MaxBoots,       \* bound: restarts of the service in a behaviour
    MaxFaults       \* bound: queries that fail in a behaviour

Statuses == {"SUCCESS", "FAILED", "PENDING", "TIMEOUT"}

BillRows == ({"mock"} \X MockBills) \cup ({"demo"} \X DemoBills)
SeededRows == {"mock", "demo"} \X SeededBills

ASSUME BillPaymentAssumption ==
    /\ MockBills \subseteq Bills /\ DemoBills \subseteq Bills
    /\ SeededBills \subseteq MockBills /\ SeededBills \subseteq DemoBills
    /\ NoRef \notin Requests /\ NoAmount \notin Amounts
    /\ Keys # {} /\ Bills # {} /\ Amounts # {} /\ Actors # {}
    /\ {Retries, Overlap, Rolling} \subseteq BOOLEAN
    /\ MaxFaults \in Nat

VARIABLES
    bills,          \* the rows of mock_bill and demo_bbps_data
    payments,       \* the bill_payment row of each idempotency key (UNIQUE)
    pc,             \* where each request's handler is
    dto,            \* each request's body, key header and actor
    billEntity,     \* the handler's copy of the bill it pays
    payEntity,      \* the handler's copy of its bill_payment row
    dirty,          \* columns the save() in progress is about to UPDATE
    result,         \* what each answered request was told
    serving,        \* whether an instance accepts requests
    seeder,         \* BbpsCatalogSeeder of the instance that is booting
    boots,          \* restarts so far
    faults,         \* failed queries so far
    dispatched,     \* history: requests that called bbpsAdapter.pay
    charged,        \* history: requests whose BBPS call ended SUCCESS
    late            \* history: requests sent when their key had a payment

tables  == <<bills, payments>>
locals  == <<pc, dto, billEntity, payEntity, dirty, result>>
service == <<serving, seeder, boots, faults>>
history == <<dispatched, charged, late>>
vars    == <<bills, payments, pc, dto, billEntity, payEntity, dirty, result,
             serving, seeder, boots, faults, dispatched, charged, late>>

-----------------------------------------------------------------------------
(* Records                                                                 *)

BillRow    == [status : {"UNPAID", "PAID"}, amount : Amounts]
BlankBill  == [status |-> "UNPAID", amount |-> CHOOSE a \in Amounts : TRUE]
PaymentRow == [bill   : Bills,
               amount : Amounts,
               status : Statuses,
               ref    : Requests \cup {NoRef},
               owner  : Actors]
BlankPayment == [bill   |-> CHOOSE b \in Bills : TRUE,
                 amount |-> CHOOSE a \in Amounts : TRUE,
                 status |-> "PENDING",
                 ref    |-> NoRef,
                 owner  |-> CHOOSE a \in Actors : TRUE]

ASSUME NoPaymentAssumption == NoPayment \notin PaymentRow
ASSUME NoEntryAssumption == NoPayment \notin [bill : Bills, status : Statuses]

(* CreatePaymentDto names the bill by billNumber, or by billerCode and     *)
(* consumerNumber with a mandatory amount; the retry body names a payment. *)
Dto == [kind   : {"create", "retry"},
        by     : {"number", "consumer"},
        key    : Keys,
        bill   : Bills,
        amount : Amounts \cup {NoAmount},
        actor  : Actors]

ValidCreate(d) == /\ d.kind = "create"
                  /\ d.by = "consumer" => d.amount # NoAmount

(* The seeder upserts one row after the other; `todo` are the rows left.   *)
IdleSeeder == [pc |-> "off", todo |-> {}, row |-> <<>>, entity |-> BlankBill,
               cols |-> {}, catalog |-> [b \in SeededBills |-> BlankBill.amount]]

RequestDone == {"new", "answered", "lost"}
InFlight == {r \in Requests : pc[r] \notin RequestDone}

(* findBillingRecord and findBillingRecordByBillNumber: mock_bill first,   *)
(* demo_bbps_data as the fallback.                                         *)
Found(b)  == b \in MockBills \cup DemoBills
Lookup(b) == IF b \in MockBills THEN <<"mock", b>> ELSE <<"demo", b>>

-----------------------------------------------------------------------------
Init ==
    /\ \E price \in [BillRows -> Amounts] :
          /\ \A b \in SeededBills : price[<<"mock", b>>] = price[<<"demo", b>>]
          /\ bills = [br \in BillRows |->
                         [status |-> "UNPAID", amount |-> price[br]]]
    /\ payments = [k \in Keys |-> NoPayment]
    /\ pc = [r \in Requests |-> "new"]
    /\ dto = [r \in Requests |->
                 [kind |-> "create", by |-> "number",
                  key |-> CHOOSE k \in Keys : TRUE,
                  bill |-> BlankPayment.bill, amount |-> NoAmount,
                  actor |-> BlankPayment.owner]]
    /\ billEntity = [r \in Requests |-> BlankBill]
    /\ payEntity = [r \in Requests |-> BlankPayment]
    /\ dirty = [r \in Requests |-> {}]
    /\ result = [r \in Requests |-> "none"]
    /\ serving = TRUE
    /\ seeder = IdleSeeder
    /\ boots = 0 /\ faults = 0
    /\ dispatched = {} /\ charged = {} /\ late = {}

(* The response leaves: the handler's copies are gone with it.             *)
Answer(r, outcome) ==
    /\ pc' = [pc EXCEPT ![r] = "answered"]
    /\ result' = [result EXCEPT ![r] = outcome]
    /\ billEntity' = [billEntity EXCEPT ![r] = BlankBill]
    /\ payEntity' = [payEntity EXCEPT ![r] = BlankPayment]
    /\ dirty' = [dirty EXCEPT ![r] = {}]
    /\ UNCHANGED dto

(* A request arrives.  IdempotencyKeyInterceptor has put the header's key  *)
(* into the body and requireActorSub has found the actor.                  *)
Send(r, d) ==
    /\ serving
    /\ pc[r] = "new"
    /\ Overlap \/ InFlight = {}
    /\ pc' = [pc EXCEPT ![r] = IF d.kind = "create" THEN "check" ELSE "load"]
    /\ dto' = [dto EXCEPT ![r] = d]
    /\ late' = IF payments[d.key] = NoPayment THEN late ELSE late \cup {r}
    /\ UNCHANGED <<tables, billEntity, payEntity, dirty, result, service,
                   dispatched, charged>>

SendCreate(r) == \E d \in Dto : ValidCreate(d) /\ Send(r, d)

(* The retry body carries only the payment's id, here the payment's key.   *)
SendRetry(r) ==
    /\ Retries
    /\ \E k \in Keys, a \in Actors :
          Send(r, [dto[r] EXCEPT !.kind = "retry", !.key = k, !.actor = a])

-----------------------------------------------------------------------------
(* Conditions and values the handlers share                                *)

(* The unique index on idempotency_key lets the INSERT through.            *)
KeyFree_NoIndex(k) == TRUE
KeyFree(k) == payments[k] = NoPayment

(* findOne by idempotencyKey returns a payment.                            *)
Existing_NotFailed(k) == payments[k] # NoPayment /\ payments[k].status # "FAILED"
Existing(k) == payments[k] # NoPayment

(* Only SUCCESS marks the bill.                                            *)
Settles_NotFailed(payment) == payment.status # "FAILED"
Settles_WrongLiteral(payment) == payment.status = "PAID"
Settles(payment) == payment.status = "SUCCESS"

MarkPaid_CopiedStatus(bill) == [bill EXCEPT !.status = "SUCCESS"]
MarkPaid(bill) == [bill EXCEPT !.status = "PAID"]

(* The early return of payViaBbps.                                         *)
Final_WrongLiteral(payment) == payment.status = "PAID"
Final(payment) == payment.status = "SUCCESS"

(* BBPS reports no reference with TIMEOUT; a reference is named here after *)
(* the request whose call it answers.                                      *)
Reference(r, status) == IF status = "TIMEOUT" THEN NoRef ELSE r

(* bbpsResponse.referenceId ?? payment.bbpsReferenceId                     *)
NewReference_OldFirst(r, status, old) ==
    IF old = NoRef THEN Reference(r, status) ELSE old
NewReference(r, status, old) ==
    IF status = "TIMEOUT" THEN old ELSE Reference(r, status)

-----------------------------------------------------------------------------
(* create                                                                  *)

(* The idempotency check's findOne and assertIdempotentPaymentOwnedByActor. *)
CheckKey(r) ==
    LET found == payments[dto[r].key] IN
    /\ pc[r] = "check"
    /\ \/ /\ ~Existing(dto[r].key)
          /\ pc' = [pc EXCEPT ![r] = "find"]
          /\ UNCHANGED <<dto, billEntity, payEntity, dirty, result>>
       \/ /\ Existing(dto[r].key)
          /\ found.owner # dto[r].actor
          /\ Answer(r, "PAYMENT_NOT_FOUND")
       \/ /\ Existing(dto[r].key)
          /\ found.owner = dto[r].actor
          /\ payEntity' = [payEntity EXCEPT ![r] = found]
          /\ pc' = [pc EXCEPT ![r] = "replay"]
          /\ UNCHANGED <<dto, billEntity, dirty, result>>
    /\ UNCHANGED <<tables, service, history>>

(* isSamePaymentRequest: a request by billNumber is compared with the bill *)
(* as it is now, and its own amount is not looked at.                      *)
SamePaymentRequest_DtoAmount(d, payment) ==
    payment.bill = d.bill /\ payment.amount = d.amount
SamePaymentRequest(d, payment) ==
    IF d.by = "number"
    THEN /\ Found(d.bill)
         /\ payment.bill = d.bill
         /\ payment.amount = bills[Lookup(d.bill)].amount
    ELSE payment.bill = d.bill /\ payment.amount = d.amount

Replay(r) ==
    /\ pc[r] = "replay"
    /\ Answer(r, IF SamePaymentRequest(dto[r], payEntity[r])
                 THEN "DUPLICATE" ELSE "IDEMPOTENCY_KEY_REUSED")
    /\ UNCHANGED <<tables, service, history>>

(* Steps 1 to 3: the bill is found, UNPAID and of the requested amount.    *)
FindBill(r) ==
    LET d == dto[r]
        bill == bills[Lookup(d.bill)] IN
    /\ pc[r] = "find"
    /\ \/ ~Found(d.bill) /\ Answer(r, "BILL_NOT_FOUND")
       \/ /\ Found(d.bill) /\ bill.status # "UNPAID"
          /\ Answer(r, "BILL_NOT_PAYABLE")
       \/ /\ Found(d.bill) /\ bill.status = "UNPAID"
          /\ d.amount \notin {NoAmount, bill.amount}
          /\ Answer(r, "AMOUNT_MISMATCH")
       \/ /\ Found(d.bill) /\ bill.status = "UNPAID"
          /\ d.amount \in {NoAmount, bill.amount}
          /\ billEntity' = [billEntity EXCEPT ![r] = bill]
          /\ pc' = [pc EXCEPT ![r] = "dispatch"]
          /\ UNCHANGED <<dto, payEntity, dirty, result>>
    /\ UNCHANGED <<tables, service, history>>

CallBbps(r, status) ==
    /\ dispatched' = dispatched \cup {r}
    /\ charged' = IF status = "SUCCESS" THEN charged \cup {r} ELSE charged
    /\ UNCHANGED late

(* Step 4: the bbpsAdapter.pay call and its answer.                        *)
Dispatch(r) ==
    /\ pc[r] = "dispatch"
    /\ \E status \in Statuses :
          /\ CallBbps(r, status)
          /\ payEntity' = [payEntity EXCEPT ![r] =
                [bill |-> dto[r].bill, amount |-> billEntity[r].amount,
                 status |-> status, ref |-> Reference(r, status),
                 owner |-> dto[r].actor]]
    /\ pc' = [pc EXCEPT ![r] = "insert"]
    /\ UNCHANGED <<tables, dto, billEntity, dirty, result, service>>

(* Step 5: the INSERT, which UNIQUE (idempotency_key) may refuse; the      *)
(* QueryFailedError becomes a 500.                                         *)
InsertPayment(r) ==
    /\ pc[r] = "insert"
    /\ \/ /\ ~KeyFree(dto[r].key)
          /\ Answer(r, "ERROR")
          /\ UNCHANGED payments
       \/ /\ KeyFree(dto[r].key)
          /\ payments' = [payments EXCEPT ![dto[r].key] = payEntity[r]]
          /\ ~Settles(payEntity[r])
          /\ Answer(r, payEntity[r].status)
       \/ /\ KeyFree(dto[r].key)
          /\ payments' = [payments EXCEPT ![dto[r].key] = payEntity[r]]
          /\ Settles(payEntity[r])
          /\ billEntity' = [billEntity EXCEPT ![r] = MarkPaid(@)]
          /\ pc' = [pc EXCEPT ![r] = "markReload"]
          /\ UNCHANGED <<dto, payEntity, dirty, result>>
    /\ UNCHANGED <<bills, service, history>>

-----------------------------------------------------------------------------
(* save(bill), the last step of create and of payViaBbps                   *)

MarkReload(r) ==
    /\ pc[r] = "markReload"
    /\ dirty' = [dirty EXCEPT ![r] =
                    Diff(billEntity[r], bills[Lookup(payEntity[r].bill)])]
    /\ pc' = [pc EXCEPT ![r] = "markWrite"]
    /\ UNCHANGED <<tables, dto, billEntity, payEntity, result, service, history>>

MarkWrite(r) ==
    /\ pc[r] = "markWrite"
    /\ bills' = [bills EXCEPT ![Lookup(payEntity[r].bill)] =
                    Patch(@, billEntity[r], dirty[r])]
    /\ Answer(r, "SUCCESS")
    /\ UNCHANGED <<payments, service, history>>

-----------------------------------------------------------------------------
(* payViaBbps                                                              *)

LoadPayment(r) ==
    LET found == payments[dto[r].key] IN
    /\ pc[r] = "load"
    /\ \/ found = NoPayment /\ Answer(r, "PAYMENT_NOT_FOUND")
       \/ /\ found # NoPayment /\ found.owner # dto[r].actor
          /\ Answer(r, "PAYMENT_NOT_FOUND")
       \/ /\ found # NoPayment /\ found.owner = dto[r].actor
          /\ Final(found)
          /\ Answer(r, "NOOP")
       \/ /\ found # NoPayment /\ found.owner = dto[r].actor
          /\ ~Final(found)
          /\ payEntity' = [payEntity EXCEPT ![r] = found]
          /\ pc' = [pc EXCEPT ![r] = "redispatch"]
          /\ UNCHANGED <<dto, billEntity, dirty, result>>
    /\ UNCHANGED <<tables, service, history>>

Redispatch_Optimistic(r) ==
    /\ pc[r] = "redispatch"
    /\ \E status \in Statuses :
          /\ CallBbps(r, status)
          /\ payEntity' = [payEntity EXCEPT ![r].status = "SUCCESS"]
    /\ pc' = [pc EXCEPT ![r] = "saveReload"]
    /\ UNCHANGED <<tables, dto, billEntity, dirty, result, service>>

Redispatch_CurrentAmount(r) ==
    /\ pc[r] = "redispatch"
    /\ \E status \in Statuses :
          /\ CallBbps(r, status)
          /\ payEntity' = [payEntity EXCEPT
                ![r].status = status,
                ![r].ref = NewReference(r, status, @),
                ![r].amount = bills[Lookup(payEntity[r].bill)].amount]
    /\ pc' = [pc EXCEPT ![r] = "saveReload"]
    /\ UNCHANGED <<tables, dto, billEntity, dirty, result, service>>

(* The bill's status is not looked at again before this second call.       *)
Redispatch(r) ==
    /\ pc[r] = "redispatch"
    /\ \E status \in Statuses :
          /\ CallBbps(r, status)
          /\ payEntity' = [payEntity EXCEPT
                ![r].status = status,
                ![r].ref = NewReference(r, status, @)]
    /\ pc' = [pc EXCEPT ![r] = "saveReload"]
    /\ UNCHANGED <<tables, dto, billEntity, dirty, result, service>>

SaveReload(r) ==
    /\ pc[r] = "saveReload"
    /\ dirty' = [dirty EXCEPT ![r] = Diff(payEntity[r], payments[dto[r].key])]
    /\ pc' = [pc EXCEPT ![r] = "saveWrite"]
    /\ UNCHANGED <<tables, dto, billEntity, payEntity, result, service, history>>

SaveWrite(r) ==
    /\ pc[r] = "saveWrite"
    /\ payments' = [payments EXCEPT ![dto[r].key] =
                       Patch(@, payEntity[r], dirty[r])]
    /\ \/ ~Settles(payEntity[r]) /\ Answer(r, payEntity[r].status)
       \/ /\ Settles(payEntity[r])
          /\ pc' = [pc EXCEPT ![r] = "refind"]
          /\ dirty' = [dirty EXCEPT ![r] = {}]
          /\ UNCHANGED <<dto, billEntity, payEntity, result>>
    /\ UNCHANGED <<bills, service, history>>

(* findBillingRecord: bills are never deleted, so it finds the payment's.  *)
Refind(r) ==
    /\ pc[r] = "refind"
    /\ billEntity' = [billEntity EXCEPT ![r] =
                         MarkPaid(bills[Lookup(payEntity[r].bill)])]
    /\ pc' = [pc EXCEPT ![r] = "markReload"]
    /\ UNCHANGED <<tables, dto, payEntity, dirty, result, service, history>>

-----------------------------------------------------------------------------
(* Queries that fail                                                       *)

(* The steps that await PostgreSQL; a request by consumer is compared with *)
(* the payment without a query, and the adapter's calls do not reject.     *)
Queries(r) ==
    \/ pc[r] \in {"check", "find", "insert", "load", "saveReload", "saveWrite",
                  "refind", "markReload", "markWrite"}
    \/ pc[r] = "replay" /\ dto[r].by = "number"

(* A query is rejected and no handler has a catch: the client is told 500, *)
(* what BBPS charged and what was written so far stays.                    *)
AwaitRejects(r) ==
    /\ faults < MaxFaults
    /\ Queries(r)
    /\ faults' = faults + 1
    /\ Answer(r, "ERROR")
    /\ UNCHANGED <<tables, serving, seeder, boots, history>>

-----------------------------------------------------------------------------
(* Crashes, boots and the catalog seeder                                   *)

(* The process dies: every handler in it stops where it is.                *)
Crash ==
    /\ boots < MaxBoots
    /\ boots' = boots + 1
    /\ serving' = FALSE
    /\ seeder' = IdleSeeder
    /\ pc' = [r \in Requests |-> IF r \in InFlight THEN "lost" ELSE pc[r]]
    /\ billEntity' = [r \in Requests |-> BlankBill]
    /\ payEntity' = [r \in Requests |-> BlankPayment]
    /\ dirty' = [r \in Requests |-> {}]
    /\ UNCHANGED <<tables, dto, result, faults, history>>

(* An instance boots, with the amounts of the catalog it was built with.   *)
Boot ==
    /\ seeder.pc = "off"
    /\ \/ ~serving /\ UNCHANGED boots
       \/ Rolling /\ serving /\ boots < MaxBoots /\ boots' = boots + 1
    /\ \E catalog \in [SeededBills -> Amounts] :
          seeder' = [IdleSeeder EXCEPT !.pc = "load", !.todo = SeededRows,
                                       !.catalog = catalog]
    /\ UNCHANGED <<tables, locals, serving, faults, history>>

(* A PAID bill stays PAID in the upserts' payload.                         *)
SeedStatus_AlwaysUnpaid(row) == "UNPAID"
SeedStatus(row) == IF bills[row].status = "PAID" THEN "PAID" ELSE "UNPAID"

(* upsertMockBill, then upsertDemo, of each entry: findOne and the payload. *)
SeedLoad ==
    /\ seeder.pc = "load"
    /\ \E row \in seeder.todo :
          /\ row[1] = "demo" => <<"mock", row[2]>> \notin seeder.todo
          /\ seeder' = [seeder EXCEPT
                !.pc = "reload", !.row = row, !.todo = @ \ {row},
                !.entity = [status |-> SeedStatus(row),
                            amount |-> seeder.catalog[row[2]]]]
    /\ UNCHANGED <<tables, locals, serving, boots, faults, history>>

SeedReload ==
    /\ seeder.pc = "reload"
    /\ seeder' = [seeder EXCEPT !.pc = "write",
                                !.cols = Diff(seeder.entity, bills[seeder.row])]
    /\ UNCHANGED <<tables, locals, serving, boots, faults, history>>

SeedWrite ==
    /\ seeder.pc = "write"
    /\ bills' = [bills EXCEPT ![seeder.row] = Patch(@, seeder.entity, seeder.cols)]
    /\ seeder' = [seeder EXCEPT !.pc = "load", !.row = <<>>,
                                !.entity = BlankBill, !.cols = {}]
    /\ UNCHANGED <<payments, locals, serving, boots, faults, history>>

(* onModuleInit returns and the instance listens.                          *)
SeedDone ==
    /\ seeder.pc = "load" /\ seeder.todo = {}
    /\ seeder' = IdleSeeder
    /\ serving' = TRUE
    /\ UNCHANGED <<tables, locals, boots, faults, history>>

-----------------------------------------------------------------------------
Create(r) == CheckKey(r) \/ Replay(r) \/ FindBill(r) \/ Dispatch(r) \/ InsertPayment(r)
SaveBill(r) == MarkReload(r) \/ MarkWrite(r)
Retry(r) == LoadPayment(r) \/ Redispatch(r) \/ SaveReload(r) \/ SaveWrite(r) \/ Refind(r)
Handle(r) == Create(r) \/ SaveBill(r) \/ Retry(r) \/ AwaitRejects(r)
Seed == SeedLoad \/ SeedReload \/ SeedWrite \/ SeedDone

Next ==
    \/ \E r \in Requests : SendCreate(r) \/ SendRetry(r) \/ Handle(r)
    \/ Crash \/ Boot \/ Seed

Spec == Init /\ [][Next]_vars

(* Node's event loop keeps running the handlers that are in flight; nobody *)
(* owes us a request, and nothing in the service promises a restart.       *)
Fairness == \A r \in Requests : WF_vars(Handle(r))
FairSpec == Spec /\ Fairness

-----------------------------------------------------------------------------
(* Properties that hold however requests, crashes and boots interleave     *)

SeederStates == [pc      : {"off", "load", "reload", "write"},
                 todo    : SUBSET SeededRows,
                 row     : SeededRows \cup {<<>>},
                 entity  : BillRow,
                 cols    : SUBSET DOMAIN BlankBill,
                 catalog : [SeededBills -> Amounts]]

PayPcs == {"insert", "markReload", "markWrite",
           "redispatch", "saveReload", "saveWrite", "refind", "replay"}

Pcs == RequestDone \cup PayPcs \cup {"check", "find", "dispatch", "load"}

(* Every variable of the two services, the adapter and the seeder holds    *)
(* what its column or local may hold.                                      *)
TypeOK ==
    /\ bills \in [BillRows -> BillRow]
    /\ payments \in [Keys -> PaymentRow \cup {NoPayment}]
    /\ pc \in [Requests -> Pcs]
    /\ dto \in [Requests -> Dto]
    /\ billEntity \in [Requests -> BillRow]
    /\ payEntity \in [Requests -> PaymentRow]
    /\ dirty \in [Requests -> SUBSET (DOMAIN BlankBill \cup DOMAIN BlankPayment)]
    /\ DOMAIN result = Requests
    /\ serving \in BOOLEAN
    /\ seeder \in SeederStates
    /\ {boots, faults} \subseteq Nat
    /\ {dispatched, charged, late} \subseteq SUBSET Requests

Recorded(k) == payments[k] # NoPayment

(* A bill shows PAID only if BBPS took the money in some call made for a   *)
(* recorded payment of that very bill, and only in the table the lookups   *)
(* would find it in (create step 6, payViaBbps, the seeder's status rule). *)
PaidOnlyByCharge ==
    \A row \in BillRows : bills[row].status = "PAID" =>
        /\ row = Lookup(row[2])
        /\ \E r \in charged : /\ Recorded(dto[r].key)
                             /\ payments[dto[r].key].bill = row[2]

(* A payment shows SUCCESS only if one of the calls made under its own key *)
(* was charged, whichever columns the overlapping saves of create and      *)
(* payViaBbps left in the row.                                             *)
SuccessOnlyByCharge ==
    \A k \in Keys : Recorded(k) /\ payments[k].status = "SUCCESS" =>
        \E r \in charged : dto[r].key = k

(* A create that arrives after its key's payment was recorded never calls  *)
(* BBPS (create step 0), whatever happens to the payment in between.       *)
RecordedKeyNeverRedispatched ==
    \A r \in late : dto[r].kind = "create" => r \notin dispatched

(* Of the creates under one key at most one is told what BBPS answered; to *)
(* the others the key is a duplicate, a reuse or a 500 (the UNIQUE index   *)
(* behind the INSERT, when two creates have both passed the look-up).      *)
OneOutcomePerKey ==
    \A r, s \in Requests :
        /\ dto[r].kind = "create" /\ dto[s].kind = "create"
        /\ dto[r].key = dto[s].key
        /\ {result[r], result[s]} \subseteq Statuses
        => r = s

(* Retries rewrite a payment's outcome; which bill it paid, how much and   *)
(* for whom never changes, and no payment disappears (payViaBbps saves the *)
(* whole entity it read before the BBPS call).                             *)
SameIdentity(old, new) ==
    /\ new # NoPayment
    /\ new.bill = old.bill /\ new.amount = old.amount /\ new.owner = old.owner

IdentityStable ==
    [][\A k \in Keys : Recorded(k) => SameIdentity(payments[k], payments'[k])]_vars

(* Unless an instance boots beside a serving one, no save of a stale bill  *)
(* and no reseed turns a PAID bill back to UNPAID (MarkWrite, SeedWrite).  *)
PaidFinal ==
    [][\A row \in BillRows : bills[row].status = "PAID"
                            => bills'[row].status = "PAID"]_vars

-----------------------------------------------------------------------------
(* Properties of requests handled one at a time                            *)

(* create calls BBPS again under a key only when the create that called it *)
(* before got no outcome: a 500, or a crash, came between the call and the *)
(* row that the look-up of the key would have found (create steps 0 to 5). *)
RepeatsOnlyUnanswered ==
    \A r, s \in dispatched :
        /\ dto[r].kind = "create" /\ dto[s].kind = "create"
        /\ dto[r].key = dto[s].key
        /\ r # s
        => \E q \in {r, s} : pc[q] = "lost" \/ result[q] = "ERROR"

(* Whoever was charged and is not told 500 finds the payment SUCCESS and   *)
(* the bill PAID, whatever failed before or since, for this client or for  *)
(* another (create steps 5 and 6, the tail of payViaBbps).                 *)
AnsweredChargeSettled ==
    \A r \in charged : pc[r] = "answered" /\ result[r] # "ERROR" =>
        /\ Recorded(dto[r].key)
        /\ payments[dto[r].key].status = "SUCCESS"
        /\ bills[Lookup(payments[dto[r].key].bill)].status = "PAID"

(* The reference kept with a SUCCESS payment is that of a call that was    *)
(* charged for it (payViaBbps writes status and reference in one save).    *)
ReferenceOfCharge ==
    \A k \in Keys : Recorded(k) /\ payments[k].status = "SUCCESS" =>
        /\ payments[k].ref \in charged
        /\ dto[payments[k].ref].key = k

(* SUCCESS is final: payViaBbps returns early on it.                       *)
SuccessFinal ==
    [][\A k \in Keys : Recorded(k) /\ payments[k].status = "SUCCESS"
                       => payments'[k].status = "SUCCESS"]_vars

(* A request equal to the one that created the payment is never refused as *)
(* a reuse of the key, as long as no reseed changes the bill's amount      *)
(* ("same request retry (same key, same body): existing payment returned", *)
(* isSamePaymentRequest).                                                  *)
ReplayRecognised ==
    \A r, s \in Requests :
        /\ result[s] \in Statuses /\ dto[s].kind = "create"
        /\ result[r] = "IDEMPOTENCY_KEY_REUSED"
        => dto[r] # dto[s]

(* A charge is recorded and its bill marked, whatever comes first, or the  *)
(* client learns that something failed.                                    *)
ChargeSettles ==
    \A r \in Requests :
        r \in charged ~>
            \/ /\ Recorded(dto[r].key)
               /\ bills[Lookup(payments[dto[r].key].bill)].status = "PAID"
            \/ result[r] = "ERROR"

-----------------------------------------------------------------------------
(* The ledger a customer sees                                              *)

(* A payment's bill and status, and the bills the lookups show as PAID.    *)
LedgerEntry(k) == IF Recorded(k)
                  THEN [bill |-> payments[k].bill, status |-> payments[k].status]
                  ELSE NoPayment
PaidBills == {b \in Bills : Found(b) /\ bills[Lookup(b)].status = "PAID"}

Ledger == INSTANCE PaymentLedger WITH
              NoEntry <- NoPayment,
              entry   <- [k \in Keys |-> LedgerEntry(k)],
              paid    <- PaidBills

(* The tables, seen as a ledger, only ever take the ledger's steps: a      *)
(* payment is recorded once, SUCCESS closes it, and a bill becomes PAID    *)
(* only when one of its payments is SUCCESS (the order of the awaits in    *)
(* create and payViaBbps).  True of every interleaving of creates and      *)
(* crashes; with retries, of requests handled one at a time.               *)
ImplementsLedger == Ledger!Spec

-----------------------------------------------------------------------------
(* What the service's documents say and the code does not keep up          *)

(* create calls BBPS at most once per key ("the backend returns the        *)
(* existing payment and does not invoke BBPS again",                       *)
(* billpaymentservice.md:205).                                             *)
DispatchOncePerKey ==
    \A r, s \in dispatched :
        /\ dto[r].kind = "create" /\ dto[s].kind = "create"
        /\ dto[r].key = dto[s].key
        => r = s

(* "Check UNPAID" comes before "Mock BBPS Adapter": no call is made for a  *)
(* bill that is already PAID (payViaBbps).                                 *)
DispatchOnlyUnpaid ==
    [][\A r \in dispatched' \ dispatched :
          bills[Lookup(payEntity'[r].bill)].status = "UNPAID"]_vars

-----------------------------------------------------------------------------
(* Why they hold: what every handler knows at each of its steps            *)

(* The recorded payments name bills the lookups find.                      *)
RowsFound == \A k \in Keys : Recorded(k) => Found(payments[k].bill)

(* A handler that is past its lookups holds a bill that is found ...       *)
HoldsBill(r) ==
    /\ pc[r] \in {"dispatch", "insert"} => Found(dto[r].bill)
    /\ pc[r] = "insert" => payEntity[r].bill = dto[r].bill

(* ... or a copy of the payment recorded under its key, as to identity;    *)
HoldsPayment(r) ==
    pc[r] \in PayPcs \ {"insert"} =>
        /\ Recorded(dto[r].key)
        /\ SameIdentity(payments[dto[r].key], payEntity[r])

(* it is about to write SUCCESS, or PAID, only if BBPS charged its call.   *)
WritesWhatBbpsSaid(r) ==
    /\ /\ pc[r] \in {"insert", "saveReload", "saveWrite"}
       /\ payEntity[r].status = "SUCCESS"
       => r \in charged
    /\ pc[r] \in {"refind", "markReload", "markWrite"} => r \in charged

(* What a late create may still be doing.                                  *)
LateOnlyReplays(r) ==
    /\ r \in late => Recorded(dto[r].key) /\ pc[r] # "new"
    /\ r \in late /\ dto[r].kind = "create" =>
        pc[r] \in {"check", "replay", "answered", "lost"} /\ r \notin dispatched

(* A request's body is settled by the time it reaches BBPS, and its kind   *)
(* says which of the two handlers runs it.                                 *)
OneHandler(r) ==
    /\ r \in dispatched \cup charged => pc[r] # "new"
    /\ pc[r] \in {"load", "redispatch", "saveReload", "saveWrite", "refind"}
          => dto[r].kind = "retry"

(* What proves that a row may show PAID.                                   *)
ChargedFor(b) == \E r \in charged : /\ Recorded(dto[r].key)
                                   /\ payments[dto[r].key].bill = b

(* The seeder is about to write PAID only where it read PAID.              *)
SeederKeepsPaid ==
    seeder.pc \in {"reload", "write"} =>
        /\ seeder.row \in SeededRows
        /\ seeder.entity.status = "PAID" =>
              seeder.row = Lookup(seeder.row[2]) /\ ChargedFor(seeder.row[2])

(* The inductive invariant behind the properties of every interleaving     *)
(* (the steps of create, payViaBbps and BbpsCatalogSeeder between awaits). *)
IInv ==
    /\ TypeOK
    /\ RowsFound
    /\ \A r \in Requests : /\ HoldsBill(r) /\ HoldsPayment(r)
                           /\ WritesWhatBbpsSaid(r)
                           /\ LateOnlyReplays(r) /\ OneHandler(r)
    /\ SeederKeepsPaid
    /\ PaidOnlyByCharge /\ SuccessOnlyByCharge

(* Without rolling boots the seeder runs while no handler does, so what it *)
(* is about to write is the row's own status (onModuleInit returns before  *)
(* the instance listens); and save(bill) always carries PAID.              *)
BootAlone ==
    /\ seeder.pc # "off" => ~serving
    /\ ~serving => InFlight = {}
    /\ seeder.pc \in {"reload", "write"} =>
          seeder.entity.status = bills[seeder.row].status
    /\ \A r \in Requests : pc[r] \in {"markReload", "markWrite"} =>
          billEntity[r].status = "PAID"

=============================================================================
