# Specifications of identity-billpay-admin-service

TLA+ models of `src/backend/nestjs/identity-billpay-admin-service`, the NestJS
service behind onboarding, bill payment, role management and bank
administration. Paths below are relative to that service's `src/` directory
unless they end in `.md` (the service's own documents). The rest of the
repository is vendored libraries.

Every module states behaviour read from the code. An action is what a handler
does between two `await`s: that is the unit Node's event loop runs without
interruption, and the unit a crash can fall between.

## 1. Inventory

| component | state it keeps | operations | talks to |
|---|---|---|---|
| **payments** (`modules/bill-payment/payment`) | `bill_payment` rows, unique by idempotency key | `create`, `payViaBbps` (retry), reads | BBPS adapter (call), bill tables (shared) |
| **bill tables and catalog seeder** (`bill`, `demo`, `catalog`) | `mock_bill`, `demo_bbps_data`, `biller_registration` rows | `fetchBill` (read), `onModuleInit` upserts on every boot | payments (shared rows) |
| **BBPS adapter** (`payment/adapter`) | none | `pay`: SUCCESS, FAILED, PENDING or TIMEOUT | payments |
| **schedules** (`bill-payment/scheduling`) | `bill_schedule` rows: `status`, `active` | create, pause, resume, cancel, reads | none: no executor exists |
| **registration saga** (`auth/registration`) | `registration_attempt` rows: `currentStep`, `keycloakUserId`, `deviceProfileId`, `failureReason`, `deletedAt` | init, verify-otp, create-credentials, register-device, complete, resume, soft delete; orchestrator `advance`/`fail`; compensation | OTP, Keycloak (HTTP), devices |
| **OTP** (`auth/otp`) | `otp_challenge` rows: attempts, lock, expiry | create, verify | registration |
| **credentials** (`auth/credential`) | `credential_mpin` rows, and the Keycloak password | create, update, change, soft delete | Keycloak |
| **devices**, **corporate hierarchy** (`auth/device`, `auth/corporate-hierarchy`) | one row per record | create, read, soft delete | registration |
| **Keycloak client** (`auth/keycloak`) | external users, roles, passwords | multi-request signup, user creation, role assignment and removal | Keycloak over HTTP |
| **employees and roles** (`modules/rbac`) | `employee`, `employee_user_role`, `role`, `role_permission`, `delegated_role`, `permission` rows; realm roles in Keycloak | create employee, change role, create role, map permissions, delegations; access queries | Keycloak, event bus |
| **admin user read model** (`modules/admin/admin-user`) | `admin_user` rows, written by an event listener | upsert per event, reads | event bus (in-process) |
| **authorization rules** (`modules/admin/authorization-rules`) | rules with `version` and `active`, and a history row per change | create, update, deactivate | none |
| **reporting** (`modules/admin/reporting`) | none (static transactions) | filter, summarise, export | none |
| **audit outbox** (`clients/audit-outbox`, `clients/audit.client.ts`) | outbox rows: PENDING, SENT or FAILED, attempts | cron relay | audit service over HTTP |
| **resilient HTTP client** (`common/resilience`) | one opossum breaker per target | call with timeout and retries | audit, CBS, notification services |
| **guards, interceptors, templates, health, config, tenant** (`common`, `config`) | none, or one template row per key | per request | all controllers |

What is hard in this code: no table has a version column, no query takes a
lock and no handler opens a transaction around its writes, so every
read-modify-write is open to every other one; calls to BBPS and Keycloak come
before the rows that remember them; and a boot rewrites rows that requests use.
`PROJECT.json` lists each hazard at its line.

What makes each component correct:

* payments: a key pays once, and only a request that got no answer is worth
  repeating; what is shown as paid was charged; SUCCESS and PAID are final; a
  charge is recorded, or its client is told that something failed.
* schedules: CANCELLED is final, and `active` says the same as `status`.
* registration: `currentStep` only moves forward, a step's effects precede it,
  and a failed step can be tried again.
* OTP: a challenge is consumed once and at most the allowed number of guesses
  is evaluated; a lock is earned.
* authorization rules: each change has a history row and a version of its own,
  whatever becomes of a deactivation, and the history ends with what the rule
  shows.
* roles: a row has its realm role and the other way round; permissions and
  delegations are those of the last request answered.
* employees: an employee's account is its own, and nobody outside the staff gets
  a role of it. The documents promise more: that a user never holds a maker and a
  checker role, and that database and Keycloak agree. The code keeps neither
  promise (section 3); what it leaves behind instead is a property too.
* outbox: SENT is final, a row is given up only after its attempts.
* reporting: the reports of one request add up to each other, and an export
  begins every row in order on a page.

adminservice.md:245-262 and :345 still call reporting a stub that returns `[]`.
The code has a provider with a table of transactions, and that is what is
modelled.

## 2. Modules

| module | what it is |
|---|---|
| `Repository` | What `findOne` and `save` of TypeORM do, as the services rely on it: a private copy, then an UPDATE of the columns that differ from a second read. External. |
| `BillPayment` | `PaymentService`, the BBPS adapter and `BbpsCatalogSeeder`, with crashes and boots. |
| `PaymentLedger` | The abstract specification of payments: one payment per key, closed by SUCCESS; bills paid only after a SUCCESS. |
| `Registration` | The onboarding saga: `RegistrationService`, its orchestrator and its compensation, with what they do to Keycloak users, devices and MPIN rows. |
| `Employees` | `EmployeesService` with its Keycloak calls, signup beside it, and the listener that keeps `admin_user`. |
| `Editing` | One table under handlers that read a row, change the copy and save or soft-delete it: the part `Otp`, `Schedules`, `Rules` and `Roles` have in common. |
| `Otp` | `OtpService`, with a clock. |
| `Schedules` | `BillScheduleService`. |
| `Rules` | `AuthorizationRulesService` and its history table. |
| `Roles` | `RolesService` and `PermissionsService.create`, with their realm roles. |
| `Outbox` | `AuditOutboxRelayJob` and the resilient client it relays with. |
| `Reports` | `ReportingService`, `TransactionProvider` and `ReportExportService`, as functions. |
| `MC*` | The instance of each of them that TLC checks, with its symmetry. |
| `*Proofs` | The theorems about each of them, and the lemmas they rest on: `CustomerProofs` those about `Otp` and `Schedules`, `AdminProofs` those about `Roles` and `Reports`; `EditingProofs` has only lemmas, which two others cite. |

Every module has its properties at its end, the first one its type invariant.

### BillPayment

`bills` is both bill tables, indexed by `<<table, bill>>`; a row keeps its
status and amount. `payments` is `bill_payment`, indexed by idempotency key,
which the unique index makes a key of the table. `pc[r]` is the `await` a
request's handler stands at; `dto`, `billEntity` and `payEntity` are its locals;
`dirty` is the column set the `save` in progress is about to write. `seeder`
is `onModuleInit` of a booting instance.

| code | actions |
|---|---|
| `create` | `CheckKey`, `Replay`, `FindBill`, `Dispatch`, `InsertPayment`, then `MarkReload`, `MarkWrite` for `save(bill)` |
| `payViaBbps` | `LoadPayment`, `Redispatch`, `SaveReload`, `SaveWrite`, `Refind`, then `MarkReload`, `MarkWrite` |
| `BbpsCatalogSeeder` | `Boot`, `SeedLoad`, `SeedReload`, `SeedWrite`, `SeedDone` |
| a query rejects | `AwaitRejects`: nothing catches it, so the client is told 500; what was charged and written so far stays |
| the process dies | `Crash`: every handler stops; its request is lost, its rows stay |

A 500 is the result `ERROR`; `faults` counts the queries that failed.
`dispatched`, `charged` and `late` are history: which requests called BBPS,
which of those calls ended SUCCESS, and which requests were sent when their key
already had a payment.

Three switches say which part of the world a run looks at: `Retries` (clients
call `/payment/retry`), `Overlap` (requests run concurrently) and `Rolling` (an
instance boots beside a serving one). The code allows all three.

Abstractions. A bill is one name for its number and its (biller, consumer)
pair; amounts are model values, so `NaN` and decimals do not appear. A retry
names the payment by its key instead of its id. The two `findOne`s of a lookup
are one step, since bill rows are neither inserted nor deleted once seeded;
for the same reason the `if (found)` of `payViaBbps` never fails. Callers with
a bank role, who may read every payment, may not call either endpoint.
`TIMEOUT` means what the adapter says, that no reference came back: the model
counts a call as charged only when it answers SUCCESS.

### Registration

`attempts` is the `registration_attempt` table, `users` Keycloak's users by user
name (the mobile number), `devices` the `device_profile` table, `mpins` the
customers with a live MPIN row. `pc[h]` is the `await` a handler stands at,
`task[h]` what it is doing (operation, attempt, the step it is to advance to,
where it goes on after a save, a device), `entity[h]` the copy it is saving,
`cols[h]` the columns of the UPDATE and `error[h]` what its catch block caught.
Handlers are slots: a finished one takes the next request.

| code | actions |
|---|---|
| `RegistrationService.create` | `Create` |
| `verifyOtp` | `VerifyOtp`, `OtpAccepted` or `OtpRefused`, `Advance` |
| `createCredentials` | `CreateCredentials`, `Advance`, `CreateUser`, `SetPassword`, `AssignRole`, `Record`, `Advance` |
| `registerDevice` | `RegisterDevice`, `InsertDevice`, `Record`, `Advance` |
| `complete`, `softDelete` | `Complete`, `Advance`; `SoftDelete`, `Delete` |
| `orchestrator.advance`, `.fail` | `Advance`; `Fail` |
| `compensation.rollback` | `Rollback`, then `Revoke` or `ClearMpin` |
| `Repository.save` | `Reload`, `Write` |
| an awaited call rejects; the process dies | `AwaitRejects`; `Crash` |
| `CredentialService.create` of a customer who can log in | `SetMpin` |

Three details of the code decide what can happen. `save` compares the copy with
a second read that includes soft-deleted rows, and writes every column that
differs: a stale copy takes back what others wrote, `deleted_at` included. The
`advance` that ends a try block is returned without `await`, so its exception
passes the catch block by and nothing is compensated, while the exceptions of
the saves before it are (`InTry`). And `rollback` reads the attempt anew: it
revokes the device, and clears the MPIN of the user, that the row names then.

Abstractions. OTP verification is an outcome: which challenge it was, and for
which mobile number, is not in the model. The code does not compare the
challenge's number with the attempt's either, so no property here says that an
attempt's own number was verified. A Keycloak user is named by its
user name, which is unique, and no user is ever removed. A request that is
refused before its first write changes nothing and is not an action. Passwords,
names and e-mail addresses do not appear; a username is the mobile number, as
`createCredentials` passes it. `failureReason` is one of two values.

### Employees

`users` is Keycloak's user table by user name, `employees` and `adminUsers` are
`rbac_employee` and `admin_user` by user name, `assignments` is
`rbac_employee_user_role`. An inserted row is named by the request that inserted
it. `req[r]` is what a request asks and what its handler has read; `pc[r]` is the
`await` its handler stands at and `sync[r]` the one its event's listener stands
at, which runs on after the handler has answered.

| code | actions |
|---|---|
| `EmployeesService.create` | `Create`, `CreateUser`, `SetPassword`, `AssignRole`, `InsertEmployee`, `SaveAssignment`, `Publish` |
| `updateRole` | `UpdateRole`, `RemoveRole`, `AssignRole`, `SaveAssignment`, `Publish` |
| `KeycloakService.signup` | `Signup`, `CreateUser`, `SetPassword`, `AssignRole` |
| `AdminUserSyncListener.handle` | `SyncFind`, then `SyncInsert` or `SyncUpdate` |
| an awaited call rejects; the process dies | `AwaitRejects`, `SyncRejects`; `Crash` |

`updateRole` reads the assignment once and uses the copy after two calls of
Keycloak. It loads the `role` relation with it, sets the `roleId` column and
saves: TypeORM writes the join column from the relation object where one is
loaded, so the row keeps the role it was created with (`SavedRole`), while
Keycloak and the event have the new one. What follows is in section 3.

Abstractions. A caller is known by the highest role of its token. Role rows and
delegations do not change meanwhile: they only decide which requests are let in.
A custom role name stands for the well-known one its level and duty resolve to.
The `save` of a loaded assignment is one step: the one other column it writes is
not in the model. Names, e-mail addresses and the reads that only build the
response do not appear.

### Editing

`rows` is the table by id. `pc[h]` is the `await` a handler stands at, `op[h]`
its operation, `at[h]` the row it works on, `entity[h]` its copy, `cols[h]` the
columns its `save` is about to write. Handlers are slots: a finished one takes
the next request. `raced` is history: the rows two requests were at work on at
once. The properties that the code keeps only without overlap are stated for
the other rows; requests for different rows overlap freely.

| code | operators |
|---|---|
| `findOne`, of rows not soft-deleted | `Live`; `Begin` (the copy is taken and the handler awaits) |
| `save` of a new entity | `Insert`, `InsertBy` (the handler goes on) |
| `save` of a loaded entity | `Reload`, `Write` |
| `softDelete(id)` | `SoftDelete` |
| what is awaited rejects, or the process dies | `Rejects` |

A request that is refused before its first write changes nothing and is not an
action. The read, the checks and the change of the copy are one step with the
`findOne` before them, since nothing else is awaited.

### Otp

| code | actions |
|---|---|
| `create`, `delete` | `Create`; `Delete`, `Consume` |
| `verify`, code wrong | `VerifyWrong`, `SaveReload`, `SaveWrite` |
| `verify`, code right | `VerifyRight`, `Consume` |
| time | `Tick` |

Whether a code is right is an input: numbers, codes and hashes do not appear.
`wrong`, `lost` and `accepted` count, per challenge, the wrong codes evaluated,
those whose save failed, and the codes accepted. Nothing resets
`attemptCount`, so after a lock has passed one more wrong code locks again:
that is where the bound of `GuessesBounded` comes from.

### Schedules

| code | actions |
|---|---|
| `create` | `CreateSchedule` |
| `pause`, `resume`, `cancel` | `Pause`, `ResumeSchedule`, `Cancel`, then `ReloadSchedule`, `WriteSchedule` |

Which bill, how much and when do not appear: no executor reads them.
`answered` is history: what a schedule's customer was told last.

### Rules

| code | actions |
|---|---|
| `create` | `Create`, `InsertHistory` |
| `update` | `Update`, `SaveReload`, `SaveWrite`, `InsertHistory` |
| `deactivate` | `Deactivate`, `InsertHistory`, `RemoveRule` |

A deactivation is recorded as the version after the rule's own, which the rule
only gets if the soft delete then fails and somebody updates it: two history rows
then share that version. `failed` is history: the rules a request of which
failed half-way.

### Roles

| code | actions |
|---|---|
| `PermissionsService.create` | `CreatePermission` |
| `create` | `Create`, `CreateRealmRole`, `InsertRole`, `DeleteDelegations`, `InsertDelegations` |
| `update` | `Update`, `GetRealmRole`, `UpdateRealmRole`, `SaveReload`, `SaveWrite`, `DeleteDelegations`, `InsertDelegations` |
| `mapPermissions` | `MapPermissions`, `DeleteMappings`, `InsertMappings` |
| `assertCanAssignRole` | `MayAssign` |

A row is known by the role's unique name. A `save` of several rows is one
transaction. A row keeps a null description (`NoText`), Keycloak's realm role
cannot: a create sends it `''` (`Empty`), and an update sends it the text the
realm role had when `updateRealmRole` looked (`GetRealmRole`, in the handler's
`dto.existing`). So row and realm role differ whenever a description is null.
`told` is history: what the answered requests of a role asked for, and in
`text` the last description they gave Keycloak.
Permissions are active, as the code never makes one inactive.

### Outbox

| code | actions |
|---|---|
| whatever has an event to record | `Append` (the service has no writer yet) |
| `handle`, its loop | `Tick`, `Relay` |
| `withRetries` inside the breaker | `Answered`, `AttemptFails`, `TimesOut`, `HalfOpen` |
| `repository.save` | `SaveReload`, `SaveWrite`, `SaveRejects` |
| the process dies | `Crash` |

Cron does not wait for a tick, so ticks are slots like handlers. The breaker is
opossum's and external: that a failure may or may not open it stands for its
error statistics. The save of SENT is inside the `try`, so when it rejects the
attempt counts as failed and the event is sent again; any other save that
rejects ends the tick.

### Reports

`Filtered`, `DailySummary`, `FailedTransactions`, `HighValueTransactions`,
`BranchWise` and `ChannelWise` are the methods of `ReportingService`, `Provided`
the provider's table, `Csv`, `Excel`, `Pdf`, `Letters` and `Placed` the exporter.
`Kept` is the `filter` of arrays, by the set of what passes; `Counted` is one
transaction more in the Map of a grouping.
`Report` and `Export` are the two endpoints; a request is answered from the table
and its filters and nothing else. Amounts are whole numbers of some unit. Moments are minutes and a date is its
midnight, as `new Date` takes it: a `toDate` without a time leaves out the day it
names. A text filter matches whatever its case and so is a value of the column;
the text of cells is left out.

A PDF row begins 18 points below the one before. `exportPdf` prints each cell
with a width (750 divided by the columns, less 5), and pdfkit, which is not part
of the repository, wraps a text that has a width. `Lines` says how many lines a
cell then needs, each of `LineHeight` (11); a page ends at `PageEnd` (565, A4
across less its margin). Where the lines of a cell pass that end, pdfkit adds a
page of its own and goes on there (`Added`), which the code's `y` does not
notice: the next row goes on below on the new page. So wrapped cells are printed
over the rows below them, and a row of which several cells wrap at the end of a
page can be spread over as many pages. `PagesHoldRows` claims what is left: every
row begins once, in order, inside a page, and one that fits its columns is
printed over no other. Column letters are a function of any column; the reports
have 3, 8 or 17 of them.

## 3. Runs

Where requests or rows are finite, a run ends in states with nothing to do:
`CHECK_DEADLOCK FALSE`.

| run | instance | shows |
|---|---|---|
| `BillPaymentOverlap` | 3 requests, 1 key, a bill in both tables, 2 amounts, overlap, retries, 1 restart, 1 failing query | `PaidOnlyByCharge`, `SuccessOnlyByCharge`, `RecordedKeyNeverRedispatched`, `OneOutcomePerKey`, `PaidFinal`, `IdentityStable` |
| `BillPaymentSerial` | 3 requests of 2 customers one at a time, 1 key, a bill in both tables and one in the fallback only, 1 failing query | `RepeatsOnlyUnanswered`, `AnsweredChargeSettled`, `ReferenceOfCharge`, `ReplayRecognised`, `SuccessFinal`, `ChargeSettles`, `ImplementsLedger` |
| `FindDoubleDispatch` | 2 overlapping creates with one key | that `DispatchOncePerKey` fails |
| `RegistrationOverlap` | 2 attempts for one mobile number, 2 requests at a time without end, 2 devices | `EffectsPrecedeSteps`, `OwnRecords` |
| `RegistrationSerial` | 2 attempts, 2 mobile numbers, 2 devices, requests one at a time, 1 failing await, 1 crash | `StepHasRecords`, `ForwardOnly`, `MpinKept`, `CredentialsSettle` |
| `Employees` | 3 requests, 1 user name, 3 roles, 1 failing await or crash | `OwnAccounts`, `RolesAsked`, `ReadModelFollows` always; `PortalRolesMirrored` once events have drained, without a failure; `StoresSettle` while requests neither overlap nor fail |
| `FindMakerChecker` | 3 requests, 1 user name, 3 roles, without failures | that `DutiesSegregated` fails |
| `Otp` | 1 challenge, 2 requests at a time, a limit of 2, lock 1, lifetime 3, clock to 5, 4 wrong codes, failing saves | `LockIsEarned` always; `OneShot`, `GuessesBounded` without overlap |
| `Schedules` | 1 schedule, 3 requests at a time, 2 customers, failing awaits | `LastAnswerStands`, `LifecycleKept` without overlap |
| `Roles` | 1 role, 2 requests at a time, 2 descriptions (one empty) and null, 1 admin, 1 permission, failing awaits | `TypeOK`, `RealmMatchesRows`; `RolesAsTold` without overlap or failure |
| `Outbox` | 1 event, 3 ticks at a time, 2 attempts of 2 tries, 1 rejected save or crash | `OutcomeIsEarned`, `RowsSettle` always; `OutcomeIsFinal` without overlap |
| `Admin` | `Rules`: 1 rule up to version 3, 2 requests at a time, 2 thresholds, failing awaits. `Reports`: the provider's table, that table 9 times over, every table of at most 2 of a few transactions; filters on both sides of each boundary; two cells of large transactions that wrap | `VersionsDistinct` without overlap, whatever fails; `HistoryTellsRule` without overlap or failure; `ReportsAgree`, `PagesHoldRows`, `LettersNumberColumns` (to column 750) |

`MCAdmin` puts the two services of one run side by side. They share no state, so
a report is taken before any request for a rule, and the rules change after one
report, which is of nothing.

Only the run of `Roles` lists its type invariant: those of the other modules
with state are conjuncts of the inductive invariants that are proved (section
4). The state of `Reports` is its input and its answer.

Bounds. A race on a payment has a first writer, a second writer with a stale
copy and at most one request that created the row both use: three requests. One
restart (`MaxBoots`) puts a crash or a reseed between any two steps, and one
failing query (`MaxFaults`) a 500. In the saga
and in the modules on `Editing` a race has two handlers; they are used again and
again, so a behaviour has as many requests as it likes. Two attempts matter
where they compete for one user name; two devices let a failing request revoke
the device of another one. One failing await (`MaxFaults`) and one crash
(`MaxCrashes`; together `MaxFailures` elsewhere) can hit any `await`; what
follows a fault depends on the rows it leaves, not on how many came before. In
the modules on `Editing` any number of awaits may reject. Their rows share
nothing, and neither do employees, so one row and one user name are enough;
three requests for an employee are a create and two changes that race, or a
create and a signup that do. Of the three roles one outranks the other two, a
maker's and a checker's. The clock of `Otp`
lets a challenge be locked, unlock, be locked again and expire; `MaxGuesses` is
one more than `GuessesBounded` allows. `MaxVersion` and `MaxHistory` leave room
for two updates of a rule and its deactivation. Three ticks are one that works,
one with a stale copy and one with a copy staler still. Sixty-three rows fill
three pages of a PDF, and 750 columns reach letters of three digits.

Fairness. `FairSpec` of `BillPayment` and `Registration` asks weak fairness of
each handler: the event loop resumes a handler whose `await` has settled, and
none waits for another. Nothing is assumed of clients, of faults or of a
restart. `ChargeSettles` and `CredentialsSettle` need it, and are checked for
requests handled one at a time without a crash, where they are true; the second
without a failing await as well, the first with one: a charge is recorded and its
bill marked, or its client is told 500. `FairSpec` of `Outbox` asks that cron keeps firing while a
row is pending and a slot is free, and that a tick goes on: the breaker's
timeout settles every relay that the service does not. It does not ask that the
service ever answers, or that the breaker ever closes. `RowsSettle` says that a
row becomes SENT or FAILED; when ticks overlap, a stale save may take that back,
and then it settles again.

### Disagreements between documents and code

`FindDoubleDispatch`: billpaymentservice.md:205 says that the same key does not
invoke BBPS again. Two overlapping creates both find no payment and both call
BBPS; the second INSERT is refused by the unique index and its client gets a 500.

`FindMakerChecker`: roles.service.ts:160 says that a user cannot hold both Maker
and Checker roles. Without an overlap or a failure, an employee created as
BANK_ADMIN who is made a checker and then a maker holds both in Keycloak. The
row keeps BANK_ADMIN (`SavedRole`), so the second change removes that role again
and not the checker's; and the check it passes is given the one role it asks for,
which is compatible with itself.

### Other instances

Other instances of the same modules show where other statements stop being true.
They are not among the runs; each is one constant or one premise away from one.

| statement | instance | what happens |
|---|---|---|
| billpaymentservice.md:293, :324: the flow checks UNPAID | `DispatchOnlyUnpaid` with two keys and `Retries` | a retry pays a bill another payment has paid |
| mock-testing-guide.md:124: a restart does not reset PAID | `PaidFinal` with `Rolling = TRUE` | an instance booting beside a serving one writes UNPAID back |
| billpaymentservice.md:203: reuse the key to be safe | `DispatchOncePerKey` with `Overlap = FALSE` and `MaxBoots = 1` or `MaxFaults = 1` | a crash between the BBPS call and the INSERT, or an INSERT that fails, forgets the call; only then, as `RepeatsOnlyUnanswered` says |
| billpaymentservice.md:344: BBPS success is SUCCESS and the bill PAID | `AnsweredChargeSettled` without its exception for 500 | a `save(bill)` that fails leaves the bill UNPAID under a SUCCESS payment, and the retry that would mark it returns early |
| billpaymentservice.md:349: retrying a SUCCESS payment is a no-op | `SuccessFinal` with `Overlap = TRUE` | a retry that loaded its payment earlier overwrites SUCCESS |
| registration-orchestrator.service.ts:75: forward-only | `ForwardOnly` with `Overlap = TRUE` | of two overlapping `create-credentials` the one Keycloak refuses saves, in `fail`, the step it read before the other advanced |
| registration.service.ts:68, registration-orchestrator.service.ts:7: call again to retry | `OwnUserIsNoObstacle` | the user exists from the first call, so Keycloak refuses every further one |
| employees.controller.ts:30: changes the role in both Keycloak and the local database | `StoresAgree` with the constants of `FindMakerChecker` | one create and one update: Keycloak has the new role, the row the old one |
| employees.service.ts:219: you cannot change the role of an employee at your level or higher | `PeersUntouched`, likewise | the caller is compared with the row's old role: a bank admin changes one who was made a bank admin since |
| otp.service.ts:52: one-shot, so it cannot be replayed | `OneShot` without its premise | two overlapping verifications with the right code both succeed |

When requests for one employee overlap, or one fails half-way, `StoresSettle`
fails in further ways: each of two updates adds a role and neither removes the
other's, and a failure after Keycloak removed the old role leaves the account
without one. `StepHasRecords` with `Overlap = TRUE` fails too: the save in `fail` writes its
stale NULL over the winner's `keycloakUserId`, after which `registerDevice`
refuses the attempt for good. So do the properties of `Schedules`, `Rules` and
`Roles` for rows that requests raced for, and `OutcomeIsFinal` when ticks
overlap: a stale copy is saved over a newer row, column by column.

## 4. Proofs

What is assumed is what each module's `ASSUME` says: the null values lie outside
the types, bounds and limits are natural numbers, `BillPayment`'s seeded bills
exist in both tables, and, of `Reports`, that the provider returns a sequence of
transactions of its own interface (three statuses, two types, whole amounts),
that a minimum is a number, and that a line of the font is no higher than the 18
points from row to row and fits below 550, where the page breaks (how many lines
a cell needs is left open). Everything else holds for any number of requests, rows, failures and crashes. The bounds of the
runs (`MaxTime`, `MaxGuesses`, `MaxVersion`, `MaxHistory`, `MaxBoots`,
`MaxFaults`, `MaxFailures`, `MaxColumns`) are arbitrary numbers in the proofs. Each inductive
invariant was checked by TLC, as an invariant of the same instances, before it
was proved (`Answered` of `Reports` with the row lists of the five reports in
place of its quantifier).

`BillPaymentProofs`:

1. `Inductive`: `Spec => []IInv`, one lemma per action. Neither
   `PaidOnlyByCharge` nor `SuccessOnlyByCharge` is inductive: what a handler
   will write depends on the copy it holds. `IInv` adds, for each `await`, what
   the handler knows there: the bill it holds is found, the payment it holds has
   the identity of the recorded one, a copy with SUCCESS belongs to a charged
   call, a late create can only replay; and the seeder writes PAID only where
   it read PAID. `QuietStep`, `LocalUntouched` and `Grows` (what no step undoes)
   reduce an action to what it changes for its own request.
2. `TypesCorrect`, `PaidBillsWereCharged`, `SuccessWasCharged`,
   `RecordedKeysAreSafe` and `PaymentsKeepIdentity` follow from it.
3. `SeederBootsAlone` and `PaidIsFinal`, under `~Rolling`: a seeder that runs
   alone writes each row's own status.
4. `CreateImplementsLedger`, under `~Rolling` and `~Retries`: every step maps to
   a step of `PaymentLedger` or a stutter. The extra invariant is that a handler
   marks a bill only while its payment is SUCCESS in the table.
5. `HandlersAreCurrent`, under `~Overlap` and `~Rolling`, with retries, failing
   queries, crashes and reseeds: `SerialInv` says that one handler is in flight (`OneAtATime`),
   that what it read before an `await` is still so after it (`Current`: its key
   free, its copy the row, the columns it is about to UPDATE all that row and
   copy differ in), and that the outcome it is about to record is that of its own
   call (`HoldsOutcome`). `AnsweredChargeSettled` and `ReferenceOfCharge` are
   parts of it: they are what the next request finds. `ChargesAreSettled`,
   `ReferencesAreCharged` and `SuccessIsFinal` follow, the last because a save
   with nothing between its re-read and its UPDATE makes the row the copy
   (`PatchAllPayment`) and no retry gets past a SUCCESS row.
6. `ServiceImplementsLedger`, under the same assumptions: the refinement with
   retries, each of which resolves one payment that is not SUCCESS yet.
7. `RepeatsWereUnanswered`, under the same assumptions: a create that called BBPS
   under a key is about to record its payment, has recorded it (and then
   `CheckKey` stops every other), or ended without an outcome (`OnceInv`).
8. `ReplaysAreRecognised` assumes in addition that nothing restarts
   (`MaxBoots = 0`), since a reseed changes amounts. `ReplayInv`: the amount a
   create carries is that of its bill, and what it was told is whether it equals
   the recorded request, which stays so (`SameRequestStays`).
9. `OutcomesAreToldOnce`, for requests that overlap, fail and crash: an outcome is
   told only by the create whose INSERT went through, and the unique index lets
   one go through for each key (`OutcomeInv`).

`RegistrationProofs`:

1. `Inductive`: `Spec => []IInv`. A row's step is explained by effects that
   other handlers' stale saves must not be able to undo; so `IInv` says of every
   copy that is being saved (`Copy`) what `EffectsPrecedeSteps` and `OwnRecords`
   say of the rows, of a handler about to advance that the effect of its step is
   there (`Done`), and which step an operation heads for (`Heading`). A save then
   leaves a mixture of two explained rows, which is explained
   (`MixtureExplained`), because what explains a row is never undone (`Grows`,
   `ExplainedStays`). `Assemble` reduces a step to its own handler and the rows it
   writes.
2. `TypesCorrect`, `StepsHaveEffects` and `RecordsAreOwn` follow.
3. `HandlersAreCurrent`, under `~Overlap`, whatever fails or crashes: `SerialInv`
   says that one handler is at work, which step its attempt stands at while an
   operation is on its way (`AtStep`), that the copy it saves is the row but for
   what it changed (`CurrentCopy`), and that the record a step stands for is in
   the attempt before the step is (`Ready`). `StepHasRecords` is part of it:
   no step alone keeps it, since `advance` trusts what an earlier save left.
   `StepsHaveRecords`, `SagaMovesForward` and `MpinsAreKept` follow: a rollback
   finds the attempt where its operation found it, so it undoes nothing of a
   step that was taken.

`EmployeesProofs`:

1. `Inductive`: `Spec => []IInv`. That an employee owns its account is decided
   three awaits before the row is inserted, so `IInv` says of a creating handler
   that the account under its name is its own from `CreateUser` on (`Holds`),
   which operation stands at which await (`Fits`), and that only what is saved is
   published (`Saves`). `Kept` states what a step of one request leaves to the
   others; `Assemble` builds the invariant from it, and handlers that only end
   where they are (faults, crashes) are one lemma (`EndedStep`).
2. `TypesCorrect`, `AccountsAreOwn` and `ReadModelIsBehind` follow.
3. `RolesAreAsked`, whatever overlaps, fails or crashes: a role is only ever
   assigned by a request about the account's own user name (`RolesCome`), and a
   signup and an employee's create never share an account (`OwnKind`).
4. `PortalRolesAreMirrored`, for requests and listeners that overlap: `MirrorInv`
   follows a saved portal role from the save through the event to the listener.
   A listener that loses its INSERT ends, but then the row is there.
5. `StoresAreSettled`: as long as requests neither overlapped nor failed,
   `AloneInv` says that every user name nobody is at work on is as `Settles` says
   (`OthersSettled`), and of the one somebody works on what each store shows at
   each `await`: the account before its role, without the row's role between
   removal and assignment, with the new one before the save, and the read model
   behind until the listener has run.

`EditingProofs` has what the next two modules share: what each step of
`Editing` does to its own handler and leaves to the others, and that it keeps
`EditingOK` and `Sole`, which says that a row nobody raced for has one handler.
With it, what a handler read is still in the table when it saves.

`CustomerProofs` has two parts. Schedules: `SInv` says of a handler that works on a row alone
(`Working`) that its operation may start from the row as it is now, and that its
copy differs in `status` and `active` only; and of such a row that it shows what
was answered last (`Told`). `LastAnswerHolds` and `LifecycleHolds` follow.

Challenges: `OInv` (`Inductive`) has these parts. `Counted`: no copy has more
attempts than wrong codes were sent, nor a lock before the limit, so no stale
save can show one; `LocksAreEarned`. `Used`: an accepted challenge without a race
is deleted; `AcceptedOnce`. `Tallied` and `Flying`: without a race
`attemptCount` is the wrong codes less those lost and the one still being saved.
`Paced`: each attempt from the limit on lies more than `LockTime` after the one
before it, inside the lifetime; with `DivBounds`, a lemma on division,
`GuessesAreBounded`.

`RulesProofs`: `RInv` says what a request that nobody raced with knows at each of
its awaits (`Holds`), what a row is while no request is at work on it (`RowHolds`),
and that the history is in order (`Listed`, `Distinct`, `Told`).
`VersionsAreDistinct` holds through failures: a failed update leaves a gap in the
versions of changes and never a repetition, and a failed deactivation leaves the
one entry that a later change may share its version with. `HistoryIsTold` needs
that none failed.

`AdminProofs` has two parts. Roles, for creates, updates and mappings that
overlap and fail:

1. `Inductive`: `Spec => []RInv`. `Fits` says which operation stands at which
   await and that the role it works on is there from the insert on; `Paired`,
   that a row has its realm role, and a realm role on which nothing failed has
   its row or the one handler that is about to insert it (`Inserting`). Of a role
   that was neither raced for nor left by a failure, `Settled` says that each of
   its four stores is what was told last, and `Between` what each shows at each
   `await` of the one request at work on it: the realm role is ahead of the row,
   the row ahead of the delegations, and the deletion of mappings leaves none.
   The realm role's text is a part of its own (`TextTold`), because the row's
   may be null where Keycloak keeps one; what `GetRealmRole` read is still there
   when `UpdateRealmRole` sends it back.
   `Assemble` reduces a step to its own handler and role (`About`).
2. `TypesCorrect`, `RealmIsPaired` and `StoresAreAsTold` follow; the last
   because the answer of a request is read back from the stores (`AnswerTells`).

Reports, for every table, all filters, any number of rows and columns:

1. `Recursion` and `RankInduction`: what descends in the natural numbers defines
   a function, and proves a set. They come from `Least`, which comes from the
   library's theorem that the finite subsets of a set are well-founded; the
   library's own induction theorems take an operator as a parameter, these take
   a set or a function, which the provers can instantiate.
2. `FoldExists`, `FoldOfIs` and `ListInduction`: the folds of the community
   modules, which are choices of a recursive function, are what a step for each
   element makes them. `SumSteps`, `KeptSteps`, `NumberSteps`, `LettersSteps` and
   `GroupedSteps` say so of the model's operators, one step each.
3. `GroupsAddUp`: by induction on the list, each transaction adds 1 and its
   amount to the totals of the groups. A total takes its groups in the order
   `CHOOSE` finds them, so it has to be shown that the order does not matter
   (`TotalTakes`, `TotalAdds`). `StatusesAddUp` and `TypesAddUp` are inductions on
   the list, `HighValueAgrees` is that filtering twice is filtering by both
   (`KeptKept`). `ReportsTellOneStory` combines them.
4. `NumberOfLetters`: a letter more is a digit more, by induction on the column.
   `LettersCount` follows, for every `MaxColumns`.
5. `RowsHavePlaces`, by induction on the rows: each begins no lower than 550, and
   18 below the one before or on a later page (`PlacesBreak`); when no cell of the
   one before wraps, pdfkit adds no page (`AddedIs`), so it is the next one.
   `RowsArePrinted` follows from the invariant that an answer was made from a list
   (`Answered`), which `DataAreList` shows of each of the five reports.

`OutboxProofs`: `BInv` says of every copy, in a tick's list or about to be
saved, that the attempts and the status it shows are earned (`Earned`, `CopyHolds`,
`TickHolds`): `OutcomesAreEarned`. As long as no ticks overlapped only one is at
work (`Alone`), and what it has not come to yet is still in the table
(`Current`): `OutcomesAreFinal`.

Only model-checked, since liveness is out of the prover's reach: `ChargeSettles`,
`CredentialsSettle` and `RowsSettle`. Every other property of a passing run is
stated by a theorem.

## 5. Not modelled

* Credentials: `Registration` has the MPIN rows the saga sees. The awaits inside
  `CredentialService.create`, which saves the live row with the new hash or
  inserts one if there is none, and the two rows overlapping creates can leave
  are not modelled.
* Keycloak client: each call is a step of the component that makes it. Tokens,
  login, refresh and logout keep nothing in this service.
* Devices and corporate hierarchy: single inserts, reads and soft deletes by id;
  device rows are in `Registration` as far as the saga uses them.
* Billers, bill fetch, templates, tenant: one statement each, or reads.
* User access queries: joins of tables other components write.
* Guards, interceptors, health, configuration, migrations, bootstrap: one
  decision per request on the caller's token, or wiring without behaviour over
  time.

What could follow: `Credentials` as one more module on `Editing`, with a user id
that no index makes unique; the pure functions of `rbac.constants.ts` against a
reference definition of the hierarchy they define; and an abstract onboarding that
the saga refines when requests come one at a time.
