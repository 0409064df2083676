---------------------------- MODULE Registration ---------------------------
(***************************************************************************)
(* The onboarding saga of the auth module: RegistrationService,            *)
(* RegistrationOrchestratorService (`advance`, `fail`) and                 *)
(* RegistrationCompensationService (`rollback`), with the Keycloak, device *)
(* and MPIN calls they make.  An action is the code between two awaits of  *)
(* a handler.                                                              *)
(*                                                                         *)
(* A request that a handler refuses before its first write changes nothing *)
(* and is not an action: the guards of the entry points are the conditions *)
(* under which the code goes on.                                           *)
(***************************************************************************)
EXTENDS Naturals, Repository

CONSTANTS
    Attempts,       \* ids of registration_attempt rows
    Mobiles,        \* mobile numbers, the Keycloak user names
    Devices,        \* ids of device_profile rows
    Handlers,       \* requests handled at a time; a handler is used again
    NoAttempt,      \* no row has this id
    NoUser,         \* Keycloak has no user of this name
    NoDevice,       \* no row has this id
    Null,           \* the column IS NULL
    Overlap,        \* whether requests are handled concurrently
    MaxFaults,      \* bound: awaits that reject in a behaviour
    MaxCrashes      \* bound: crashes of the process in a behaviour

Steps == {"INIT", "OTP_VERIFIED", "CREDENTIALS_SET", "KEYCLOAK_USER_CREATED",
          "DEVICE_REGISTERED", "COMPLETED"}

Ops == {"verifyOtp", "createCredentials", "registerDevice", "complete", "delete"}

(* STEP_ORDER, the forward order of the saga.                              *)
Index == [INIT |-> 0, OTP_VERIFIED |-> 1, CREDENTIALS_SET |-> 2,
          KEYCLOAK_USER_CREATED |-> 3, DEVICE_REGISTERED |-> 4, COMPLETED |-> 5]

(* Keycloak names a user by an id of its own; as user names are unique and *)
(* no user is removed here, a user is named by the mobile number.          *)
(* failure_reason: Keycloak has the user already, or something failed.     *)
AttemptRow == [mobile  : Mobiles,
               step    : Steps,
               user    : Mobiles \cup {Null},
               device  : Devices \cup {Null},
               reason  : {"USER_EXISTS", "FAILED", Null},
               deleted : BOOLEAN]

(* `by` is the attempt a user or a device was created for.                 *)
User   == [by : Attempts, password : BOOLEAN, role : BOOLEAN]
Device == [by : Attempts, live : BOOLEAN]

ASSUME RegistrationAssumption ==
    /\ NoAttempt \notin AttemptRow
    /\ NoUser \notin User
    /\ NoDevice \notin Device
    /\ Null \notin Mobiles \cup Devices \cup Steps \cup Ops \cup {"USER_EXISTS", "FAILED"}
    /\ Overlap \in BOOLEAN
    /\ {MaxFaults, MaxCrashes} \subseteq Nat

VARIABLES
    attempts,       \* the registration_attempt rows
    users,          \* Keycloak's users, by user name
    devices,        \* the device_profile rows
    mpins,          \* users with a live MPIN credential row
    verified,       \* history: attempts for which an OTP was accepted
    pc,             \* the await each handler stands at
    task,           \* what it does: operation, attempt, the step it is to
                    \*   advance to, where it goes on after a save, a device
    entity,         \* its copy of the attempt
    cols,           \* columns the save() in progress is about to UPDATE
    error,          \* what its catch block caught
    faults, crashes

stores  == <<attempts, users, devices, mpins, verified>>
locals  == <<pc, task, entity, cols, error>>
bounds  == <<faults, crashes>>
vars    == <<attempts, users, devices, mpins, verified,
             pc, task, entity, cols, error, faults, crashes>>

Pcs   == {"idle", "otp", "advance", "createUser", "setPassword", "assignRole",
          "insertDevice", "record", "reload", "write", "fail", "rollback",
          "revoke", "clearMpin", "delete"}
Tasks == [op      : Ops \cup {Null},
          attempt : Attempts \cup {Null},
          to      : Steps \cup {Null},
          next    : {"idle", "createUser", "advance", "rollback"},
          device  : Devices \cup {Null}]
NoTask == [op |-> Null, attempt |-> Null, to |-> Null, next |-> "idle",
           device |-> Null]

Init ==
    /\ attempts = [a \in Attempts |-> NoAttempt]
    /\ users = [m \in Mobiles |-> NoUser]
    /\ devices = [d \in Devices |-> NoDevice]
    /\ mpins = {} /\ verified = {}
    /\ pc = [h \in Handlers |-> "idle"]
    /\ task = [h \in Handlers |-> NoTask]
    /\ entity = [h \in Handlers |-> NoAttempt]
    /\ cols = [h \in Handlers |-> {}]
    /\ error = [h \in Handlers |-> Null]
    /\ faults = 0 /\ crashes = 0

(* findOne sees the rows that are not soft-deleted.                        *)
Live(a) == attempts[a] # NoAttempt /\ ~attempts[a].deleted

Mine(h) == task[h].attempt

-----------------------------------------------------------------------------
(* What the handlers share                                                 *)

Goto(h, p) == pc' = [pc EXCEPT ![h] = p]

(* A request is past its first findOne and its checks.                     *)
Begin(h, op, a, to, p) ==
    /\ pc[h] = "idle"
    /\ Overlap \/ \A g \in Handlers : pc[g] = "idle"
    /\ Live(a)
    /\ Goto(h, p)
    /\ task' = [task EXCEPT ![h] = [op |-> op, attempt |-> a, to |-> to,
                                    next |-> "idle", device |-> Null]]
    /\ UNCHANGED <<stores, entity, cols, error, bounds>>

(* The response leaves, or an exception no catch block is around for.      *)
Finish(h) ==
    /\ Goto(h, "idle")
    /\ task' = [task EXCEPT ![h] = NoTask]
    /\ entity' = [entity EXCEPT ![h] = NoAttempt]
    /\ cols' = [cols EXCEPT ![h] = {}]
    /\ error' = [error EXCEPT ![h] = Null]

(* The catch block of createCredentials and registerDevice.                *)
Throw(h, e) ==
    /\ Goto(h, "fail")
    /\ error' = [error EXCEPT ![h] = e]
    /\ UNCHANGED <<task, entity, cols>>

(* save(copy) begins; the handler goes on at `next` when it is through.    *)
Save(h, copy, next) ==
    /\ entity' = [entity EXCEPT ![h] = copy]
    /\ task' = [task EXCEPT ![h].next = next]
    /\ Goto(h, "reload")
    /\ UNCHANGED <<cols, error>>

(* save reads the row again, deleted or not, ...                           *)
Reload(h) ==
    /\ pc[h] = "reload"
    /\ cols' = [cols EXCEPT ![h] = Diff(entity[h], attempts[Mine(h)])]
    /\ Goto(h, "write")
    /\ UNCHANGED <<stores, task, entity, error, bounds>>

(* ... and updates the columns in which the copy differed.                 *)
Write(h) ==
    /\ pc[h] = "write"
    /\ attempts' = [attempts EXCEPT ![Mine(h)] = Patch(@, entity[h], cols[h])]
    /\ IF task[h].next = "idle" THEN Finish(h)
       ELSE /\ Goto(h, task[h].next)
            /\ entity' = [entity EXCEPT ![h] = NoAttempt]
            /\ cols' = [cols EXCEPT ![h] = {}]
            /\ UNCHANGED <<task, error>>
    /\ UNCHANGED <<users, devices, mpins, verified, bounds>>

(* orchestrator.advance: exactly one step forward, or an exception.  The   *)
(* last call of a try block is returned without await, so its exception    *)
(* passes the catch block by.                                              *)
Follows(from, to) == Index[to] = Index[from] + 1

Advance(h) ==
    LET row == attempts[Mine(h)]
        to  == task[h].to IN
    /\ pc[h] = "advance"
    /\ \/ ~(Live(Mine(h)) /\ Follows(row.step, to)) /\ Finish(h)
       \/ /\ Live(Mine(h)) /\ Follows(row.step, to)
          /\ Save(h, [row EXCEPT !.step = to],
                  IF to = "CREDENTIALS_SET" THEN "createUser" ELSE "idle")
    /\ UNCHANGED <<stores, bounds>>

-----------------------------------------------------------------------------
(* The five steps of the saga, and the delete of the admin portal          *)

Create(a) ==
    /\ attempts[a] = NoAttempt
    /\ \E m \in Mobiles :
          attempts' = [attempts EXCEPT ![a] =
             [mobile |-> m, step |-> "INIT", user |-> Null, device |-> Null,
              reason |-> Null, deleted |-> FALSE]]
    /\ UNCHANGED <<users, devices, mpins, verified, locals, bounds>>

VerifyOtp(h, a) ==
    /\ Begin(h, "verifyOtp", a, "OTP_VERIFIED", "otp")
    /\ attempts[a].step = "INIT"

(* otpService.verify resolves ...                                          *)
OtpAccepted(h) ==
    /\ pc[h] = "otp"
    /\ verified' = verified \cup {Mine(h)}
    /\ Goto(h, "advance")
    /\ UNCHANGED <<attempts, users, devices, mpins, task, entity, cols, error, bounds>>

(* ... or rejects: a wrong, expired or locked code.                        *)
OtpRefused(h) ==
    /\ pc[h] = "otp"
    /\ Finish(h)
    /\ UNCHANGED <<stores, bounds>>

CreateCredentials(h, a) ==
    \/ /\ Begin(h, "createCredentials", a, "CREDENTIALS_SET", "advance")
       /\ attempts[a].step = "OTP_VERIFIED"
    \/ /\ Begin(h, "createCredentials", a, "KEYCLOAK_USER_CREATED", "createUser")
       /\ attempts[a].step = "CREDENTIALS_SET"

(* createUser's POST /users: Keycloak refuses a name it has.               *)
CreateUser_AdoptExisting(h) ==
    LET m == attempts[Mine(h)].mobile IN
    /\ pc[h] = "createUser"
    /\ users' = [users EXCEPT ![m] =
                    IF @ = NoUser
                    THEN [by |-> Mine(h), password |-> FALSE, role |-> FALSE] ELSE @]
    /\ Goto(h, "setPassword")
    /\ task' = [task EXCEPT ![h].to = "KEYCLOAK_USER_CREATED"]
    /\ UNCHANGED <<attempts, devices, mpins, verified, entity, cols, error, bounds>>

CreateUser(h) ==
    LET m == attempts[Mine(h)].mobile IN
    /\ pc[h] = "createUser"
    /\ \/ users[m] # NoUser /\ Throw(h, "USER_EXISTS") /\ UNCHANGED users
       \/ /\ users[m] = NoUser
          /\ users' = [users EXCEPT ![m] =
                          [by |-> Mine(h), password |-> FALSE, role |-> FALSE]]
          /\ task' = [task EXCEPT ![h].to = "KEYCLOAK_USER_CREATED"]
          /\ Goto(h, "setPassword")
          /\ UNCHANGED <<entity, cols, error>>
    /\ UNCHANGED <<attempts, devices, mpins, verified, bounds>>

(* createUser's PUT reset-password.                                        *)
SetPassword(h) ==
    /\ pc[h] = "setPassword"
    /\ users' = [users EXCEPT ![attempts[Mine(h)].mobile].password = TRUE]
    /\ Goto(h, "assignRole")
    /\ UNCHANGED <<attempts, devices, mpins, verified, task, entity, cols, error, bounds>>

(* assignRealmRoleToUser(keycloakUser.id, 'RETAIL_CUSTOMER').              *)
AssignRole_NotAwaited(h) ==
    /\ pc[h] = "assignRole"
    /\ Goto(h, "record")
    /\ UNCHANGED <<stores, task, entity, cols, error, bounds>>

AssignRole(h) ==
    /\ pc[h] = "assignRole"
    /\ users' = [users EXCEPT ![attempts[Mine(h)].mobile].role = TRUE]
    /\ Goto(h, "record")
    /\ UNCHANGED <<attempts, devices, mpins, verified, task, entity, cols, error, bounds>>

RegisterDevice(h, a) ==
    /\ Begin(h, "registerDevice", a, "DEVICE_REGISTERED", "insertDevice")
    /\ attempts[a].step = "KEYCLOAK_USER_CREATED"
    /\ attempts[a].user # Null

InsertDevice(h) ==
    /\ pc[h] = "insertDevice"
    /\ \E d \in Devices :
          /\ devices[d] = NoDevice
          /\ devices' = [devices EXCEPT ![d] = [by |-> Mine(h), live |-> TRUE]]
          /\ task' = [task EXCEPT ![h].device = d]
    /\ Goto(h, "record")
    /\ UNCHANGED <<attempts, users, mpins, verified, entity, cols, error, bounds>>

(* The attempt is read again, and the id of what was created saved in it.  *)
Record_NoAdvance(h) ==
    LET row == attempts[Mine(h)] IN
    /\ pc[h] = "record"
    /\ \/ ~Live(Mine(h)) /\ Throw(h, "FAILED")
       \/ /\ Live(Mine(h)) /\ task[h].op = "createCredentials"
          /\ Save(h, [row EXCEPT !.user = row.mobile], "idle")
       \/ /\ Live(Mine(h)) /\ task[h].op = "registerDevice"
          /\ Save(h, [row EXCEPT !.device = task[h].device], "advance")
    /\ UNCHANGED <<stores, bounds>>

Record(h) ==
    LET row == attempts[Mine(h)] IN
    /\ pc[h] = "record"
    /\ \/ ~Live(Mine(h)) /\ Throw(h, "FAILED")
       \/ /\ Live(Mine(h)) /\ task[h].op = "createCredentials"
          /\ Save(h, [row EXCEPT !.user = row.mobile], "advance")
       \/ /\ Live(Mine(h)) /\ task[h].op = "registerDevice"
          /\ Save(h, [row EXCEPT !.device = task[h].device], "advance")
    /\ UNCHANGED <<stores, bounds>>

Complete(h, a) ==
    /\ Begin(h, "complete", a, "COMPLETED", "advance")
    /\ attempts[a].step = "DEVICE_REGISTERED"

SoftDelete(h, a) == Begin(h, "delete", a, Null, "delete")

Delete(h) ==
    /\ pc[h] = "delete"
    /\ attempts' = [attempts EXCEPT ![Mine(h)].deleted = TRUE]
    /\ Finish(h)
    /\ UNCHANGED <<users, devices, mpins, verified, bounds>>

-----------------------------------------------------------------------------
(* Failure                                                                 *)

(* What orchestrator.fail writes into the attempt.                         *)
Compensated_FailedStep(row, e) == [row EXCEPT !.reason = e, !.step = "FAILED"]
Compensated_StepReset(row, e) == [row EXCEPT !.reason = e, !.step = "OTP_VERIFIED"]
Compensated_UserCleared(row, e) == [row EXCEPT !.reason = e, !.user = Null]
Compensated(row, e) == [row EXCEPT !.reason = e]

Fail(h) ==
    /\ pc[h] = "fail"
    /\ \/ ~Live(Mine(h)) /\ Goto(h, "rollback") /\ UNCHANGED <<task, entity, cols, error>>
       \/ Live(Mine(h)) /\ Save(h, Compensated(attempts[Mine(h)], error[h]), "rollback")
    /\ UNCHANGED <<stores, bounds>>

(* rollback of CREDENTIALS_SET clears the MPIN, of DEVICE_REGISTERED       *)
(* revokes the device the attempt names by now.                            *)
ClearsMpin_FallThrough(h, row) ==
    row.user # Null /\ (task[h].op = "registerDevice" => row.device = Null)
ClearsMpin(h, row) == task[h].op = "createCredentials" /\ row.user # Null
RevokesDevice(h, row) == task[h].op = "registerDevice" /\ row.device # Null

Rollback(h) ==
    LET row == attempts[Mine(h)] IN
    /\ pc[h] = "rollback"
    /\ \/ /\ Live(Mine(h)) /\ ClearsMpin(h, row)
          /\ Goto(h, "clearMpin")
          /\ UNCHANGED <<task, entity, cols, error>>
       \/ /\ Live(Mine(h)) /\ RevokesDevice(h, row)
          /\ task' = [task EXCEPT ![h].device = row.device]
          /\ Goto(h, "revoke")
          /\ UNCHANGED <<entity, cols, error>>
       \/ /\ ~(Live(Mine(h)) /\ (ClearsMpin(h, row) \/ RevokesDevice(h, row)))
          /\ Finish(h)
    /\ UNCHANGED <<stores, bounds>>

(* deviceService.softDelete; `safely` drops its NotFoundException.         *)
Revoke(h) ==
    /\ pc[h] = "revoke"
    /\ devices' = [devices EXCEPT ![task[h].device].live = FALSE]
    /\ Finish(h)
    /\ UNCHANGED <<attempts, users, mpins, verified, bounds>>

(* credentialService.softDeleteByKeycloakUserId, likewise.                 *)
ClearMpin(h) ==
    /\ pc[h] = "clearMpin"
    /\ mpins' = mpins \ {attempts[Mine(h)].mobile}
    /\ Finish(h)
    /\ UNCHANGED <<attempts, users, devices, verified, bounds>>

(* The awaits a catch block is around.                                     *)
InTry(h) ==
    \/ pc[h] \in {"createUser", "setPassword", "assignRole", "insertDevice", "record"}
    \/ pc[h] \in {"reload", "write"} /\ task[h].next = "advance"

(* The database or Keycloak fails the call a handler awaits.  `safely`     *)
(* swallows that in a rollback; elsewhere the client gets an error.        *)
AwaitRejects(h) ==
    /\ pc[h] # "idle"
    /\ faults < MaxFaults
    /\ faults' = faults + 1
    /\ IF InTry(h) THEN Throw(h, "FAILED") ELSE Finish(h)
    /\ UNCHANGED <<stores, crashes>>

(* The process dies: rows, users and devices stay, handlers are gone.      *)
Crash ==
    /\ crashes < MaxCrashes
    /\ crashes' = crashes + 1
    /\ pc' = [h \in Handlers |-> "idle"]
    /\ task' = [h \in Handlers |-> NoTask]
    /\ entity' = [h \in Handlers |-> NoAttempt]
    /\ cols' = [h \in Handlers |-> {}]
    /\ error' = [h \in Handlers |-> Null]
    /\ UNCHANGED <<stores, faults>>

(* A customer who can log in sets an MPIN (CredentialService.create).      *)
SetMpin(m) ==
    /\ users[m] # NoUser /\ users[m].password /\ users[m].role
    /\ m \notin mpins
    /\ mpins' = mpins \cup {m}
    /\ UNCHANGED <<attempts, users, devices, verified, locals, bounds>>

-----------------------------------------------------------------------------
Handle(h) ==
    \/ OtpAccepted(h) \/ OtpRefused(h) \/ Advance(h) \/ Reload(h) \/ Write(h)
    \/ CreateUser(h) \/ SetPassword(h) \/ AssignRole(h)
    \/ InsertDevice(h) \/ Record(h) \/ Delete(h)
    \/ Fail(h) \/ Rollback(h) \/ Revoke(h) \/ ClearMpin(h)

Arrive(h) ==
    \E a \in Attempts : \/ VerifyOtp(h, a) \/ CreateCredentials(h, a)
                        \/ RegisterDevice(h, a) \/ Complete(h, a) \/ SoftDelete(h, a)

Next ==
    \/ \E a \in Attempts : Create(a)
    \/ \E h \in Handlers : Arrive(h) \/ Handle(h) \/ AwaitRejects(h)
    \/ \E m \in Mobiles : SetMpin(m)
    \/ Crash

Spec == Init /\ [][Next]_vars

(* The event loop resumes every handler whose await has settled; nothing   *)
(* is assumed of clients, faults or crashes.                               *)
FairSpec == Spec /\ \A h \in Handlers : WF_vars(Handle(h))

-----------------------------------------------------------------------------
(* Properties of every interleaving                                        *)

AtLeast(row, step) == Index[row.step] >= Index[step]

(* Every variable holds what its column, or its local, may hold.           *)
TypeOK ==
    /\ attempts \in [Attempts -> AttemptRow \cup {NoAttempt}]
    /\ users \in [Mobiles -> User \cup {NoUser}]
    /\ devices \in [Devices -> Device \cup {NoDevice}]
    /\ mpins \subseteq Mobiles /\ verified \subseteq Attempts
    /\ pc \in [Handlers -> Pcs]
    /\ task \in [Handlers -> Tasks]
    /\ entity \in [Handlers -> AttemptRow \cup {NoAttempt}]
    /\ cols \in [Handlers -> SUBSET {"mobile", "step", "user", "device",
                                     "reason", "deleted"}]
    /\ error \in [Handlers -> {"USER_EXISTS", "FAILED", Null}]
    /\ {faults, crashes} \subseteq Nat

Provisioned(m, a) ==
    /\ users[m] # NoUser
    /\ users[m].by = a /\ users[m].password /\ users[m].role

(* An attempt shows a step only after what the step stands for has been    *)
(* done for that attempt: its OTP accepted, its Keycloak user created with *)
(* password and role, a device stored (the awaits before each `advance`).  *)
EffectsOf(a, row) ==
    /\ AtLeast(row, "OTP_VERIFIED") => a \in verified
    /\ AtLeast(row, "KEYCLOAK_USER_CREATED") => Provisioned(row.mobile, a)
    /\ AtLeast(row, "DEVICE_REGISTERED") =>
          \E d \in Devices : devices[d] # NoDevice /\ devices[d].by = a

EffectsPrecedeSteps ==
    \A a \in Attempts : attempts[a] # NoAttempt => EffectsOf(a, attempts[a])

(* The Keycloak user and the device an attempt names are the ones created  *)
(* for it, so what a rollback undoes is the attempt's own ("the exact      *)
(* device profile row this attempt created", registration-attempt.entity). *)
Owns(a, row) ==
    /\ row.user # Null => row.user = row.mobile /\ Provisioned(row.mobile, a)
    /\ row.device # Null =>
          devices[row.device] # NoDevice /\ devices[row.device].by = a

OwnRecords == \A a \in Attempts : attempts[a] # NoAttempt => Owns(a, attempts[a])

-----------------------------------------------------------------------------
(* Properties of requests handled one at a time                            *)

(* "Persists a forward-only step transition": advance, fail and the saves  *)
(* in between never take an attempt back.                                  *)
ForwardOnly ==
    [][\A a \in Attempts : attempts[a] # NoAttempt =>
          Index[attempts'[a].step] >= Index[attempts[a].step]]_vars

(* From KEYCLOAK_USER_CREATED on an attempt knows its user, without which  *)
(* register-device refuses it; from DEVICE_REGISTERED on it knows a device *)
(* that no rollback has revoked.                                           *)
StepHasRecords ==
    \A a \in Attempts : attempts[a] # NoAttempt =>
        /\ AtLeast(attempts[a], "KEYCLOAK_USER_CREATED") => attempts[a].user # Null
        /\ AtLeast(attempts[a], "DEVICE_REGISTERED") =>
              attempts[a].device # Null /\ devices[attempts[a].device].live

(* A rollback takes the MPIN only of a customer whose own registration has *)
(* not got past CREDENTIALS_SET.                                           *)
MpinKept ==
    [][\A m \in mpins \ mpins' :
          attempts[users[m].by].step = "CREDENTIALS_SET"]_vars

(* Unless something fails, an attempt does not stay at CREDENTIALS_SET but *)
(* where another attempt has registered the mobile number.                 *)
Settled(a) ==
    /\ attempts[a] # NoAttempt
    /\ \/ faults + crashes > 0
       \/ AtLeast(attempts[a], "KEYCLOAK_USER_CREATED")
       \/ /\ users[attempts[a].mobile] # NoUser
          /\ users[attempts[a].mobile].by # a

CredentialsSettle ==
    \A a \in Attempts :
        attempts[a] # NoAttempt /\ attempts[a].step = "CREDENTIALS_SET" ~> Settled(a)

-----------------------------------------------------------------------------
(* What the service's documents say and the code does not keep up          *)

(* "Calling this again is exactly how you retry": create-credentials is    *)
(* not refused because of the Keycloak user an earlier call created for    *)
(* the same attempt.                                                       *)
OwnUserIsNoObstacle ==
    \A h \in Handlers : error[h] = "USER_EXISTS" =>
        users[attempts[Mine(h)].mobile].by # Mine(h)

-----------------------------------------------------------------------------
(* Why EffectsPrecedeSteps and OwnRecords hold: what a handler knows       *)

(* A handler that is at work works on a row there is, ...                  *)
HasRow(h) == pc[h] # "idle" => /\ Mine(h) \in Attempts
                               /\ attempts[Mine(h)] # NoAttempt

(* ... for one of the operations, heading for that operation's step;       *)
Heading(h) ==
    /\ pc[h] = "otp" => task[h].op = "verifyOtp"
    /\ pc[h] \in {"createUser", "setPassword", "assignRole", "clearMpin"} =>
          task[h].op = "createCredentials"
    /\ pc[h] \in {"insertDevice", "revoke"} => task[h].op = "registerDevice"
    /\ pc[h] = "record" => task[h].op \in {"createCredentials", "registerDevice"}
    /\ pc[h] \in {"setPassword", "assignRole", "record"} =>
          task[h].to \in {"KEYCLOAK_USER_CREATED", "DEVICE_REGISTERED"}
    /\ task[h].op = "verifyOtp" => task[h].to = "OTP_VERIFIED"
    /\ task[h].op = "createCredentials" =>
          task[h].to \in {"CREDENTIALS_SET", "KEYCLOAK_USER_CREATED"}
    /\ task[h].op = "registerDevice" => task[h].to = "DEVICE_REGISTERED"
    /\ task[h].op = "complete" => task[h].to = "COMPLETED"
    /\ pc[h] = "advance" => task[h].op \notin {"delete", Null}
    /\ task[h].next = "createUser" => task[h].op = "createCredentials"
    /\ task[h].next = "advance" => task[h].op \in {"createCredentials", "registerDevice"}

(* what it is about to claim has been done;                                *)
Claims(h) == \/ pc[h] \in {"record", "advance"}
             \/ pc[h] \in {"reload", "write"} /\ task[h].next = "advance"

Done(h) ==
    /\ pc[h] \in {"setPassword", "assignRole"} =>
          /\ users[attempts[Mine(h)].mobile] # NoUser
          /\ users[attempts[Mine(h)].mobile].by = Mine(h)
    /\ pc[h] = "assignRole" => users[attempts[Mine(h)].mobile].password
    /\ Claims(h) /\ task[h].to = "OTP_VERIFIED" => Mine(h) \in verified
    /\ Claims(h) /\ task[h].to = "KEYCLOAK_USER_CREATED" =>
          Provisioned(attempts[Mine(h)].mobile, Mine(h))
    /\ (Claims(h) /\ task[h].to = "DEVICE_REGISTERED") \/ pc[h] = "revoke" =>
          /\ task[h].device # Null
          /\ devices[task[h].device] # NoDevice
          /\ devices[task[h].device].by = Mine(h)

(* and the copy it saves claims no more than that.                         *)
Copy(h) ==
    pc[h] \in {"reload", "write"} =>
        /\ entity[h] # NoAttempt
        /\ entity[h].mobile = attempts[Mine(h)].mobile
        /\ EffectsOf(Mine(h), entity[h])
        /\ Owns(Mine(h), entity[h])

(* The inductive invariant (the handlers' steps between awaits).           *)
IInv ==
    /\ TypeOK
    /\ \A h \in Handlers : HasRow(h) /\ Heading(h) /\ Done(h) /\ Copy(h)
    /\ EffectsPrecedeSteps /\ OwnRecords

=============================================================================
