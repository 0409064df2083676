------------------------- MODULE RegistrationProofs ------------------------
EXTENDS Registration, TLAPS

(* The UPDATE of a save leaves an attempt whose every column is the row's  *)
(* or the saved copy's.                                                    *)
LEMMA PatchAttempt ==
  ASSUME NEW row \in AttemptRow, NEW copy \in AttemptRow, NEW columns
  PROVE  /\ Patch(row, copy, columns) \in AttemptRow
         /\ Patch(row, copy, columns).step \in {row.step, copy.step}
         /\ Patch(row, copy, columns).user \in {row.user, copy.user}
         /\ Patch(row, copy, columns).device \in {row.device, copy.device}
         /\ row.mobile = copy.mobile =>
               Patch(row, copy, columns).mobile = row.mobile
  BY DEF Patch, AttemptRow

(* The columns a save finds changed are columns of the attempt.            *)
LEMMA DiffAttempt ==
  ASSUME NEW row \in AttemptRow, NEW copy
  PROVE  Diff(copy, row) \in SUBSET {"mobile", "step", "user", "device",
                                     "reason", "deleted"}
  BY DEF Diff, AttemptRow

-----------------------------------------------------------------------------
(* Types                                                                   *)

LocalTypes ==
    /\ pc \in [Handlers -> Pcs]
    /\ task \in [Handlers -> Tasks]
    /\ entity \in [Handlers -> AttemptRow \cup {NoAttempt}]
    /\ cols \in [Handlers -> SUBSET {"mobile", "step", "user", "device",
                                     "reason", "deleted"}]
    /\ error \in [Handlers -> {"USER_EXISTS", "FAILED", Null}]

StoreTypes ==
    /\ attempts \in [Attempts -> AttemptRow \cup {NoAttempt}]
    /\ users \in [Mobiles -> User \cup {NoUser}]
    /\ devices \in [Devices -> Device \cup {NoDevice}]
    /\ mpins \subseteq Mobiles /\ verified \subseteq Attempts

(* The type invariant, in three parts.                                     *)
LEMMA TypeParts ==
  TypeOK <=> LocalTypes /\ StoreTypes /\ {faults, crashes} \subseteq Nat
  BY DEF TypeOK, LocalTypes, StoreTypes

(* Well-typed parts make a well-typed next state.                          *)
LEMMA TypePartsNext ==
  ASSUME LocalTypes', StoreTypes', {faults', crashes'} \subseteq Nat
  PROVE  TypeOK'
  BY DEF TypeOK, LocalTypes, StoreTypes

(* An empty service is well-typed.                                         *)
LEMMA InitType == Init => TypeOK
  BY DEF Init, TypeOK, Pcs, Tasks, NoTask

(* A handler that ends, and one whose catch block takes over, have         *)
(* well-typed locals.                                                      *)
LEMMA EndType ==
  ASSUME LocalTypes, NEW h \in Handlers,
         Finish(h) \/ Throw(h, "FAILED") \/ Throw(h, "USER_EXISTS")
  PROVE  LocalTypes'
  <1>1. CASE Finish(h)
    BY <1>1 DEF Finish, Goto, LocalTypes, Pcs, Tasks, NoTask
  <1>2. CASE Throw(h, "FAILED") \/ Throw(h, "USER_EXISTS")
    BY <1>2 DEF Throw, Goto, LocalTypes, Pcs
  <1>3. QED BY <1>1, <1>2

(* So has a handler that begins, ...                                       *)
LEMMA BeginType ==
  ASSUME LocalTypes, NEW h \in Handlers, NEW op \in Ops, NEW a \in Attempts,
         NEW to \in Steps \cup {Null}, NEW p \in Pcs, Begin(h, op, a, to, p)
  PROVE  LocalTypes'
  BY DEF Begin, Goto, LocalTypes, Tasks

(* ... and one that starts to save a copy.                                 *)
LEMMA SaveType ==
  ASSUME LocalTypes, NEW h \in Handlers, NEW copy \in AttemptRow,
         NEW next \in {"idle", "createUser", "advance", "rollback"},
         Save(h, copy, next)
  PROVE  LocalTypes'
  <1>1. task' \in [Handlers -> Tasks]
    BY DEF Save, LocalTypes, Tasks
  <1>2. QED BY <1>1 DEF Save, Goto, LocalTypes, Pcs

(* A handler that is at work works on a row of its own attempt.            *)
LEMMA WorkingRow ==
  ASSUME TypeOK, NEW h \in Handlers, HasRow(h), pc[h] # "idle"
  PROVE  /\ Mine(h) \in Attempts
         /\ attempts[Mine(h)] \in AttemptRow
         /\ attempts[Mine(h)].mobile \in Mobiles
  BY DEF TypeOK, HasRow, AttemptRow

(* The entry points of the five operations, and of the delete.             *)
LEMMA ArriveType ==
  ASSUME TypeOK, NEW h \in Handlers, Arrive(h)
  PROVE  TypeOK'
  <1>1. PICK op \in Ops, a \in Attempts, to \in Steps \cup {Null}, p \in Pcs :
           Begin(h, op, a, to, p)
    BY DEF Arrive, VerifyOtp, CreateCredentials, RegisterDevice, Complete,
           SoftDelete, Ops, Steps, Pcs
  <1>2. LocalTypes'
    BY <1>1, BeginType, TypeParts
  <1>3. StoreTypes' /\ {faults', crashes'} \subseteq Nat
    BY <1>1, TypeParts DEF Begin, stores, bounds, StoreTypes
  <1>4. QED BY <1>2, <1>3, TypePartsNext

(* The handler's steps that change only its own locals.                    *)
LEMMA LocalStepType ==
  ASSUME TypeOK, NEW h \in Handlers, HasRow(h), Heading(h),
         \/ OtpRefused(h) \/ Advance(h) \/ Reload(h) \/ Record(h)
         \/ Fail(h) \/ Rollback(h)
  PROVE  TypeOK'
  <1> DEFINE row == attempts[Mine(h)]
  <1>0. LocalTypes /\ StoreTypes
    BY TypeParts
  <1>1. row \in AttemptRow /\ Mine(h) \in Attempts /\ task[h] \in Tasks
    BY WorkingRow DEF TypeOK, OtpRefused, Advance, Reload, Record, Fail, Rollback
  <1>2. LocalTypes'
    <2>1. CASE Finish(h) \/ Throw(h, "FAILED")
      BY <1>0, <2>1, EndType
    <2>2. CASE Advance(h) /\ ~Finish(h)
      <3>1. PICK next \in {"idle", "createUser"} :
               Save(h, [row EXCEPT !.step = task[h].to], next)
        BY <2>2 DEF Advance
      <3>2. task[h].to \in Steps
        BY <1>1, <2>2 DEF Advance, Heading, Tasks, Ops, Steps
      <3>3. [row EXCEPT !.step = task[h].to] \in AttemptRow
        BY <1>1, <3>2 DEF AttemptRow
      <3>4. QED BY <1>0, <3>1, <3>3, SaveType
    <2>3. CASE Reload(h)
      <3>1. Diff(entity[h], row) \in SUBSET {"mobile", "step", "user", "device",
                                             "reason", "deleted"}
        BY <1>1, DiffAttempt
      <3>2. QED BY <1>0, <2>3, <3>1 DEF Reload, Goto, LocalTypes, Pcs
    <2>4. CASE Record(h) /\ ~Throw(h, "FAILED")
      <3>1. [row EXCEPT !.user = row.mobile] \in AttemptRow
        BY <1>1 DEF AttemptRow
      <3>2. [row EXCEPT !.device = task[h].device] \in AttemptRow
        BY <1>1 DEF AttemptRow, Tasks
      <3>3. QED BY <1>0, <2>4, <3>1, <3>2, SaveType DEF Record
    <2>5. CASE Fail(h)
      <3>1. error[h] \in {"USER_EXISTS", "FAILED", Null}
        BY <1>0 DEF LocalTypes
      <3>2. Compensated(row, error[h]) \in AttemptRow
        BY <1>1, <3>1 DEF AttemptRow, Compensated
      <3>3. CASE Save(h, Compensated(row, error[h]), "rollback")
        BY <1>0, <3>2, <3>3, SaveType
      <3>4. CASE Goto(h, "rollback") /\ UNCHANGED <<task, entity, cols, error>>
        BY <1>0, <3>4 DEF Goto, LocalTypes, Pcs
      <3>5. QED BY <2>5, <3>3, <3>4 DEF Fail
    <2>6. CASE Rollback(h) /\ ~Finish(h)
      BY <1>0, <1>1, <2>6
         DEF Rollback, RevokesDevice, Goto, LocalTypes, Pcs, Tasks, AttemptRow
    <2>7. QED BY <2>1, <2>2, <2>3, <2>4, <2>5, <2>6 DEF OtpRefused
  <1>3. UNCHANGED <<stores, bounds>>
    BY DEF OtpRefused, Advance, Reload, Record, Fail, Rollback
  <1>4. StoreTypes' /\ {faults', crashes'} \subseteq Nat
    BY <1>0, <1>3, TypeParts DEF stores, bounds, StoreTypes
  <1>5. QED BY <1>2, <1>4, TypePartsNext

(* The handler's steps that write to a table or to Keycloak.               *)
LEMMA StoreStepType ==
  ASSUME TypeOK, NEW h \in Handlers, HasRow(h), Done(h), Copy(h),
         \/ OtpAccepted(h) \/ CreateUser(h) \/ SetPassword(h) \/ AssignRole(h)
         \/ InsertDevice(h) \/ Write(h) \/ Delete(h) \/ Revoke(h) \/ ClearMpin(h)
  PROVE  TypeOK'
  <1> DEFINE a == Mine(h)
             m == attempts[a].mobile
  <1>0. LocalTypes /\ StoreTypes
    BY TypeParts
  <1>1. /\ a \in Attempts /\ attempts[a] \in AttemptRow /\ m \in Mobiles
        /\ task[h] \in Tasks
    BY WorkingRow DEF TypeOK, OtpAccepted, CreateUser, SetPassword, AssignRole,
       InsertDevice, Write, Delete, Revoke, ClearMpin
  <1>2. CASE OtpAccepted(h)
    BY <1>1, <1>2 DEF OtpAccepted, TypeOK, Goto, Pcs, bounds
  <1>3. CASE CreateUser(h)
    <2>1. CASE Throw(h, "USER_EXISTS") /\ UNCHANGED users
      BY <1>0, <1>3, <2>1, EndType, TypePartsNext
         DEF CreateUser, StoreTypes, TypeOK, bounds
    <2>2. CASE ~(Throw(h, "USER_EXISTS") /\ UNCHANGED users)
      <3>1. [by |-> a, password |-> FALSE, role |-> FALSE] \in User
        BY <1>1 DEF User
      <3>2. users' \in [Mobiles -> User \cup {NoUser}]
        BY <1>0, <1>3, <2>2, <3>1 DEF CreateUser, StoreTypes
      <3>3. task' \in [Handlers -> Tasks]
        <4>1. /\ task \in [Handlers -> Tasks]
              /\ task' = [task EXCEPT ![h].to = "KEYCLOAK_USER_CREATED"]
          BY <1>0, <1>3, <2>2 DEF CreateUser, LocalTypes
        <4>2. [task[h] EXCEPT !.to = "KEYCLOAK_USER_CREATED"] \in Tasks
          <5>1. task[h] \in Tasks
            BY <4>1
          <5>2. QED BY <5>1 DEF Tasks, Steps
        <4>3. QED BY <4>1, <4>2
      <3>4. QED BY <1>3, <2>2, <3>2, <3>3 DEF CreateUser, TypeOK, Goto, Pcs, bounds
    <2>3. QED BY <2>1, <2>2
  <1>4. CASE SetPassword(h) \/ AssignRole(h)
    <2>1. users[m] \in User
      BY <1>0, <1>1, <1>4 DEF Done, SetPassword, AssignRole, StoreTypes
    <2>2. /\ [users[m] EXCEPT !.password = TRUE] \in User
          /\ [users[m] EXCEPT !.role = TRUE] \in User
      BY <2>1 DEF User
    <2>3. users' \in [Mobiles -> User \cup {NoUser}]
      BY <1>0, <1>4, <2>2 DEF SetPassword, AssignRole, StoreTypes
    <2>4. QED BY <1>4, <2>3 DEF SetPassword, AssignRole, TypeOK, Goto, Pcs, bounds
  <1>5. CASE InsertDevice(h)
    <2>1. PICK d \in Devices :
            /\ devices' = [devices EXCEPT ![d] = [by |-> a, live |-> TRUE]]
            /\ task' = [task EXCEPT ![h].device = d]
      BY <1>5 DEF InsertDevice
    <2>2. devices' \in [Devices -> Device \cup {NoDevice}]
      BY <1>0, <1>1, <2>1 DEF StoreTypes, Device
    <2>3. task' \in [Handlers -> Tasks]
      BY <1>0, <2>1 DEF LocalTypes, Tasks
    <2>4. QED BY <1>5, <2>2, <2>3 DEF InsertDevice, TypeOK, Goto, Pcs, bounds
  <1>6. CASE Write(h)
    <2>1. entity[h] \in AttemptRow
      BY <1>0, <1>6 DEF Write, Copy, LocalTypes
    <2>2. attempts' \in [Attempts -> AttemptRow \cup {NoAttempt}]
      BY <1>0, <1>1, <1>6, <2>1, PatchAttempt DEF Write, StoreTypes
    <2>3. LocalTypes'
      <3>1. CASE Finish(h)
        BY <1>0, <3>1, EndType
      <3>2. CASE ~Finish(h)
        BY <1>0, <1>1, <1>6, <3>2 DEF Write, LocalTypes, Goto, Pcs, Tasks
      <3>3. QED BY <3>1, <3>2
    <2>4. QED BY <1>0, <1>6, <2>2, <2>3, TypePartsNext
              DEF Write, StoreTypes, TypeOK, bounds
  <1>7. CASE Delete(h)
    <2>1. [attempts[a] EXCEPT !.deleted = TRUE] \in AttemptRow
      BY <1>1 DEF AttemptRow
    <2>2. attempts' \in [Attempts -> AttemptRow \cup {NoAttempt}]
      BY <1>0, <1>1, <1>7, <2>1 DEF Delete, StoreTypes
    <2>3. QED BY <1>0, <1>7, <2>2, EndType, TypePartsNext
              DEF Delete, StoreTypes, TypeOK, bounds
  <1>8. CASE Revoke(h)
    <2>1. task[h].device \in Devices /\ devices[task[h].device] \in Device
      BY <1>0, <1>1, <1>8 DEF Revoke, Done, Tasks, StoreTypes
    <2>2. [devices[task[h].device] EXCEPT !.live = FALSE] \in Device
      BY <2>1 DEF Device
    <2>3. devices' \in [Devices -> Device \cup {NoDevice}]
      BY <1>0, <1>8, <2>1, <2>2 DEF Revoke, StoreTypes
    <2>4. QED BY <1>0, <1>8, <2>3, EndType, TypePartsNext
              DEF Revoke, StoreTypes, TypeOK, bounds
  <1>9. CASE ClearMpin(h)
    BY <1>0, <1>9, EndType, TypePartsNext
       DEF ClearMpin, StoreTypes, TypeOK, bounds
  <1>10. QED BY <1>2, <1>3, <1>4, <1>5, <1>6, <1>7, <1>8, <1>9

(* What happens to handlers from outside, and the writes of others.        *)
LEMMA OutsideType ==
  ASSUME TypeOK
  PROVE  /\ \A h \in Handlers : AwaitRejects(h) => TypeOK'
         /\ \A a \in Attempts : Create(a) => TypeOK'
         /\ \A m \in Mobiles : SetMpin(m) => TypeOK'
         /\ Crash => TypeOK'
  <1>0. LocalTypes /\ StoreTypes
    BY TypeParts
  <1>1. ASSUME NEW h \in Handlers, AwaitRejects(h) PROVE TypeOK'
    <2>1. LocalTypes'
      BY <1>0, <1>1, EndType DEF AwaitRejects
    <2>2. {faults', crashes'} \subseteq Nat
      BY <1>1 DEF AwaitRejects, TypeOK
    <2>3. QED BY <1>0, <1>1, <2>1, <2>2, TypePartsNext DEF AwaitRejects, StoreTypes, stores
  <1>2. ASSUME NEW a \in Attempts, Create(a) PROVE TypeOK'
    <2>1. attempts' \in [Attempts -> AttemptRow \cup {NoAttempt}]
      BY <1>2 DEF Create, TypeOK, AttemptRow, Steps
    <2>2. QED BY <1>2, <2>1 DEF Create, TypeOK, locals, bounds
  <1>3. ASSUME NEW m \in Mobiles, SetMpin(m) PROVE TypeOK'
    BY <1>3 DEF SetMpin, TypeOK, locals, bounds
  <1>4. ASSUME Crash PROVE TypeOK'
    BY <1>4 DEF Crash, TypeOK, stores, Pcs, Tasks, NoTask
  <1>5. QED BY <1>1, <1>2, <1>3, <1>4

-----------------------------------------------------------------------------
(* What no step undoes                                                     *)

(* Rows keep their mobile number, users and devices stay whose they are,   *)
(* an accepted OTP stays accepted.                                         *)
Grows ==
    /\ \A a \in Attempts : attempts[a] # NoAttempt =>
          /\ attempts'[a] # NoAttempt
          /\ attempts'[a].mobile = attempts[a].mobile
    /\ \A m \in Mobiles : users[m] # NoUser =>
          /\ users'[m] # NoUser
          /\ users'[m].by = users[m].by
          /\ users[m].password => users'[m].password
          /\ users[m].role => users'[m].role
    /\ \A d \in Devices : devices[d] # NoDevice =>
          devices'[d] # NoDevice /\ devices'[d].by = devices[d].by
    /\ verified \subseteq verified'

(* What the code knows of an attempt when it holds `row` of it, and what   *)
(* is true of that row after a step.                                       *)
Explained(a, row) == EffectsOf(a, row) /\ Owns(a, row)

ProvisionedNext(m, a) ==
    /\ users'[m] # NoUser
    /\ users'[m].by = a /\ users'[m].password /\ users'[m].role

ExplainedNext(a, row) ==
    /\ AtLeast(row, "OTP_VERIFIED") => a \in verified'
    /\ AtLeast(row, "KEYCLOAK_USER_CREATED") => ProvisionedNext(row.mobile, a)
    /\ AtLeast(row, "DEVICE_REGISTERED") =>
          \E d \in Devices : devices'[d] # NoDevice /\ devices'[d].by = a
    /\ row.user # Null => row.user = row.mobile /\ ProvisionedNext(row.mobile, a)
    /\ row.device # Null =>
          devices'[row.device] # NoDevice /\ devices'[row.device].by = a

Knows(h) == HasRow(h) /\ Heading(h) /\ Done(h) /\ Copy(h)

(* A step that is not g's leaves everything of g alone.                    *)
Untouched(g) == pc'[g] = pc[g] /\ task'[g] = task[g] /\ entity'[g] = entity[g]

(* What explains a row goes on explaining it.                              *)
LEMMA ExplainedStays ==
  ASSUME TypeOK, Grows, NEW a \in Attempts, NEW row \in AttemptRow, Explained(a, row)
  PROVE  ExplainedNext(a, row)
  <1>1. /\ row.mobile \in Mobiles
        /\ row.device # Null => row.device \in Devices
    BY DEF AttemptRow
  <1>2. Provisioned(row.mobile, a) => ProvisionedNext(row.mobile, a)
    BY <1>1 DEF Grows, Provisioned, ProvisionedNext
  <1>3. AtLeast(row, "DEVICE_REGISTERED") =>
          \E d \in Devices : devices'[d] # NoDevice /\ devices'[d].by = a
    BY DEF Grows, Explained, EffectsOf
  <1>4. row.device # Null => devices'[row.device] # NoDevice /\ devices'[row.device].by = a
    BY <1>1 DEF Grows, Explained, Owns
  <1>5. QED BY <1>1, <1>2, <1>3, <1>4 DEF Grows, Explained, ExplainedNext, EffectsOf, Owns

(* A mixture of two rows of an attempt that are both explained, as the     *)
(* save of a stale copy leaves it, is explained.                           *)
LEMMA MixtureExplained ==
  ASSUME NEW a \in Attempts, NEW row, NEW copy, NEW mix,
         ExplainedNext(a, row), ExplainedNext(a, copy),
         row.mobile = copy.mobile, mix.mobile = row.mobile,
         mix.step \in {row.step, copy.step},
         mix.user \in {row.user, copy.user},
         mix.device \in {row.device, copy.device}
  PROVE  ExplainedNext(a, mix)
  <1>1. CASE mix.step = row.step
    BY <1>1 DEF ExplainedNext, AtLeast
  <1>2. CASE mix.step = copy.step
    BY <1>2 DEF ExplainedNext, AtLeast
  <1>3. QED BY <1>1, <1>2

(* What a handler knows stays true while others run.                       *)
LEMMA KnowsStays ==
  ASSUME TypeOK, Grows, NEW g \in Handlers, Knows(g), Untouched(g)
  PROVE  Knows(g)'
  <1>1. HasRow(g)' /\ Heading(g)'
    BY DEF Knows, HasRow, Heading, Untouched, Grows, Mine
  <1>2. CASE pc[g] = "idle"
    BY <1>1, <1>2 DEF Knows, Untouched, Done, Copy, Claims, Mine
  <1>3. CASE pc[g] # "idle"
    <2> DEFINE a == Mine(g)
               m == attempts[a].mobile
    <2>1. /\ a \in Attempts /\ m \in Mobiles /\ attempts[a] # NoAttempt
          /\ Mine(g)' = a /\ attempts'[a].mobile = m
          /\ task[g] \in Tasks
      BY <1>3, WorkingRow DEF TypeOK, Knows, HasRow, Grows, Untouched, Mine
    <2>2. Claims(g)' <=> Claims(g)
      BY DEF Untouched, Claims
    <2>3. Provisioned(m, a) => Provisioned(attempts[Mine(g)].mobile, Mine(g))'
      BY <2>1 DEF Grows, Provisioned
    <2>4. Done(g)'
      <3>1. Done(g)
        BY DEF Knows
      <3>2. pc[g] \in {"setPassword", "assignRole"} =>
               users'[m] # NoUser /\ users'[m].by = a
        BY <2>1, <3>1 DEF Grows, Done
      <3>3. pc[g] = "assignRole" => users'[m].password
        BY <2>1, <3>1 DEF Grows, Done
      <3>4. Claims(g) /\ task[g].to = "OTP_VERIFIED" => a \in verified'
        BY <3>1 DEF Grows, Done
      <3>5. (Claims(g) /\ task[g].to = "DEVICE_REGISTERED") \/ pc[g] = "revoke" =>
               /\ task[g].device # Null
               /\ devices'[task[g].device] # NoDevice
               /\ devices'[task[g].device].by = a
        BY <2>1, <3>1 DEF Grows, Done, Tasks
      <3>6. QED BY <2>1, <2>2, <2>3, <3>1, <3>2, <3>3, <3>4, <3>5 DEF Done, Untouched
    <2>5. Copy(g)'
      <3>1. CASE pc[g] \notin {"reload", "write"}
        BY <3>1 DEF Copy, Untouched
      <3>2. CASE pc[g] \in {"reload", "write"}
        <4>1. /\ entity[g] \in AttemptRow /\ entity[g].mobile = m
              /\ Explained(a, entity[g])
          BY <3>2 DEF Knows, Copy, TypeOK, Explained
        <4>2. ExplainedNext(a, entity[g])
          BY <2>1, <4>1, ExplainedStays
        <4>3. QED BY <2>1, <4>1, <4>2, RegistrationAssumption
                  DEF Copy, Untouched, ExplainedNext, EffectsOf, Owns, AtLeast,
                      Provisioned, ProvisionedNext
      <3>3. QED BY <3>1, <3>2
    <2>6. QED BY <1>1, <2>4, <2>5 DEF Knows
  <1>4. QED BY <1>2, <1>3

(* The invariant of a step of one handler: what it knows itself, and that  *)
(* the rows it wrote are explained; the rest follows.                      *)
LEMMA Assemble ==
  ASSUME IInv, TypeOK', Grows, NEW h \in Handlers,
         \A g \in Handlers \ {h} : Untouched(g),
         Knows(h)',
         \A a \in Attempts : attempts'[a] # NoAttempt =>
             attempts'[a] = attempts[a] \/ ExplainedNext(a, attempts'[a])
  PROVE  IInv'
  <1>1. ASSUME NEW g \in Handlers PROVE Knows(g)'
    <2>1. Knows(g)
      BY DEF IInv, Knows
    <2>2. QED BY <2>1, KnowsStays DEF IInv
  <1>2. ASSUME NEW a \in Attempts, attempts'[a] # NoAttempt
        PROVE  ExplainedNext(a, attempts'[a])
    <2>1. CASE attempts'[a] = attempts[a]
      <3>1. attempts[a] \in AttemptRow /\ Explained(a, attempts[a])
        BY <1>2, <2>1 DEF IInv, TypeOK, EffectsPrecedeSteps, OwnRecords, Explained
      <3>2. ExplainedNext(a, attempts[a])
        BY <3>1, ExplainedStays DEF IInv
      <3>3. QED BY <2>1, <3>2
    <2>2. QED BY <1>2, <2>1
  <1>3. EffectsPrecedeSteps' /\ OwnRecords'
    BY <1>2 DEF EffectsPrecedeSteps, OwnRecords, ExplainedNext, EffectsOf, Owns,
                AtLeast, Provisioned, ProvisionedNext
  <1>4. QED BY <1>1, <1>3 DEF IInv, Knows

(* A step that writes to no table grows them.                              *)
LEMMA QuietGrows ==
  ASSUME UNCHANGED <<attempts, users, devices, verified>>
  PROVE  Grows
  BY DEF Grows

(* A step of h leaves the other handlers alone.                            *)
LEMMA OthersUntouched ==
  ASSUME TypeOK, NEW h \in Handlers,
         Arrive(h) \/ Handle(h) \/ AwaitRejects(h)
  PROVE  \A g \in Handlers \ {h} : Untouched(g)
  <1>1. CASE Arrive(h)
    BY <1>1 DEF Arrive, VerifyOtp, CreateCredentials, RegisterDevice, Complete,
                SoftDelete, Begin, Goto, Untouched, TypeOK
  <1>2. CASE Finish(h) \/ Throw(h, "FAILED") \/ Throw(h, "USER_EXISTS")
    BY <1>2 DEF Finish, Throw, Goto, Untouched, TypeOK
  <1>3. CASE \E copy, next : Save(h, copy, next)
    BY <1>3 DEF Save, Goto, Untouched, TypeOK
  <1>4. CASE Handle(h)
    <2>1. CASE OtpAccepted(h) \/ OtpRefused(h) \/ Reload(h) \/ Write(h)
      BY <1>2, <2>1 DEF OtpAccepted, OtpRefused, Reload, Write, Goto, Untouched, TypeOK
    <2>2. CASE Advance(h) \/ Record(h) \/ Fail(h)
      BY <1>2, <1>3, <2>2 DEF Advance, Record, Fail, Goto, Untouched, TypeOK
    <2>3. CASE CreateUser(h) \/ SetPassword(h) \/ AssignRole(h) \/ InsertDevice(h)
      BY <1>2, <2>3 DEF CreateUser, SetPassword, AssignRole, InsertDevice, Goto,
                        Untouched, TypeOK
    <2>4. CASE Delete(h) \/ Rollback(h) \/ Revoke(h) \/ ClearMpin(h)
      BY <1>2, <2>4 DEF Delete, Rollback, Revoke, ClearMpin, Goto, Untouched, TypeOK
    <2>5. QED BY <1>4, <2>1, <2>2, <2>3, <2>4 DEF Handle
  <1>5. CASE AwaitRejects(h)
    BY <1>2, <1>5 DEF AwaitRejects
  <1>6. QED BY <1>1, <1>4, <1>5

-----------------------------------------------------------------------------
(* What a handler knows after each of its own steps                        *)

(* Nothing, once it has answered.                                          *)
LEMMA FinishKnows ==
  ASSUME TypeOK, NEW h \in Handlers, Finish(h)
  PROVE  Knows(h)'
  <1>1. pc'[h] = "idle" /\ task'[h] = NoTask
    BY DEF TypeOK, Finish, Goto
  <1>2. QED BY <1>1, RegistrationAssumption
            DEF Knows, HasRow, Heading, Done, Copy, Claims, NoTask, Ops

(* Its attempt and its operation, when it starts.                          *)
LEMMA ArriveKnows ==
  ASSUME IInv, NEW h \in Handlers, Arrive(h)
  PROVE  Knows(h)'
  <1>1. PICK a \in Attempts : \/ VerifyOtp(h, a) \/ CreateCredentials(h, a)
                              \/ RegisterDevice(h, a) \/ Complete(h, a)
                              \/ SoftDelete(h, a)
    BY DEF Arrive
  <1>2. PICK op, to, p :
           /\ Begin(h, op, a, to, p)
           /\ <<op, to, p>> \in {<<"verifyOtp", "OTP_VERIFIED", "otp">>,
                 <<"createCredentials", "CREDENTIALS_SET", "advance">>,
                 <<"createCredentials", "KEYCLOAK_USER_CREATED", "createUser">>,
                 <<"registerDevice", "DEVICE_REGISTERED", "insertDevice">>,
                 <<"complete", "COMPLETED", "advance">>,
                 <<"delete", Null, "delete">>}
    BY <1>1 DEF VerifyOtp, CreateCredentials, RegisterDevice, Complete, SoftDelete
  <1>3. /\ pc'[h] = p /\ task'[h].attempt = a /\ task'[h].op = op /\ task'[h].to = to
        /\ task'[h].next = "idle"
        /\ attempts' = attempts /\ attempts[a] # NoAttempt
    BY <1>2 DEF Begin, Goto, Live, stores, IInv, TypeOK
  <1>4. HasRow(h)' /\ Heading(h)'
    BY <1>2, <1>3, RegistrationAssumption DEF HasRow, Heading, Mine, Ops, Steps
  <1>5. Done(h)' /\ Copy(h)'
    BY <1>2, <1>3 DEF Done, Copy, Claims
  <1>6. QED BY <1>4, <1>5 DEF Knows

(* Which attempt it works on, when its catch block takes over.             *)
LEMMA ThrowKnows ==
  ASSUME IInv, Grows, NEW h \in Handlers, pc[h] # "idle", NEW e, Throw(h, e)
  PROVE  Knows(h)'
  <1>1. pc'[h] = "fail" /\ task' = task
    BY DEF IInv, TypeOK, Throw, Goto
  <1>2. HasRow(h)' /\ Heading(h)'
    BY <1>1 DEF IInv, HasRow, Heading, Mine, Grows
  <1>3. Done(h)' /\ Copy(h)'
    BY <1>1 DEF Done, Copy, Claims
  <1>4. QED BY <1>2, <1>3 DEF Knows

(* That the copy it starts to save is explained; and what it claimed       *)
(* before the save, if it is to advance after it.                          *)
LEMMA SaveKnows ==
  ASSUME IInv, NEW h \in Handlers, pc[h] \notin {"idle", "otp"}, UNCHANGED stores,
         NEW copy \in AttemptRow, NEW next, Save(h, copy, next),
         copy.mobile = attempts[Mine(h)].mobile, Explained(Mine(h), copy),
         next = "advance" => pc[h] = "record",
         next = "createUser" => task[h].op = "createCredentials"
  PROVE  Knows(h)'
  <1>1. /\ pc'[h] = "reload" /\ entity'[h] = copy
        /\ task'[h].next = next /\ task'[h].to = task[h].to /\ task'[h].op = task[h].op
        /\ task'[h].attempt = task[h].attempt /\ task'[h].device = task[h].device
    BY DEF IInv, TypeOK, Save, Goto, Tasks
  <1>2. HasRow(h)' /\ Heading(h)'
    BY <1>1 DEF IInv, HasRow, Heading, Mine, stores
  <1>3. Done(h)'
    BY <1>1 DEF IInv, Done, Claims, Mine, stores, Provisioned
  <1>4. Copy(h)'
    BY <1>1, RegistrationAssumption
       DEF Copy, Mine, stores, Explained, EffectsOf, Owns, AtLeast, Provisioned
  <1>5. QED BY <1>2, <1>3, <1>4 DEF Knows

(* A row with its step moved on is explained by the effects of the step.   *)
LEMMA AdvanceExplained ==
  ASSUME IInv, NEW h \in Handlers, pc[h] = "advance",
         attempts[Mine(h)] # NoAttempt,
         Follows(attempts[Mine(h)].step, task[h].to)
  PROVE  /\ [attempts[Mine(h)] EXCEPT !.step = task[h].to] \in AttemptRow
         /\ Explained(Mine(h), [attempts[Mine(h)] EXCEPT !.step = task[h].to])
  <1> DEFINE row == attempts[Mine(h)]
             to  == task[h].to
             new == [row EXCEPT !.step = to]
  <1>1. Mine(h) \in Attempts /\ row \in AttemptRow /\ task[h] \in Tasks
    BY DEF IInv, HasRow, TypeOK
  <1>2. to \in Steps /\ to # "INIT"
    BY <1>1 DEF IInv, Heading, Tasks, Ops, Steps
  <1>3. new \in AttemptRow /\ new.step = to /\ new.mobile = row.mobile
        /\ new.user = row.user /\ new.device = row.device
    BY <1>1, <1>2 DEF AttemptRow
  <1>4. EffectsOf(Mine(h), row) /\ Owns(Mine(h), row)
    BY <1>1 DEF IInv, EffectsPrecedeSteps, OwnRecords
  <1>5. Index[to] = Index[row.step] + 1
    BY DEF Follows
  <1>6. Done(h) /\ Claims(h)
    BY DEF IInv, Claims
  <1>7. AtLeast(new, "OTP_VERIFIED") => Mine(h) \in verified
    BY <1>1, <1>2, <1>3, <1>4, <1>5, <1>6
       DEF AtLeast, Index, Steps, EffectsOf, Done, AttemptRow
  <1>8. AtLeast(new, "KEYCLOAK_USER_CREATED") => Provisioned(new.mobile, Mine(h))
    BY <1>1, <1>2, <1>3, <1>4, <1>5, <1>6
       DEF AtLeast, Index, Steps, EffectsOf, Done, AttemptRow
  <1>9. AtLeast(new, "DEVICE_REGISTERED") =>
           \E d \in Devices : devices[d] # NoDevice /\ devices[d].by = Mine(h)
    BY <1>1, <1>2, <1>3, <1>4, <1>5, <1>6
       DEF AtLeast, Index, Steps, EffectsOf, Done, AttemptRow, Tasks
  <1>10. Owns(Mine(h), new)
    BY <1>3, <1>4 DEF Owns
  <1>11. QED BY <1>3, <1>7, <1>8, <1>9, <1>10 DEF Explained, EffectsOf

(* orchestrator.advance.                                                   *)
LEMMA AdvanceStep ==
  ASSUME IInv, NEW h \in Handlers, Advance(h)
  PROVE  IInv'
  <1>1. UNCHANGED stores /\ pc[h] = "advance"
    BY DEF Advance
  <1>2. TypeOK' /\ Grows /\ \A g \in Handlers \ {h} : Untouched(g)
    BY <1>1, LocalStepType, QuietGrows, OthersUntouched DEF IInv, stores, Handle
  <1>3. CASE Finish(h)
    BY <1>1, <1>2, <1>3, FinishKnows, Assemble DEF IInv, stores
  <1>4. CASE ~Finish(h)
    <2> DEFINE new == [attempts[Mine(h)] EXCEPT !.step = task[h].to]
    <2>1. PICK next \in {"idle", "createUser"} :
             /\ Live(Mine(h)) /\ Follows(attempts[Mine(h)].step, task[h].to)
             /\ Save(h, new, next)
             /\ next = "createUser" => task[h].to = "CREDENTIALS_SET"
      BY <1>4 DEF Advance
    <2>0. next = "createUser" => task[h].op = "createCredentials"
      BY <1>1, <2>1 DEF IInv, Heading, TypeOK, Tasks, Ops
    <2>2. new \in AttemptRow /\ Explained(Mine(h), new)
      BY <1>1, <2>1, AdvanceExplained DEF Live
    <2>3. new.mobile = attempts[Mine(h)].mobile
      BY <1>1, <2>1 DEF IInv, HasRow, TypeOK, AttemptRow
    <2>4. Knows(h)'
      BY <1>1, <2>0, <2>1, <2>2, <2>3, SaveKnows
    <2>5. QED BY <1>1, <1>2, <2>4, Assemble DEF stores
  <1>5. QED BY <1>3, <1>4

(* The save of the id of what was created; an error where the attempt was  *)
(* deleted meanwhile.                                                      *)
LEMMA RecordStep ==
  ASSUME IInv, NEW h \in Handlers, Record(h)
  PROVE  IInv'
  <1> DEFINE row == attempts[Mine(h)]
  <1>1. UNCHANGED stores /\ pc[h] = "record"
    BY DEF Record
  <1>2. TypeOK' /\ Grows /\ \A g \in Handlers \ {h} : Untouched(g)
    BY <1>1, LocalStepType, QuietGrows, OthersUntouched DEF IInv, stores, Handle
  <1>3. CASE Throw(h, "FAILED")
    BY <1>1, <1>2, <1>3, ThrowKnows, Assemble DEF stores
  <1>4. CASE ~Throw(h, "FAILED")
    <2>1. /\ Mine(h) \in Attempts /\ row \in AttemptRow
          /\ task[h] \in Tasks /\ Claims(h)
      BY <1>1 DEF IInv, HasRow, TypeOK, Claims
    <2>2. EffectsOf(Mine(h), row) /\ Owns(Mine(h), row)
      BY <2>1, RegistrationAssumption DEF IInv, EffectsPrecedeSteps, OwnRecords
    <2>3. CASE /\ task[h].op = "createCredentials"
               /\ Save(h, [row EXCEPT !.user = row.mobile], "advance")
      <3> DEFINE new == [row EXCEPT !.user = row.mobile]
      <3>1. /\ new \in AttemptRow /\ new.mobile = row.mobile /\ new.step = row.step
            /\ new.user = row.mobile /\ new.device = row.device
        BY <2>1 DEF AttemptRow
      <3>2. Provisioned(row.mobile, Mine(h))
        BY <1>1, <2>1, <2>3 DEF IInv, Heading, Done
      <3>3. Explained(Mine(h), new)
        BY <2>2, <3>1, <3>2 DEF Explained, EffectsOf, Owns, AtLeast
      <3>4. Knows(h)'
        BY <1>1, <2>3, <3>1, <3>3, SaveKnows
      <3>5. QED BY <1>1, <1>2, <3>4, Assemble DEF stores
    <2>4. CASE /\ task[h].op = "registerDevice"
               /\ Save(h, [row EXCEPT !.device = task[h].device], "advance")
      <3> DEFINE new == [row EXCEPT !.device = task[h].device]
      <3>1. /\ new \in AttemptRow /\ new.mobile = row.mobile /\ new.step = row.step
            /\ new.user = row.user /\ new.device = task[h].device
        BY <2>1 DEF AttemptRow, Tasks
      <3>2. /\ devices[task[h].device] # NoDevice
            /\ devices[task[h].device].by = Mine(h)
        BY <1>1, <2>1, <2>4 DEF IInv, Heading, Done
      <3>3. Explained(Mine(h), new)
        BY <2>2, <3>1, <3>2 DEF Explained, EffectsOf, Owns, AtLeast
      <3>4. pc[h] \notin {"idle", "otp"} /\ "advance" # "createUser"
        BY <1>1
      <3>5. Knows(h)'
        BY <1>1, <2>4, <3>1, <3>3, <3>4, SaveKnows
      <3>6. QED BY <1>1, <1>2, <3>5, Assemble DEF stores
    <2>5. QED BY <1>4, <2>3, <2>4 DEF Record
  <1>5. QED BY <1>3, <1>4

(* orchestrator.fail saves what it read, with a reason.                    *)
LEMMA FailStep ==
  ASSUME IInv, NEW h \in Handlers, Fail(h)
  PROVE  IInv'
  <1> DEFINE row == attempts[Mine(h)]
             new == Compensated(row, error[h])
  <1>1. UNCHANGED stores /\ pc[h] = "fail"
    BY DEF Fail
  <1>2. TypeOK' /\ Grows /\ \A g \in Handlers \ {h} : Untouched(g)
    BY <1>1, LocalStepType, QuietGrows, OthersUntouched DEF IInv, stores, Handle
  <1>3. CASE Goto(h, "rollback") /\ UNCHANGED <<task, entity, cols, error>>
    <2>1. pc'[h] = "rollback"
      BY <1>3 DEF IInv, TypeOK, Goto
    <2>2. Knows(h)'
      BY <1>1, <1>3, <2>1
         DEF IInv, Knows, HasRow, Heading, Done, Copy, Claims, Mine, stores
    <2>3. QED BY <1>1, <1>2, <2>2, Assemble DEF stores
  <1>4. CASE Save(h, new, "rollback")
    <2>1. /\ Mine(h) \in Attempts /\ row \in AttemptRow
          /\ error[h] \in {"USER_EXISTS", "FAILED", Null}
      BY <1>1 DEF IInv, HasRow, TypeOK
    <2>2. /\ new \in AttemptRow /\ new.mobile = row.mobile /\ new.step = row.step
          /\ new.user = row.user /\ new.device = row.device
      BY <2>1 DEF AttemptRow, Compensated
    <2>3. Explained(Mine(h), new)
      BY <2>1, <2>2, RegistrationAssumption
         DEF IInv, EffectsPrecedeSteps, OwnRecords, Explained, EffectsOf, Owns, AtLeast
    <2>4. Knows(h)'
      BY <1>1, <1>4, <2>2, <2>3, SaveKnows
    <2>5. QED BY <1>1, <1>2, <2>4, Assemble DEF stores
  <1>5. QED BY <1>3, <1>4 DEF Fail

(* The re-read of a save.                                                  *)
LEMMA ReloadStep ==
  ASSUME IInv, NEW h \in Handlers, Reload(h)
  PROVE  IInv'
  <1>1. UNCHANGED stores /\ pc[h] = "reload" /\ pc'[h] = "write"
        /\ UNCHANGED <<task, entity>>
    BY DEF IInv, TypeOK, Reload, Goto
  <1>2. TypeOK' /\ Grows /\ \A g \in Handlers \ {h} : Untouched(g)
    BY <1>1, LocalStepType, QuietGrows, OthersUntouched DEF IInv, stores, Handle
  <1>3. HasRow(h)' /\ Heading(h)' /\ Done(h)'
    BY <1>1 DEF IInv, HasRow, Heading, Done, Claims, Mine, stores, Provisioned
  <1>4. Copy(h)'
    BY <1>1 DEF IInv, Copy, Mine, stores, EffectsOf, Owns, Provisioned, AtLeast
  <1>5. QED BY <1>1, <1>2, <1>3, <1>4, Assemble DEF stores, Knows

(* The UPDATE of a save: a mixture of the row and the copy.                *)
LEMMA WriteStep ==
  ASSUME IInv, NEW h \in Handlers, Write(h)
  PROVE  IInv'
  <1> DEFINE a == Mine(h)
             row == attempts[a]
             new == Patch(row, entity[h], cols[h])
  <1>1. pc[h] = "write"
    BY DEF Write
  <1>2. /\ a \in Attempts /\ row \in AttemptRow /\ entity[h] \in AttemptRow
        /\ entity[h].mobile = row.mobile /\ Explained(a, entity[h])
    BY <1>1 DEF IInv, HasRow, Copy, TypeOK, Explained
  <1>3. Explained(a, row)
    BY <1>2, RegistrationAssumption DEF IInv, EffectsPrecedeSteps, OwnRecords, Explained
  <1>4. /\ new \in AttemptRow /\ new.mobile = row.mobile
        /\ new.step \in {row.step, entity[h].step}
        /\ new.user \in {row.user, entity[h].user}
        /\ new.device \in {row.device, entity[h].device}
    BY <1>2, PatchAttempt
  <1>5. attempts' = [attempts EXCEPT ![a] = new]
    BY DEF Write
  <1>6. attempts'[a] = new /\ \A b \in Attempts \ {a} : attempts'[b] = attempts[b]
    BY <1>2, <1>5 DEF IInv, TypeOK
  <1>7. UNCHANGED <<users, devices, verified>>
    BY DEF Write
  <1>8. Grows
    <2>1. new # NoAttempt
      BY <1>4, RegistrationAssumption
    <2>2. QED BY <1>2, <1>4, <1>6, <1>7, <2>1 DEF Grows
  <1>9. ExplainedNext(a, new)
    <2>1. ExplainedNext(a, row) /\ ExplainedNext(a, entity[h])
      BY <1>2, <1>3, <1>8, ExplainedStays DEF IInv
    <2>2. QED BY <1>2, <1>4, <2>1, MixtureExplained
  <1>10. TypeOK' /\ \A g \in Handlers \ {h} : Untouched(g)
    BY StoreStepType, OthersUntouched DEF IInv, Handle
  <1>11. Knows(h)'
    <2>1. CASE Finish(h)
      BY <2>1, FinishKnows DEF IInv
    <2>2. CASE ~Finish(h)
      <3>1. /\ pc'[h] = task[h].next /\ UNCHANGED task
            /\ task[h].next \in {"createUser", "advance", "rollback"}
        BY <2>2 DEF Write, Goto, IInv, TypeOK, Tasks
      <3>2. HasRow(h)' /\ Heading(h)'
        BY <1>1, <1>8, <3>1, RegistrationAssumption
           DEF IInv, HasRow, Heading, Mine, Grows, Ops
      <3>3. Done(h)'
        <4>1. Claims(h)' => Claims(h)
          BY <1>1, <3>1 DEF Claims
        <4>2. attempts'[a].mobile = row.mobile /\ Mine(h)' = a
          BY <1>4, <1>6, <3>1 DEF Mine
        <4>3. QED BY <1>7, <3>1, <4>1, <4>2 DEF IInv, Done, Provisioned, Mine
      <3>4. Copy(h)'
        BY <3>1 DEF Copy
      <3>5. QED BY <3>2, <3>3, <3>4 DEF Knows
    <2>3. QED BY <2>1, <2>2
  <1>12. QED BY <1>6, <1>8, <1>9, <1>10, <1>11, Assemble

(* The arrival of a request.                                               *)
LEMMA ArriveStep ==
  ASSUME IInv, NEW h \in Handlers, Arrive(h)
  PROVE  IInv'
  <1>1. UNCHANGED stores
    BY DEF Arrive, VerifyOtp, CreateCredentials, RegisterDevice, Complete,
           SoftDelete, Begin
  <1>2. TypeOK' /\ Grows /\ \A g \in Handlers \ {h} : Untouched(g)
    BY <1>1, ArriveType, QuietGrows, OthersUntouched DEF IInv, stores
  <1>3. QED BY <1>1, <1>2, ArriveKnows, Assemble DEF stores

(* The outcome of otpService.verify.                                       *)
LEMMA OtpStep ==
  ASSUME IInv, NEW h \in Handlers, OtpAccepted(h) \/ OtpRefused(h)
  PROVE  IInv'
  <1>1. TypeOK' /\ \A g \in Handlers \ {h} : Untouched(g)
    BY LocalStepType, StoreStepType, OthersUntouched DEF IInv, Handle
  <1>2. CASE OtpRefused(h)
    <2>1. UNCHANGED stores /\ Finish(h)
      BY <1>2 DEF OtpRefused
    <2>2. Knows(h)' /\ Grows
      BY <2>1, FinishKnows, QuietGrows DEF IInv, stores
    <2>3. QED BY <1>1, <2>1, <2>2, Assemble DEF stores
  <1>3. CASE OtpAccepted(h)
    <2>1. /\ pc[h] = "otp" /\ pc'[h] = "advance" /\ UNCHANGED <<attempts, task, entity>>
          /\ verified' = verified \cup {Mine(h)} /\ UNCHANGED <<users, devices>>
      BY <1>3 DEF OtpAccepted, Goto, IInv, TypeOK
    <2>2. Grows
      BY <2>1 DEF Grows
    <2>3. HasRow(h)' /\ Heading(h)'
      BY <2>1, RegistrationAssumption DEF IInv, HasRow, Heading, Mine, Ops
    <2>4. Done(h)' /\ Copy(h)'
      BY <2>1 DEF IInv, Heading, Done, Copy, Claims, Mine
    <2>5. QED BY <1>1, <2>1, <2>2, <2>3, <2>4, Assemble DEF Knows
  <1>4. QED BY <1>2, <1>3

(* Keycloak creates the user for the attempt, or refuses the name.         *)
LEMMA CreateUserStep ==
  ASSUME IInv, NEW h \in Handlers, CreateUser(h)
  PROVE  IInv'
  <1> DEFINE a == Mine(h)
             m == attempts[a].mobile
  <1>1. TypeOK' /\ \A g \in Handlers \ {h} : Untouched(g)
    BY StoreStepType, OthersUntouched DEF IInv, Handle
  <1>2. pc[h] = "createUser" /\ UNCHANGED <<attempts, devices, mpins, verified>>
    BY DEF CreateUser
  <1>3. a \in Attempts /\ m \in Mobiles
    BY <1>2, WorkingRow DEF IInv
  <1>4. CASE Throw(h, "USER_EXISTS") /\ UNCHANGED users
    <2>1. Grows
      BY <1>2, <1>4, QuietGrows
    <2>2. QED BY <1>1, <1>2, <1>4, <2>1, ThrowKnows, Assemble
  <1>5. CASE ~(Throw(h, "USER_EXISTS") /\ UNCHANGED users)
    <2> DEFINE user == [by |-> a, password |-> FALSE, role |-> FALSE]
    <2>1. /\ users[m] = NoUser
          /\ users' = [users EXCEPT ![m] = user]
          /\ task' = [task EXCEPT ![h].to = "KEYCLOAK_USER_CREATED"]
          /\ Goto(h, "setPassword") /\ UNCHANGED entity
      BY <1>5 DEF CreateUser
    <2>2. Grows
      BY <1>2, <1>3, <2>1 DEF Grows, IInv, TypeOK
    <2>3. /\ pc'[h] = "setPassword" /\ task'[h].to = "KEYCLOAK_USER_CREATED"
          /\ task'[h].op = task[h].op /\ task'[h].attempt = task[h].attempt
          /\ task'[h].next = task[h].next
      BY <2>1 DEF Goto, IInv, TypeOK, Tasks
    <2>4. HasRow(h)' /\ Heading(h)'
      BY <1>2, <2>3 DEF IInv, HasRow, Heading, Mine
    <2>5. users'[m] = user /\ user.by = a /\ user # NoUser
      <3>1. user \in User
        BY <1>3 DEF User
      <3>2. QED BY <1>3, <2>1, <3>1, RegistrationAssumption DEF IInv, TypeOK
    <2>6. Done(h)' /\ Copy(h)'
      BY <1>2, <2>3, <2>5 DEF Done, Copy, Claims, Mine
    <2>7. QED BY <1>1, <1>2, <2>2, <2>4, <2>6, Assemble DEF Knows
  <1>6. QED BY <1>4, <1>5

(* The password and the role are given to the user this call created.      *)
LEMMA SetUserStep ==
  ASSUME IInv, NEW h \in Handlers, SetPassword(h) \/ AssignRole(h)
  PROVE  IInv'
  <1> DEFINE a == Mine(h)
             m == attempts[a].mobile
  <1>1. TypeOK' /\ \A g \in Handlers \ {h} : Untouched(g)
    BY StoreStepType, OthersUntouched DEF IInv, Handle
  <1>2. /\ pc[h] \in {"setPassword", "assignRole"}
        /\ UNCHANGED <<attempts, devices, mpins, verified, task, entity>>
    BY DEF SetPassword, AssignRole
  <1>3. /\ a \in Attempts /\ m \in Mobiles
        /\ users[m] \in User /\ users[m] # NoUser /\ users[m].by = a
    BY <1>2, WorkingRow DEF IInv, Done, TypeOK
  <1>4. CASE SetPassword(h)
    <2>1. /\ users' = [users EXCEPT ![m].password = TRUE]
          /\ pc[h] = "setPassword" /\ pc'[h] = "assignRole"
      BY <1>4 DEF SetPassword, Goto, IInv, TypeOK
    <2>2. /\ users'[m] = [users[m] EXCEPT !.password = TRUE]
          /\ \A n \in Mobiles \ {m} : users'[n] = users[n]
      BY <1>3, <2>1 DEF IInv, TypeOK
    <2>3. /\ users'[m].by = a /\ users'[m].password
          /\ users'[m].role = users[m].role /\ users'[m] # NoUser
      <3>1. [users[m] EXCEPT !.password = TRUE] \in User
        BY <1>3 DEF User
      <3>2. QED BY <1>3, <2>2, <3>1, RegistrationAssumption DEF User
    <2>4. Grows
      BY <1>2, <1>3, <2>2, <2>3 DEF Grows
    <2>5. HasRow(h)' /\ Heading(h)'
      BY <1>2, <2>1 DEF IInv, HasRow, Heading, Mine
    <2>6. Done(h)' /\ Copy(h)'
      BY <1>2, <2>1, <2>3 DEF Done, Copy, Claims, Mine
    <2>7. QED BY <1>1, <1>2, <2>4, <2>5, <2>6, Assemble DEF Knows
  <1>5. CASE AssignRole(h)
    <2>1. /\ users' = [users EXCEPT ![m].role = TRUE]
          /\ pc[h] = "assignRole" /\ pc'[h] = "record"
      BY <1>5 DEF AssignRole, Goto, IInv, TypeOK
    <2>2. /\ users'[m] = [users[m] EXCEPT !.role = TRUE]
          /\ \A n \in Mobiles \ {m} : users'[n] = users[n]
      BY <1>3, <2>1 DEF IInv, TypeOK
    <2>3. /\ users'[m].by = a /\ users'[m].role
          /\ users'[m].password = users[m].password /\ users'[m] # NoUser
      <3>1. [users[m] EXCEPT !.role = TRUE] \in User
        BY <1>3 DEF User
      <3>2. QED BY <1>3, <2>2, <3>1, RegistrationAssumption DEF User
    <2>4. Grows
      BY <1>2, <1>3, <2>2, <2>3 DEF Grows
    <2>5. HasRow(h)' /\ Heading(h)'
      BY <1>2, <2>1 DEF IInv, HasRow, Heading, Mine
    <2>6. users[m].password
      BY <2>1 DEF IInv, Done
    <2>7. task[h].to = "KEYCLOAK_USER_CREATED"
      BY <2>1 DEF IInv, Heading
    <2>8. Done(h)' /\ Copy(h)'
      BY <1>2, <2>1, <2>3, <2>6, <2>7 DEF Done, Copy, Claims, Mine, Provisioned
    <2>9. QED BY <1>1, <1>2, <2>4, <2>5, <2>8, Assemble DEF Knows
  <1>6. QED BY <1>4, <1>5

(* A device row is inserted for the attempt.                               *)
LEMMA InsertDeviceStep ==
  ASSUME IInv, NEW h \in Handlers, InsertDevice(h)
  PROVE  IInv'
  <1> DEFINE a == Mine(h)
  <1>1. TypeOK' /\ \A g \in Handlers \ {h} : Untouched(g)
    BY StoreStepType, OthersUntouched DEF IInv, Handle
  <1>2. /\ pc[h] = "insertDevice" /\ pc'[h] = "record"
        /\ UNCHANGED <<attempts, users, mpins, verified, entity>>
    BY DEF InsertDevice, Goto, IInv, TypeOK
  <1>3. PICK d \in Devices :
          /\ devices[d] = NoDevice
          /\ devices' = [devices EXCEPT ![d] = [by |-> a, live |-> TRUE]]
          /\ task' = [task EXCEPT ![h].device = d]
    BY DEF InsertDevice
  <1>4. a \in Attempts
    BY <1>2 DEF IInv, HasRow
  <1>5. devices'[d] # NoDevice /\ devices'[d].by = a
    <2>1. [by |-> a, live |-> TRUE] \in Device
      BY <1>4 DEF Device
    <2>2. QED BY <1>3, <2>1, RegistrationAssumption DEF IInv, TypeOK
  <1>6. Grows
    BY <1>2, <1>3 DEF Grows, IInv, TypeOK
  <1>7. /\ task'[h].device = d /\ task'[h].op = task[h].op /\ task'[h].to = task[h].to
        /\ task'[h].attempt = task[h].attempt /\ task'[h].next = task[h].next
    BY <1>3 DEF IInv, TypeOK, Tasks
  <1>8. task[h].op = "registerDevice" /\ task[h].to = "DEVICE_REGISTERED"
    BY <1>2 DEF IInv, Heading
  <1>9. HasRow(h)' /\ Heading(h)'
    BY <1>2, <1>7, <1>8 DEF IInv, HasRow, Heading, Mine
  <1>10. d # Null
    BY RegistrationAssumption
  <1>11. Done(h)' /\ Copy(h)'
    BY <1>2, <1>5, <1>7, <1>8, <1>10 DEF Done, Copy, Claims, Mine
  <1>12. QED BY <1>1, <1>2, <1>6, <1>9, <1>11, Assemble DEF Knows

(* The delete of the admin portal.                                         *)
LEMMA DeleteStep ==
  ASSUME IInv, NEW h \in Handlers, Delete(h)
  PROVE  IInv'
  <1> DEFINE a == Mine(h)
             row == attempts[a]
             new == [row EXCEPT !.deleted = TRUE]
  <1>1. TypeOK' /\ \A g \in Handlers \ {h} : Untouched(g)
    BY StoreStepType, OthersUntouched DEF IInv, Handle
  <1>2. /\ pc[h] = "delete" /\ Finish(h) /\ UNCHANGED <<users, devices, verified>>
        /\ attempts' = [attempts EXCEPT ![a] = new]
    BY DEF Delete
  <1>3. a \in Attempts /\ row \in AttemptRow
    BY <1>2, WorkingRow DEF IInv
  <1>4. /\ new \in AttemptRow /\ new.mobile = row.mobile /\ new.step = row.step
        /\ new.user = row.user /\ new.device = row.device
    BY <1>3 DEF AttemptRow
  <1>5. attempts'[a] = new /\ \A b \in Attempts \ {a} : attempts'[b] = attempts[b]
    BY <1>2, <1>3 DEF IInv, TypeOK
  <1>6. Grows
    BY <1>2, <1>4, <1>5, RegistrationAssumption DEF Grows
  <1>7. ExplainedNext(a, new)
    <2>1. Explained(a, row)
      BY <1>3, RegistrationAssumption DEF IInv, EffectsPrecedeSteps, OwnRecords, Explained
    <2>2. ExplainedNext(a, row)
      BY <1>3, <1>6, <2>1, ExplainedStays DEF IInv
    <2>3. QED BY <1>4, <2>2 DEF ExplainedNext, AtLeast
  <1>8. Knows(h)'
    BY <1>2, FinishKnows DEF IInv
  <1>9. QED BY <1>1, <1>5, <1>6, <1>7, <1>8, Assemble

(* What a failed step takes back: the device becomes unusable, the MPIN is *)
(* cleared; both rows stay whose they were.                                *)
LEMMA CompensateStep ==
  ASSUME IInv, NEW h \in Handlers, Rollback(h) \/ Revoke(h) \/ ClearMpin(h)
  PROVE  IInv'
  <1>1. TypeOK' /\ \A g \in Handlers \ {h} : Untouched(g)
    BY LocalStepType, StoreStepType, OthersUntouched DEF IInv, Handle
  <1>2. CASE ClearMpin(h) \/ (Rollback(h) /\ Finish(h))
    <2>1. UNCHANGED <<attempts, users, devices, verified>> /\ Finish(h)
      BY <1>2 DEF ClearMpin, Rollback, stores
    <2>2. QED BY <1>1, <2>1, FinishKnows, QuietGrows, Assemble DEF IInv
  <1>3. CASE Rollback(h) /\ ~Finish(h)
    <2>1. UNCHANGED stores /\ UNCHANGED entity
      BY <1>3 DEF Rollback
    <2>2. /\ pc[h] = "rollback" /\ Live(Mine(h))
          /\ \/ /\ ClearsMpin(h, attempts[Mine(h)])
                /\ pc'[h] = "clearMpin" /\ UNCHANGED task
             \/ /\ RevokesDevice(h, attempts[Mine(h)])
                /\ pc'[h] = "revoke"
                /\ task' = [task EXCEPT ![h].device = attempts[Mine(h)].device]
      BY <1>3 DEF Rollback, Goto, IInv, TypeOK
    <2>3. /\ task'[h].op = task[h].op /\ task'[h].to = task[h].to
          /\ task'[h].attempt = task[h].attempt /\ task'[h].next = task[h].next
          /\ pc'[h] = "revoke" => task'[h].device = attempts[Mine(h)].device
      BY <2>2 DEF IInv, TypeOK, Tasks
    <2>4. HasRow(h)' /\ Heading(h)'
      BY <2>1, <2>2, <2>3
         DEF IInv, HasRow, Heading, Mine, stores, ClearsMpin, RevokesDevice
    <2>5. pc'[h] = "revoke" =>
             /\ attempts[Mine(h)].device # Null
             /\ devices[attempts[Mine(h)].device] # NoDevice
             /\ devices[attempts[Mine(h)].device].by = Mine(h)
      BY <2>2 DEF IInv, HasRow, OwnRecords, Owns, RevokesDevice
    <2>6. Done(h)' /\ Copy(h)'
      BY <2>1, <2>2, <2>3, <2>5 DEF Done, Copy, Claims, Mine, stores
    <2>7. QED BY <1>1, <2>1, <2>4, <2>6, QuietGrows, Assemble DEF Knows, stores
  <1>4. CASE Revoke(h)
    <2> DEFINE d == task[h].device
    <2>1. /\ pc[h] = "revoke" /\ Finish(h) /\ UNCHANGED <<attempts, users, verified>>
          /\ devices' = [devices EXCEPT ![d].live = FALSE]
      BY <1>4 DEF Revoke
    <2>2. d \in Devices /\ devices[d] \in Device
      BY <2>1 DEF IInv, Done, TypeOK, Tasks
    <2>3. /\ devices'[d] = [devices[d] EXCEPT !.live = FALSE]
          /\ \A e \in Devices \ {d} : devices'[e] = devices[e]
      BY <2>1, <2>2 DEF IInv, TypeOK
    <2>4. devices'[d] # NoDevice /\ devices'[d].by = devices[d].by
      <3>1. [devices[d] EXCEPT !.live = FALSE] \in Device
        BY <2>2 DEF Device
      <3>2. QED BY <2>2, <2>3, <3>1, RegistrationAssumption DEF Device
    <2>5. Grows
      BY <2>1, <2>3, <2>4 DEF Grows
    <2>6. QED BY <1>1, <2>1, <2>5, FinishKnows, Assemble DEF IInv
  <1>5. QED BY <1>2, <1>3, <1>4

(* A call that rejects ends the handler, or its try block.                 *)
LEMMA AwaitRejectsStep ==
  ASSUME IInv, NEW h \in Handlers, AwaitRejects(h)
  PROVE  IInv'
  <1>1. UNCHANGED stores /\ pc[h] # "idle" /\ (Finish(h) \/ Throw(h, "FAILED"))
    BY DEF AwaitRejects
  <1>2. TypeOK' /\ Grows /\ \A g \in Handlers \ {h} : Untouched(g)
    BY <1>1, OutsideType, QuietGrows, OthersUntouched DEF IInv, stores
  <1>3. Knows(h)'
    BY <1>1, <1>2, FinishKnows, ThrowKnows DEF IInv
  <1>4. QED BY <1>1, <1>2, <1>3, Assemble DEF stores

(* A crash forgets what every handler knew, and no row.                    *)
LEMMA CrashStep ==
  ASSUME IInv, Crash
  PROVE  IInv'
  <1>1. TypeOK'
    BY OutsideType DEF IInv
  <1>2. \A h \in Handlers : Knows(h)'
    BY RegistrationAssumption
       DEF Crash, Knows, HasRow, Heading, Done, Copy, Claims, NoTask, Ops
  <1>3. EffectsPrecedeSteps' /\ OwnRecords'
    BY DEF IInv, Crash, stores, EffectsPrecedeSteps, OwnRecords, EffectsOf, Owns,
           Provisioned, AtLeast
  <1>4. QED BY <1>1, <1>2, <1>3 DEF IInv, Knows

(* A new attempt shows INIT, of which there is nothing to explain; and a   *)
(* customer's MPIN explains nothing.                                       *)
LEMMA ClientStep ==
  ASSUME IInv, (\E a \in Attempts : Create(a)) \/ (\E m \in Mobiles : SetMpin(m))
  PROVE  IInv'
  <1>1. TypeOK' /\ \A g \in Handlers : Untouched(g)
    BY OutsideType DEF IInv, Create, SetMpin, locals, Untouched
  <1>2. Grows
    BY DEF Create, SetMpin, Grows, IInv, TypeOK
  <1>3. \A g \in Handlers : Knows(g)'
    BY <1>1, <1>2, KnowsStays DEF IInv, Knows
  <1>4. ASSUME NEW a \in Attempts, attempts'[a] # NoAttempt
        PROVE  ExplainedNext(a, attempts'[a])
    <2>1. CASE attempts'[a] = attempts[a]
      <3>1. attempts[a] \in AttemptRow /\ Explained(a, attempts[a])
        BY <1>4, <2>1 DEF IInv, TypeOK, EffectsPrecedeSteps, OwnRecords, Explained
      <3>2. QED BY <1>2, <2>1, <3>1, ExplainedStays DEF IInv
    <2>2. CASE attempts'[a] # attempts[a]
      <3>1. PICK m \in Mobiles : attempts'[a] =
               [mobile |-> m, step |-> "INIT", user |-> Null, device |-> Null,
                reason |-> Null, deleted |-> FALSE]
        BY <2>2 DEF Create, SetMpin, IInv, TypeOK
      <3>2. QED BY <3>1 DEF ExplainedNext, AtLeast, Index
    <2>3. QED BY <2>1, <2>2
  <1>5. EffectsPrecedeSteps' /\ OwnRecords'
    BY <1>4 DEF EffectsPrecedeSteps, OwnRecords, ExplainedNext, EffectsOf, Owns,
                AtLeast, Provisioned, ProvisionedNext
  <1>6. QED BY <1>1, <1>3, <1>5 DEF IInv, Knows

-----------------------------------------------------------------------------
(* The theorems                                                            *)

(* Every step of the saga keeps the invariant.                             *)
LEMMA NextIInv == IInv /\ [Next]_vars => IInv'
  <1> SUFFICES ASSUME IInv, [Next]_vars PROVE IInv'
    OBVIOUS
  <1>1. ASSUME NEW h \in Handlers, Handle(h) PROVE IInv'
    BY <1>1, OtpStep, AdvanceStep, ReloadStep, WriteStep, CreateUserStep,
       SetUserStep, InsertDeviceStep, RecordStep, DeleteStep, FailStep,
       CompensateStep DEF Handle
  <1>2. CASE UNCHANGED vars
    BY <1>2 DEF vars, IInv, TypeOK, HasRow, Heading, Done, Copy, Claims, Mine,
                EffectsPrecedeSteps, OwnRecords, EffectsOf, Owns, Provisioned, AtLeast
  <1>3. QED BY <1>1, <1>2, ArriveStep, AwaitRejectsStep, CrashStep, ClientStep
            DEF Next

(* IInv is an inductive invariant of the onboarding saga, for any number   *)
(* of attempts, mobile numbers, overlapping requests, faults and crashes.  *)
THEOREM Inductive == Spec => []IInv
  <1>1. Init => IInv
    <2> SUFFICES ASSUME Init PROVE IInv
      OBVIOUS
    <2>1. \A h \in Handlers : HasRow(h) /\ Heading(h) /\ Done(h) /\ Copy(h)
      BY RegistrationAssumption
         DEF Init, HasRow, Heading, Done, Copy, Claims, NoTask, Ops
    <2>2. EffectsPrecedeSteps /\ OwnRecords
      BY DEF Init, EffectsPrecedeSteps, OwnRecords
    <2>3. QED BY <2>1, <2>2, InitType DEF IInv
  <1>2. QED BY <1>1, NextIInv, PTL DEF Spec

(* Rows, copies and locals are always well-typed: no save of a stale copy  *)
(* leaves a row that is not an attempt.                                    *)
THEOREM TypesCorrect == Spec => []TypeOK
  <1>1. IInv => TypeOK
    BY DEF IInv
  <1>2. QED BY <1>1, Inductive, PTL

(* However requests overlap, fail and crash, an attempt shows a step only  *)
(* after what advance had to wait for: OTP, user with password and role,   *)
(* device.                                                                 *)
THEOREM StepsHaveEffects == Spec => []EffectsPrecedeSteps
  <1>1. IInv => EffectsPrecedeSteps
    BY DEF IInv
  <1>2. QED BY <1>1, Inductive, PTL

(* However requests overlap, fail and crash, the user and the device an    *)
(* attempt names, which a rollback would undo, were created for it.        *)
THEOREM RecordsAreOwn == Spec => []OwnRecords
  <1>1. IInv => OwnRecords
    BY DEF IInv
  <1>2. QED BY <1>1, Inductive, PTL
-----------------------------------------------------------------------------
(* Requests handled one at a time: what a handler read is current          *)

OneAtWork == \A g, h \in Handlers : pc[g] # "idle" /\ pc[h] # "idle" => g = h

(* A step of which `row` has what StepHasRecords asks for.                 *)
HasRecords(row) ==
    /\ AtLeast(row, "KEYCLOAK_USER_CREATED") => row.user # Null
    /\ AtLeast(row, "DEVICE_REGISTERED") => row.device # Null /\ devices[row.device].live

Saving(h) == pc[h] \in {"reload", "write"}

(* The attempt stays at the step at which its operation found it: a        *)
(* handler that fails, or undoes something, has not moved it on.           *)
AtStep(h) ==
    /\ /\ task[h].op = "createCredentials"
       /\ \/ pc[h] \in {"createUser", "setPassword", "assignRole", "record",
                        "fail", "rollback", "clearMpin"}
          \/ Saving(h) /\ task[h].next \in {"advance", "rollback"}
          \/ pc[h] = "advance" /\ task[h].to = "KEYCLOAK_USER_CREATED"
       => attempts[Mine(h)].step = "CREDENTIALS_SET"
    /\ pc[h] # "idle" /\ task[h].op = "registerDevice" =>
          attempts[Mine(h)].step = "KEYCLOAK_USER_CREATED"

(* The copy that is saved is the row but for what the handler changed.     *)
CurrentCopy(h) ==
    /\ Saving(h) =>
          /\ HasRecords(entity[h])
          /\ Index[entity[h].step] >= Index[attempts[Mine(h)].step]
          /\ task[h].next \in {"advance", "rollback"} =>
                entity[h].step = attempts[Mine(h)].step
          /\ task[h].next = "createUser" => entity[h].step = "CREDENTIALS_SET"
          /\ task[h].next = "advance" =>
                /\ task[h].op = "createCredentials" => entity[h].user # Null
                /\ task[h].op = "registerDevice" => entity[h].device = task[h].device
    /\ pc[h] = "write" => cols[h] = Diff(entity[h], attempts[Mine(h)])

(* What the last step of an operation stands for is in the attempt.        *)
Ready(h) ==
    /\ pc[h] = "advance" /\ task[h].to = "KEYCLOAK_USER_CREATED" =>
          attempts[Mine(h)].user # Null
    /\ pc[h] = "advance" /\ task[h].to = "DEVICE_REGISTERED" =>
          attempts[Mine(h)].device = task[h].device
    /\ Claims(h) /\ task[h].to = "DEVICE_REGISTERED" => devices[task[h].device].live
    /\ pc[h] = "clearMpin" => attempts[Mine(h)].user # Null

Serial(h) == AtStep(h) /\ CurrentCopy(h) /\ Ready(h)

SerialInv == OneAtWork /\ StepHasRecords /\ \A h \in Handlers : Serial(h)

(* The save of a copy, when nothing came between re-read and UPDATE, makes *)
(* the row the copy.                                                       *)
LEMMA PatchAll ==
  ASSUME NEW row \in AttemptRow, NEW copy \in AttemptRow
  PROVE  Patch(row, copy, Diff(copy, row)) = copy
  <1> DEFINE new == Patch(row, copy, Diff(copy, row))
  <1>1. DOMAIN row = {"mobile", "step", "user", "device", "reason", "deleted"}
    BY DEF AttemptRow
  <1>2. /\ new.mobile = copy.mobile /\ new.step = copy.step /\ new.user = copy.user
        /\ new.device = copy.device /\ new.reason = copy.reason
        /\ new.deleted = copy.deleted
    BY <1>1 DEF Patch, Diff
  <1>3. new \in AttemptRow
    BY PatchAttempt
  <1> HIDE DEF new
  <1>4. new = copy
    BY <1>2, <1>3 DEF AttemptRow
  <1> QED BY <1>4 DEF new

(* A handler that is through knows nothing.                                *)
LEMMA IdleSerial ==
  ASSUME NEW h \in Handlers, pc'[h] = "idle"
  PROVE  Serial(h)'
  BY DEF Serial, AtStep, CurrentCopy, Ready, Saving, Claims

LEMMA FinishSerial ==
  ASSUME IInv, NEW h \in Handlers, Finish(h)
  PROVE  Serial(h)'
  <1>1. pc'[h] = "idle"
    BY DEF Finish, Goto, IInv, TypeOK
  <1>2. QED BY <1>1, IdleSerial

(* The operation and the attempt of a handler that heads for a step.       *)
LEMMA HeadingOp ==
  ASSUME IInv, NEW h \in Handlers, pc[h] = "advance" \/ task[h].next = "advance"
  PROVE  /\ task[h].to = "KEYCLOAK_USER_CREATED" => task[h].op = "createCredentials"
         /\ task[h].to = "DEVICE_REGISTERED" => task[h].op = "registerDevice"
         /\ task[h].to = "CREDENTIALS_SET" => task[h].op = "createCredentials"
  BY DEF IInv, Heading, TypeOK, Tasks, Ops

(* A request finds the attempt at the step its operation starts from.      *)
LEMMA ArriveSerial ==
  ASSUME IInv, NEW h \in Handlers, Arrive(h)
  PROVE  Serial(h)'
  <1>1. PICK a \in Attempts : \/ VerifyOtp(h, a) \/ CreateCredentials(h, a)
                              \/ RegisterDevice(h, a) \/ Complete(h, a)
                              \/ SoftDelete(h, a)
    BY DEF Arrive
  <1>2. PICK op, to, p :
           /\ Begin(h, op, a, to, p)
           /\ \/ <<op, to, p>> \in {<<"verifyOtp", "OTP_VERIFIED", "otp">>,
                                    <<"complete", "COMPLETED", "advance">>,
                                    <<"delete", Null, "delete">>,
                                    <<"createCredentials", "CREDENTIALS_SET", "advance">>}
              \/ /\ <<op, to, p>> =
                       <<"createCredentials", "KEYCLOAK_USER_CREATED", "createUser">>
                 /\ attempts[a].step = "CREDENTIALS_SET"
              \/ /\ <<op, to, p>> = <<"registerDevice", "DEVICE_REGISTERED", "insertDevice">>
                 /\ attempts[a].step = "KEYCLOAK_USER_CREATED"
    BY <1>1 DEF VerifyOtp, CreateCredentials, RegisterDevice, Complete, SoftDelete
  <1>3. /\ pc'[h] = p /\ task'[h].attempt = a /\ task'[h].op = op /\ task'[h].to = to
        /\ attempts' = attempts
    BY <1>2 DEF Begin, Goto, stores, IInv, TypeOK
  <1>4. QED BY <1>2, <1>3 DEF Serial, AtStep, CurrentCopy, Ready, Saving, Claims, Mine

(* A catch block takes over where the attempt is still at its step.        *)
LEMMA ThrowSerial ==
  ASSUME IInv, NEW h \in Handlers, Serial(h), InTry(h), NEW e, Throw(h, e),
         UNCHANGED attempts
  PROVE  Serial(h)'
  <1>1. pc'[h] = "fail" /\ task' = task
    BY DEF Throw, Goto, IInv, TypeOK
  <1>2. /\ task[h].op = "createCredentials" =>
              attempts[Mine(h)].step = "CREDENTIALS_SET"
        /\ task[h].op = "registerDevice" =>
              attempts[Mine(h)].step = "KEYCLOAK_USER_CREATED"
    <2>1. Heading(h) /\ AtStep(h)
      BY DEF IInv, Serial
    <2>2. QED BY <2>1 DEF Heading, AtStep, InTry, Saving
  <1>3. QED BY <1>1, <1>2 DEF Serial, AtStep, CurrentCopy, Ready, Saving, Claims, Mine

(* A save begins with a copy that has the records of its step.             *)
LEMMA SaveSerial ==
  ASSUME IInv, NEW h \in Handlers, Serial(h), UNCHANGED stores, pc[h] # "idle",
         NEW copy, NEW next, Save(h, copy, next),
         HasRecords(copy), Index[copy.step] >= Index[attempts[Mine(h)].step],
         next \in {"advance", "rollback"} =>
            /\ copy.step = attempts[Mine(h)].step
            /\ task[h].op = "createCredentials" => copy.step = "CREDENTIALS_SET",
         next = "createUser" => copy.step = "CREDENTIALS_SET",
         next = "advance" =>
            /\ task[h].op = "createCredentials" => copy.user # Null
            /\ task[h].op = "registerDevice" => copy.device = task[h].device
            /\ task[h].to = "DEVICE_REGISTERED" => devices[task[h].device].live
  PROVE  Serial(h)'
  <1>1. /\ pc'[h] = "reload" /\ entity'[h] = copy
        /\ task'[h].next = next /\ task'[h].to = task[h].to /\ task'[h].op = task[h].op
        /\ task'[h].attempt = task[h].attempt /\ task'[h].device = task[h].device
        /\ attempts' = attempts /\ devices' = devices
    BY DEF Save, Goto, stores, IInv, TypeOK, Tasks
  <1>2. AtStep(h)'
    BY <1>1 DEF Serial, AtStep, Saving, Mine
  <1>3. HasRecords(copy)'
    BY <1>1 DEF HasRecords, AtLeast
  <1>4. CurrentCopy(h)'
    BY <1>1, <1>3 DEF CurrentCopy, Saving, Mine, HasRecords, AtLeast
  <1>5. Ready(h)'
    BY <1>1 DEF Ready, Claims
  <1>6. QED BY <1>2, <1>4, <1>5 DEF Serial

-----------------------------------------------------------------------------
(* What a handler that works alone knows after each of its own steps       *)

(* An accepted OTP leads to the advance and nothing else.                  *)
LEMMA OtpSerial ==
  ASSUME IInv, NEW h \in Handlers, Serial(h), OtpAccepted(h) \/ OtpRefused(h)
  PROVE  Serial(h)'
  <1>1. CASE OtpRefused(h)
    BY <1>1, FinishSerial DEF OtpRefused
  <1>2. CASE OtpAccepted(h)
    <2>1. pc'[h] = "advance" /\ UNCHANGED <<task, attempts, devices>>
      BY <1>2 DEF OtpAccepted, Goto, IInv, TypeOK
    <2>2. task[h].op = "verifyOtp" /\ task[h].to = "OTP_VERIFIED"
      BY <1>2 DEF OtpAccepted, IInv, Heading
    <2>3. QED BY <2>1, <2>2 DEF Serial, AtStep, CurrentCopy, Ready, Saving, Claims, Mine
  <1>3. QED BY <1>1, <1>2

(* A row moved on by one step has the records of that step.                *)
LEMMA AdvancedHasRecords ==
  ASSUME IInv, StepHasRecords, NEW h \in Handlers, Serial(h), pc[h] = "advance",
         Follows(attempts[Mine(h)].step, task[h].to)
  PROVE  /\ HasRecords([attempts[Mine(h)] EXCEPT !.step = task[h].to])
         /\ [attempts[Mine(h)] EXCEPT !.step = task[h].to].step = task[h].to
         /\ Index[task[h].to] >= Index[attempts[Mine(h)].step]
  <1> DEFINE row == attempts[Mine(h)]
             to  == task[h].to
             new == [row EXCEPT !.step = to]
  <1>1. /\ Mine(h) \in Attempts /\ row \in AttemptRow /\ row # NoAttempt
        /\ task[h] \in Tasks
    BY DEF IInv, HasRow, TypeOK
  <1>2. to \in Steps /\ to # "INIT" /\ row.step \in Steps
    BY <1>1 DEF IInv, Heading, Tasks, Ops, Steps, AttemptRow
  <1>3. new.step = to /\ new.user = row.user /\ new.device = row.device
    BY <1>1 DEF AttemptRow
  <1>4. HasRecords(row)
    BY <1>1 DEF StepHasRecords, HasRecords
  <1>5. Index[to] = Index[row.step] + 1
    BY DEF Follows
  <1>6. CASE to \in {"OTP_VERIFIED", "CREDENTIALS_SET"}
    BY <1>2, <1>3, <1>5, <1>6 DEF HasRecords, AtLeast, Index, Steps
  <1>7. CASE to = "KEYCLOAK_USER_CREATED"
    <2>1. row.user # Null
      BY <1>7 DEF Serial, Ready
    <2>2. QED BY <1>2, <1>3, <1>5, <1>7, <2>1 DEF HasRecords, AtLeast, Index, Steps
  <1>8. CASE to = "DEVICE_REGISTERED"
    <2>1. row.step = "KEYCLOAK_USER_CREATED"
      BY <1>2, <1>5, <1>8 DEF Index, Steps
    <2>2. row.user # Null
      BY <1>4, <2>1 DEF HasRecords, AtLeast, Index
    <2>3. row.device = task[h].device /\ row.device # Null /\ devices[row.device].live
      BY <1>8 DEF Serial, Ready, IInv, Done, Claims
    <2>4. QED BY <1>3, <1>5, <1>8, <2>1, <2>2, <2>3 DEF HasRecords, AtLeast, Index
  <1>9. CASE to = "COMPLETED"
    <2>1. row.step = "DEVICE_REGISTERED"
      BY <1>2, <1>5, <1>9 DEF Index, Steps
    <2>2. row.user # Null /\ row.device # Null /\ devices[row.device].live
      BY <1>4, <2>1 DEF HasRecords, AtLeast, Index
    <2>3. QED BY <1>3, <1>5, <1>9, <2>1, <2>2 DEF HasRecords, AtLeast, Index
  <1>10. QED BY <1>2, <1>6, <1>7, <1>8, <1>9 DEF Steps

(* advance refuses, or saves such a row.                                   *)
LEMMA AdvanceSerial ==
  ASSUME IInv, StepHasRecords, NEW h \in Handlers, Serial(h), Advance(h)
  PROVE  Serial(h)'
  <1> DEFINE row == attempts[Mine(h)]
             to  == task[h].to
             new == [row EXCEPT !.step = to]
             next == IF to = "CREDENTIALS_SET" THEN "createUser" ELSE "idle"
  <1>1. CASE Finish(h)
    BY <1>1, FinishSerial
  <1>2. CASE Follows(row.step, to) /\ Save(h, new, next)
    <2>1. pc[h] = "advance" /\ UNCHANGED stores /\ pc[h] # "idle"
      BY DEF Advance
    <2>2. HasRecords(new) /\ new.step = to /\ Index[to] >= Index[row.step]
      BY <1>2, <2>1, AdvancedHasRecords
    <2>3. next \notin {"advance", "rollback"} /\ (next = "createUser" => to = "CREDENTIALS_SET")
      OBVIOUS
    <2> HIDE DEF new, next
    <2>4. QED BY <1>2, <2>1, <2>2, <2>3, SaveSerial
  <1>3. QED BY <1>1, <1>2 DEF Advance

(* The re-read finds the row the copy was made from.                       *)
LEMMA ReloadSerial ==
  ASSUME IInv, NEW h \in Handlers, Serial(h), Reload(h)
  PROVE  Serial(h)'
  <1>1. /\ pc[h] = "reload" /\ pc'[h] = "write"
        /\ cols'[h] = Diff(entity[h], attempts[Mine(h)])
        /\ UNCHANGED <<attempts, devices, task, entity>>
    BY DEF IInv, TypeOK, Reload, Goto, stores
  <1>2. AtStep(h)' /\ Ready(h)'
    BY <1>1 DEF Serial, AtStep, Ready, Saving, Claims, Mine
  <1>3. CurrentCopy(h)'
    BY <1>1 DEF Serial, CurrentCopy, Saving, Mine, HasRecords, AtLeast
  <1>4. QED BY <1>2, <1>3 DEF Serial

(* The UPDATE makes the row the saved copy, a row that shows no earlier    *)
(* step and has the records of its step.                                   *)
LEMMA WriteMakesCopy ==
  ASSUME IInv, NEW h \in Handlers, Serial(h), Write(h)
  PROVE  /\ attempts' = [attempts EXCEPT ![Mine(h)] = entity[h]]
         /\ Mine(h) \in Attempts /\ attempts[Mine(h)] # NoAttempt
         /\ attempts'[Mine(h)] = entity[h]
         /\ HasRecords(entity[h])
         /\ Index[entity[h].step] >= Index[attempts[Mine(h)].step]
         /\ UNCHANGED <<users, devices, mpins>>
  <1>1. /\ Mine(h) \in Attempts /\ attempts[Mine(h)] # NoAttempt
        /\ attempts[Mine(h)] \in AttemptRow /\ entity[h] \in AttemptRow
    BY DEF Write, IInv, HasRow, Copy, TypeOK
  <1>2. /\ HasRecords(entity[h]) /\ cols[h] = Diff(entity[h], attempts[Mine(h)])
        /\ Index[entity[h].step] >= Index[attempts[Mine(h)].step]
    BY DEF Write, Serial, CurrentCopy, Saving
  <1>3. Patch(attempts[Mine(h)], entity[h], cols[h]) = entity[h]
    BY <1>1, <1>2, PatchAll
  <1>4. attempts' = [attempts EXCEPT ![Mine(h)] = entity[h]]
    BY <1>3 DEF Write
  <1>5. QED BY <1>1, <1>2, <1>4 DEF Write, IInv, TypeOK

(* The handler goes on with what it saved.                                 *)
LEMMA WriteSerial ==
  ASSUME IInv, NEW h \in Handlers, Serial(h), Write(h)
  PROVE  Serial(h)'
  <1>1. CASE Finish(h)
    BY <1>1, FinishSerial
  <1>2. CASE ~Finish(h)
    <2>1. /\ pc[h] = "write" /\ pc'[h] = task[h].next /\ UNCHANGED <<task, devices>>
          /\ task[h].next \in {"createUser", "advance", "rollback"}
      BY <1>2 DEF Write, Goto, IInv, TypeOK, Tasks
    <2>2. attempts'[Mine(h)] = entity[h] /\ Mine(h)' = Mine(h)
      BY <2>1, WriteMakesCopy DEF Mine
    <2>3. CASE task[h].next = "createUser"
      <3>1. entity[h].step = "CREDENTIALS_SET" /\ task[h].op = "createCredentials"
        BY <2>1, <2>3 DEF Serial, CurrentCopy, Saving, IInv, Heading
      <3>2. QED BY <2>1, <2>2, <2>3, <3>1
                DEF Serial, AtStep, CurrentCopy, Ready, Saving, Claims
    <2>4. CASE task[h].next \in {"advance", "rollback"}
      <3>1. /\ task[h].op = "createCredentials" => entity[h].step = "CREDENTIALS_SET"
            /\ task[h].op = "registerDevice" => entity[h].step = "KEYCLOAK_USER_CREATED"
        BY <2>1, <2>4 DEF Serial, AtStep, CurrentCopy, Saving
      <3>2. AtStep(h)'
        BY <2>1, <2>2, <2>4, <3>1 DEF AtStep, Saving
      <3>3. Ready(h)'
        <4>1. CASE task[h].next = "rollback"
          BY <2>1, <4>1 DEF Ready, Claims
        <4>2. CASE task[h].next = "advance"
          <5>1. /\ task[h].op = "createCredentials" => entity[h].user # Null
                /\ task[h].op = "registerDevice" => entity[h].device = task[h].device
                /\ task[h].to = "DEVICE_REGISTERED" => devices[task[h].device].live
            BY <2>1, <4>2 DEF Serial, CurrentCopy, Ready, Saving, Claims
          <5>2. QED BY <2>1, <2>2, <4>2, <5>1, HeadingOp DEF Ready, Claims
        <4>3. QED BY <2>4, <4>1, <4>2
      <3>4. CurrentCopy(h)'
        BY <2>1, <2>4 DEF CurrentCopy, Saving
      <3>5. QED BY <3>2, <3>3, <3>4 DEF Serial
    <2>5. QED BY <2>1, <2>3, <2>4
  <1>3. QED BY <1>1, <1>2

(* The calls to Keycloak leave the attempt alone, which stays at           *)
(* CREDENTIALS_SET until they are through.                                 *)
LEMMA KeycloakSerial ==
  ASSUME IInv, NEW h \in Handlers, Serial(h),
         CreateUser(h) \/ SetPassword(h) \/ AssignRole(h)
  PROVE  Serial(h)'
  <1>1. CASE Throw(h, "USER_EXISTS") /\ CreateUser(h)
    <2>1. InTry(h) /\ UNCHANGED attempts
      BY <1>1 DEF CreateUser, InTry
    <2>2. QED BY <1>1, <2>1, ThrowSerial
  <1>2. CASE ~(Throw(h, "USER_EXISTS") /\ CreateUser(h))
    <2>1. /\ pc[h] \in {"createUser", "setPassword", "assignRole"}
          /\ pc'[h] \in {"setPassword", "assignRole", "record"}
          /\ task'[h].op = task[h].op /\ task'[h].attempt = task[h].attempt
          /\ UNCHANGED <<attempts, devices>>
      BY <1>2 DEF CreateUser, SetPassword, AssignRole, Goto, IInv, TypeOK, Tasks
    <2>2. /\ task[h].op = "createCredentials"
          /\ attempts[Mine(h)].step = "CREDENTIALS_SET"
      BY <2>1 DEF IInv, Heading, Serial, AtStep
    <2>3. task'[h].to # "DEVICE_REGISTERED"
      BY <1>2, <2>2 DEF CreateUser, SetPassword, AssignRole, IInv, TypeOK, Heading, Tasks
    <2>4. QED BY <2>1, <2>2, <2>3
              DEF Serial, AtStep, CurrentCopy, Ready, Saving, Claims, Mine
  <1>3. QED BY <1>1, <1>2

(* A device is live when it is stored.                                     *)
LEMMA InsertDeviceSerial ==
  ASSUME IInv, NEW h \in Handlers, Serial(h), InsertDevice(h)
  PROVE  Serial(h)'
  <1>1. PICK d \in Devices :
          /\ devices' = [devices EXCEPT ![d] = [by |-> Mine(h), live |-> TRUE]]
          /\ task' = [task EXCEPT ![h].device = d]
    BY DEF InsertDevice
  <1>2. /\ pc[h] = "insertDevice" /\ pc'[h] = "record" /\ UNCHANGED attempts
        /\ task'[h].op = task[h].op /\ task'[h].attempt = task[h].attempt
        /\ task'[h].device = d /\ devices'[d].live
    BY <1>1 DEF InsertDevice, Goto, IInv, TypeOK, Tasks
  <1>3. /\ task[h].op = "registerDevice"
        /\ attempts[Mine(h)].step = "KEYCLOAK_USER_CREATED"
    BY <1>2 DEF IInv, Heading, Serial, AtStep
  <1>4. QED BY <1>2, <1>3 DEF Serial, AtStep, CurrentCopy, Ready, Saving, Claims, Mine

(* The record of a user or a device is saved at the step it was made at.   *)
LEMMA RecordSerial ==
  ASSUME IInv, StepHasRecords, NEW h \in Handlers, Serial(h), Record(h)
  PROVE  Serial(h)'
  <1> DEFINE row == attempts[Mine(h)]
  <1>1. pc[h] = "record" /\ UNCHANGED stores /\ pc[h] # "idle"
    BY DEF Record
  <1>2. /\ Mine(h) \in Attempts /\ row \in AttemptRow /\ row # NoAttempt
        /\ task[h] \in Tasks
    BY <1>1 DEF IInv, HasRow, TypeOK
  <1>3. HasRecords(row)
    BY <1>2 DEF StepHasRecords, HasRecords
  <1>4. CASE Throw(h, "FAILED")
    BY <1>1, <1>4, ThrowSerial DEF stores, InTry
  <1>5. CASE /\ task[h].op = "createCredentials"
             /\ Save(h, [row EXCEPT !.user = row.mobile], "advance")
    <2> DEFINE new == [row EXCEPT !.user = row.mobile]
    <2>1. new.step = row.step /\ new.user # Null
      BY <1>2, RegistrationAssumption DEF AttemptRow
    <2>2. row.step = "CREDENTIALS_SET"
      BY <1>1, <1>5 DEF Serial, AtStep
    <2>3. HasRecords(new)
      BY <2>1, <2>2 DEF HasRecords, AtLeast, Index
    <2>4. task[h].to # "DEVICE_REGISTERED"
      BY <1>5 DEF IInv, Heading
    <2>5. Index[new.step] >= Index[row.step]
      BY <2>1, <2>2 DEF Index
    <2> HIDE DEF new
    <2>6. QED BY <1>1, <1>5, <2>1, <2>2, <2>3, <2>4, <2>5, SaveSerial DEF new
  <1>6. CASE /\ task[h].op = "registerDevice"
             /\ Save(h, [row EXCEPT !.device = task[h].device], "advance")
    <2> DEFINE new == [row EXCEPT !.device = task[h].device]
    <2>1. new.step = row.step /\ new.user = row.user /\ new.device = task[h].device
      BY <1>2 DEF AttemptRow
    <2>2. row.step = "KEYCLOAK_USER_CREATED" /\ task[h].to = "DEVICE_REGISTERED"
      BY <1>1, <1>6 DEF Serial, AtStep, IInv, Heading
    <2>3. HasRecords(new)
      BY <1>3, <2>1, <2>2 DEF HasRecords, AtLeast, Index
    <2>4. devices[task[h].device].live
      BY <1>1, <2>2 DEF Serial, Ready, Claims
    <2>5. Index[new.step] >= Index[row.step]
      BY <2>1, <2>2 DEF Index
    <2> HIDE DEF new
    <2>6. QED BY <1>1, <1>6, <2>1, <2>2, <2>3, <2>4, <2>5, SaveSerial DEF new
  <1>7. QED BY <1>4, <1>5, <1>6 DEF Record

(* orchestrator.fail writes the reason and keeps the step.                 *)
LEMMA FailSerial ==
  ASSUME IInv, StepHasRecords, NEW h \in Handlers, Serial(h), Fail(h)
  PROVE  Serial(h)'
  <1> DEFINE row == attempts[Mine(h)]
             new == Compensated(row, error[h])
  <1>1. pc[h] = "fail" /\ UNCHANGED stores /\ pc[h] # "idle"
    BY DEF Fail
  <1>2. /\ Mine(h) \in Attempts /\ row \in AttemptRow /\ row # NoAttempt
    BY <1>1 DEF IInv, HasRow, TypeOK
  <1>3. CASE Goto(h, "rollback") /\ UNCHANGED <<task, entity, cols, error>>
    <2>1. pc'[h] = "rollback" /\ UNCHANGED <<attempts, devices, task>>
      BY <1>1, <1>3 DEF IInv, TypeOK, Goto, stores
    <2>2. QED BY <1>1, <2>1
              DEF Serial, AtStep, CurrentCopy, Ready, Saving, Claims, Mine
  <1>4. CASE Save(h, new, "rollback")
    <2>1. new.step = row.step /\ new.user = row.user /\ new.device = row.device
      BY <1>2 DEF Compensated, AttemptRow
    <2>2. HasRecords(new)
      BY <1>2, <2>1 DEF StepHasRecords, HasRecords, AtLeast
    <2>3. task[h].op = "createCredentials" => new.step = "CREDENTIALS_SET"
      BY <1>1, <2>1 DEF Serial, AtStep
    <2>4. Index[new.step] >= Index[row.step]
      BY <1>2, <2>1 DEF Index, AttemptRow, Steps
    <2> HIDE DEF new
    <2>5. QED BY <1>1, <1>4, <2>1, <2>2, <2>3, <2>4, SaveSerial
  <1>5. QED BY <1>3, <1>4 DEF Fail

(* A rollback that clears the MPIN does so for a user the attempt names.   *)
LEMMA RollbackSerial ==
  ASSUME IInv, NEW h \in Handlers, Serial(h), Rollback(h)
  PROVE  Serial(h)'
  <1>1. CASE Finish(h)
    BY <1>1, FinishSerial
  <1>2. CASE ~Finish(h)
    <2>1. /\ pc[h] = "rollback" /\ UNCHANGED <<attempts, devices>>
          /\ task'[h].op = task[h].op /\ task'[h].attempt = task[h].attempt
          /\ task'[h].to = task[h].to
          /\ \/ pc'[h] = "clearMpin" /\ attempts[Mine(h)].user # Null
             \/ pc'[h] = "revoke"
      BY <1>2 DEF Rollback, ClearsMpin, Goto, stores, IInv, TypeOK, Tasks
    <2>2. QED BY <2>1 DEF Serial, AtStep, CurrentCopy, Ready, Saving, Claims, Mine
  <1>3. QED BY <1>1, <1>2

(* Every step of a handler that works alone keeps what it knows.           *)
LEMMA OwnSerial ==
  ASSUME IInv, StepHasRecords, NEW h \in Handlers, Serial(h),
         Arrive(h) \/ Handle(h) \/ AwaitRejects(h)
  PROVE  Serial(h)'
  <1>1. CASE Delete(h) \/ Revoke(h) \/ ClearMpin(h)
    BY <1>1, FinishSerial DEF Delete, Revoke, ClearMpin
  <1>2. CASE AwaitRejects(h)
    BY <1>2, FinishSerial, ThrowSerial DEF AwaitRejects, stores
  <1>3. CASE Handle(h)
    BY <1>1, <1>3, OtpSerial, AdvanceSerial, ReloadSerial, WriteSerial, KeycloakSerial,
       InsertDeviceSerial, RecordSerial, FailSerial, RollbackSerial DEF Handle
  <1>4. QED BY <1>2, <1>3, ArriveSerial

-----------------------------------------------------------------------------
(* What the steps of a handler that works alone do to the attempts         *)

(* No row moves back, and a row that is there stays there.                 *)
Forward == \A a \in Attempts : attempts[a] # NoAttempt =>
              Index[attempts'[a].step] >= Index[attempts[a].step]

(* An MPIN is cleared only where the user's own attempt has not got past   *)
(* CREDENTIALS_SET.                                                        *)
MpinsTaken == \A m \in mpins \ mpins' : attempts[users[m].by].step = "CREDENTIALS_SET"

(* Rows that stay, with devices that stay live, keep their records.        *)
LEMMA RowsStay ==
  ASSUME IInv, StepHasRecords, UNCHANGED attempts,
         \A a \in Attempts :
            attempts[a] # NoAttempt /\ AtLeast(attempts[a], "DEVICE_REGISTERED")
            => devices'[attempts[a].device].live
  PROVE  StepHasRecords' /\ Forward
  <1>1. Forward
    BY DEF Forward, IInv, TypeOK, AttemptRow, Index, Steps
  <1>2. QED BY <1>1 DEF StepHasRecords, AtLeast

(* An attempt that shows a device names one that is stored, and its own.   *)
LEMMA NamesDevice ==
  ASSUME IInv, StepHasRecords, NEW a \in Attempts, attempts[a] # NoAttempt,
         AtLeast(attempts[a], "DEVICE_REGISTERED")
  PROVE  /\ attempts[a].device \in Devices
         /\ devices[attempts[a].device] # NoDevice
         /\ devices[attempts[a].device].by = a
         /\ devices[attempts[a].device].live
  BY DEF IInv, TypeOK, AttemptRow, StepHasRecords, OwnRecords, Owns

(* A new device is none of theirs; a revoked one is that of an attempt     *)
(* that has not got past KEYCLOAK_USER_CREATED.                            *)
LEMMA DeviceRows ==
  ASSUME IInv, StepHasRecords, NEW h \in Handlers, Serial(h),
         InsertDevice(h) \/ Revoke(h)
  PROVE  StepHasRecords' /\ Forward
  <1>1. UNCHANGED attempts
    BY DEF InsertDevice, Revoke
  <1>2. ASSUME NEW a \in Attempts, attempts[a] # NoAttempt,
               AtLeast(attempts[a], "DEVICE_REGISTERED")
        PROVE  devices'[attempts[a].device].live
    <2> DEFINE d == attempts[a].device
    <2>1. /\ d \in Devices /\ devices[d] # NoDevice /\ devices[d].by = a
          /\ devices[d].live
      BY <1>2, NamesDevice
    <2>2. CASE InsertDevice(h)
      <3>1. PICK e \in Devices :
              /\ devices[e] = NoDevice
              /\ devices' = [devices EXCEPT ![e] = [by |-> Mine(h), live |-> TRUE]]
        BY <2>2 DEF InsertDevice
      <3>2. QED BY <2>1, <3>1 DEF IInv, TypeOK
    <2>3. CASE Revoke(h)
      <3>1. /\ task[h].op = "registerDevice"
            /\ attempts[Mine(h)].step = "KEYCLOAK_USER_CREATED"
            /\ devices[task[h].device].by = Mine(h)
        BY <2>3 DEF Revoke, IInv, Heading, Done, Serial, AtStep
      <3>2. a # Mine(h)
        BY <1>2, <3>1 DEF AtLeast, Index
      <3>3. d # task[h].device
        BY <2>1, <3>1, <3>2
      <3>4. QED BY <2>1, <2>3, <3>3 DEF Revoke, IInv, TypeOK
    <2>4. QED BY <2>2, <2>3
  <1>3. QED BY <1>1, <1>2, RowsStay

(* The UPDATE of a save, and a soft delete, of one attempt.                *)
LEMMA AttemptRows ==
  ASSUME IInv, StepHasRecords, NEW h \in Handlers, Serial(h), Write(h) \/ Delete(h)
  PROVE  StepHasRecords' /\ Forward
  <1>1. PICK new : /\ attempts' = [attempts EXCEPT ![Mine(h)] = new]
                   /\ HasRecords(new)
                   /\ Index[new.step] >= Index[attempts[Mine(h)].step]
    <2>1. CASE Write(h)
      BY <2>1, WriteMakesCopy
    <2>2. CASE Delete(h)
      <3> DEFINE new == [attempts[Mine(h)] EXCEPT !.deleted = TRUE]
      <3>1. /\ Mine(h) \in Attempts /\ attempts[Mine(h)] # NoAttempt
            /\ attempts[Mine(h)] \in AttemptRow
        BY <2>2 DEF Delete, IInv, HasRow, TypeOK
      <3>2. /\ new.step = attempts[Mine(h)].step /\ new.user = attempts[Mine(h)].user
            /\ new.device = attempts[Mine(h)].device
        BY <3>1 DEF AttemptRow
      <3>3. HasRecords(new) /\ Index[new.step] >= Index[attempts[Mine(h)].step]
        BY <3>1, <3>2 DEF StepHasRecords, HasRecords, AtLeast, AttemptRow, Index, Steps
      <3> HIDE DEF new
      <3>4. attempts' = [attempts EXCEPT ![Mine(h)] = new]
        BY <2>2 DEF Delete, new
      <3>5. QED BY <3>3, <3>4
    <2>3. QED BY <2>1, <2>2
  <1>2. Mine(h) \in Attempts /\ attempts'[Mine(h)] = new /\ UNCHANGED devices
    BY <1>1 DEF Write, Delete, IInv, HasRow, TypeOK
  <1>3. \A a \in Attempts : a # Mine(h) => attempts'[a] = attempts[a]
    BY <1>1 DEF IInv, TypeOK
  <1>4. ASSUME NEW a \in Attempts, attempts[a] # NoAttempt
        PROVE  Index[attempts'[a].step] >= Index[attempts[a].step]
    <2>1. attempts[a] \in AttemptRow
      BY <1>4 DEF IInv, TypeOK
    <2>2. QED BY <1>1, <1>2, <1>3, <2>1 DEF AttemptRow, Index, Steps
  <1>5. ASSUME NEW a \in Attempts, attempts'[a] # NoAttempt
        PROVE  HasRecords(attempts'[a])
    BY <1>1, <1>2, <1>3, <1>5 DEF StepHasRecords, HasRecords
  <1>6. StepHasRecords'
    BY <1>2, <1>5 DEF StepHasRecords, HasRecords, AtLeast
  <1>7. QED BY <1>4, <1>6 DEF Forward

(* Only a rollback takes an MPIN: that of the user its attempt names,      *)
(* who was created for this attempt.                                       *)
LEMMA MpinRow ==
  ASSUME IInv, NEW h \in Handlers, Serial(h), ClearMpin(h)
  PROVE  MpinsTaken
  <1>1. /\ pc[h] = "clearMpin" /\ Mine(h) \in Attempts
        /\ attempts[Mine(h)] # NoAttempt
    BY DEF ClearMpin, IInv, HasRow
  <1>2. /\ attempts[Mine(h)].user # Null
        /\ attempts[Mine(h)].step = "CREDENTIALS_SET"
    BY <1>1 DEF Serial, AtStep, Ready, IInv, Heading
  <1>3. users[attempts[Mine(h)].mobile].by = Mine(h)
    BY <1>1, <1>2 DEF IInv, OwnRecords, Owns, Provisioned
  <1>4. QED BY <1>2, <1>3 DEF MpinsTaken, ClearMpin

(* All of it, for every step of a handler.                                 *)
LEMMA HandlerRows ==
  ASSUME IInv, StepHasRecords, NEW h \in Handlers, Serial(h),
         Arrive(h) \/ Handle(h) \/ AwaitRejects(h)
  PROVE  StepHasRecords' /\ Forward /\ MpinsTaken
  <1>1. CASE InsertDevice(h) \/ Revoke(h) \/ Write(h) \/ Delete(h)
    BY <1>1, DeviceRows, AttemptRows DEF MpinsTaken, InsertDevice, Revoke, Write, Delete
  <1>2. CASE UNCHANGED <<attempts, devices, mpins>>
    BY <1>2, RowsStay, NamesDevice DEF MpinsTaken
  <1>3. CASE ClearMpin(h)
    BY <1>3, RowsStay, NamesDevice, MpinRow DEF ClearMpin
  <1>4. UNCHANGED <<attempts, devices, mpins>>
        \/ InsertDevice(h) \/ Revoke(h) \/ Write(h) \/ Delete(h) \/ ClearMpin(h)
    <2>1. CASE Arrive(h)
      BY <2>1 DEF Arrive, VerifyOtp, CreateCredentials, RegisterDevice, Complete,
                  SoftDelete, Begin, stores
    <2>2. CASE AwaitRejects(h)
      BY <2>2 DEF AwaitRejects, stores
    <2>3. CASE Handle(h)
      BY <2>3 DEF Handle, OtpAccepted, OtpRefused, Advance, Reload, CreateUser,
                  SetPassword, AssignRole, Record, Fail, Rollback, stores
    <2>4. QED BY <2>1, <2>2, <2>3
  <1>5. QED BY <1>1, <1>2, <1>3, <1>4

(* A new attempt shows INIT; a customer only sets an MPIN.                 *)
LEMMA ClientRows ==
  ASSUME IInv, StepHasRecords,
         (\E a \in Attempts : Create(a)) \/ (\E m \in Mobiles : SetMpin(m))
  PROVE  StepHasRecords' /\ Forward /\ MpinsTaken
  <1>1. UNCHANGED devices /\ mpins \subseteq mpins'
    BY DEF Create, SetMpin
  <1>2. ASSUME NEW a \in Attempts
        PROVE  \/ attempts'[a] = attempts[a]
               \/ attempts[a] = NoAttempt /\ attempts'[a].step = "INIT"
    BY DEF Create, SetMpin, IInv, TypeOK
  <1>3. StepHasRecords'
    BY <1>1, <1>2 DEF StepHasRecords, AtLeast, Index
  <1>4. Forward
    BY <1>2 DEF Forward, IInv, TypeOK, AttemptRow, Index, Steps
  <1>5. QED BY <1>1, <1>3, <1>4 DEF MpinsTaken

-----------------------------------------------------------------------------
(* The invariant of requests handled one at a time                         *)

(* Where requests are not handled concurrently, the others are idle when   *)
(* one takes a step, and stay so.                                          *)
LEMMA OthersIdle ==
  ASSUME IInv, ~Overlap, OneAtWork, NEW h \in Handlers,
         Arrive(h) \/ Handle(h) \/ AwaitRejects(h)
  PROVE  \A g \in Handlers \ {h} : pc'[g] = "idle"
  <1>1. \A g \in Handlers \ {h} : pc[g] = "idle"
    <2>1. CASE Arrive(h)
      BY <2>1 DEF Arrive, VerifyOtp, CreateCredentials, RegisterDevice, Complete,
                  SoftDelete, Begin
    <2>2. CASE pc[h] # "idle"
      BY <2>2 DEF OneAtWork
    <2>3. Handle(h) \/ AwaitRejects(h) => pc[h] # "idle"
      BY DEF Handle, OtpAccepted, OtpRefused, Advance, Reload, Write, CreateUser,
             SetPassword, AssignRole, InsertDevice, Record, Delete, Fail, Rollback,
             Revoke, ClearMpin, AwaitRejects
    <2>4. QED BY <2>1, <2>2, <2>3
  <1>2. QED BY <1>1, OthersUntouched DEF IInv, Untouched

(* Every step of the saga keeps the invariant, takes no attempt back and   *)
(* no MPIN that is not the attempt's to take.                              *)
LEMMA NextSerialInv ==
  ASSUME IInv, ~Overlap, SerialInv, [Next]_vars
  PROVE  SerialInv' /\ Forward /\ MpinsTaken
  <1>0. OneAtWork /\ StepHasRecords /\ \A h \in Handlers : Serial(h)
    BY DEF SerialInv
  <1>1. ASSUME NEW h \in Handlers, Arrive(h) \/ Handle(h) \/ AwaitRejects(h)
        PROVE  SerialInv' /\ Forward /\ MpinsTaken
    <2>1. \A g \in Handlers \ {h} : pc'[g] = "idle"
      BY <1>0, <1>1, OthersIdle
    <2>2. \A g \in Handlers : Serial(g)'
      BY <1>0, <1>1, <2>1, OwnSerial, IdleSerial
    <2>3. OneAtWork'
      BY <2>1 DEF OneAtWork
    <2>4. QED BY <1>0, <1>1, <2>2, <2>3, HandlerRows DEF SerialInv
  <1>2. CASE Crash
    <2>1. \A h \in Handlers : pc'[h] = "idle"
      BY <1>2 DEF Crash
    <2>2. StepHasRecords' /\ Forward /\ MpinsTaken
      BY <1>0, <1>2, RowsStay, NamesDevice DEF Crash, stores, MpinsTaken
    <2>3. QED BY <2>1, <2>2, IdleSerial DEF SerialInv, OneAtWork
  <1>3. CASE (\E a \in Attempts : Create(a)) \/ (\E m \in Mobiles : SetMpin(m))
    <2>1. UNCHANGED <<pc, task, entity, cols, devices>>
      BY <1>3 DEF Create, SetMpin, locals
    <2>2. ASSUME NEW h \in Handlers PROVE Serial(h)'
      <3>1. pc[h] # "idle" => attempts'[Mine(h)] = attempts[Mine(h)]
        BY <1>3 DEF Create, SetMpin, IInv, HasRow, TypeOK
      <3>2. CASE pc[h] = "idle"
        BY <2>1, <3>2, IdleSerial
      <3>3. CASE pc[h] # "idle"
        <4>1. Serial(h)
          BY <1>0
        <4>2. AtStep(h)' /\ Ready(h)'
          BY <2>1, <3>1, <3>3, <4>1 DEF Serial, AtStep, Ready, Saving, Claims, Mine
        <4>3. CurrentCopy(h)'
          BY <2>1, <3>1, <3>3, <4>1
             DEF Serial, CurrentCopy, Saving, Mine, HasRecords, AtLeast
        <4>4. QED BY <4>2, <4>3 DEF Serial
      <3>4. QED BY <3>2, <3>3
    <2>3. QED BY <1>0, <1>3, <2>1, <2>2, ClientRows DEF SerialInv, OneAtWork
  <1>4. CASE UNCHANGED vars
    <2>1. StepHasRecords' /\ Forward /\ MpinsTaken
      BY <1>0, <1>4, RowsStay, NamesDevice DEF vars, MpinsTaken
    <2>2. OneAtWork' /\ \A h \in Handlers : Serial(h)'
      BY <1>0, <1>4 DEF vars, OneAtWork, Serial, AtStep, CurrentCopy, Ready, Saving,
                        Claims, Mine, HasRecords, AtLeast
    <2>3. QED BY <2>1, <2>2 DEF SerialInv
  <1>5. QED BY <1>1, <1>2, <1>3, <1>4 DEF Next

(* Handled one at a time, and whatever fails or crashes, a handler's copy  *)
(* is the row but for what it changed, and its attempt is at the step at   *)
(* which its operation found it.                                           *)
THEOREM HandlersAreCurrent ==
  ASSUME ~Overlap
  PROVE  Spec => []SerialInv
  <1>1. Init => SerialInv
    BY DEF Init, SerialInv, OneAtWork, StepHasRecords, Serial, AtStep, CurrentCopy,
           Ready, Saving, Claims
  <1>2. IInv /\ SerialInv /\ [Next]_vars => SerialInv'
    BY NextSerialInv
  <1>3. QED BY <1>1, <1>2, Inductive, PTL DEF Spec

(* Handled one at a time, an attempt at KEYCLOAK_USER_CREATED knows its    *)
(* user, and one at DEVICE_REGISTERED a device that is not revoked.        *)
THEOREM StepsHaveRecords ==
  ASSUME ~Overlap
  PROVE  Spec => []StepHasRecords
  <1>1. SerialInv => StepHasRecords
    BY DEF SerialInv
  <1>2. QED BY <1>1, HandlersAreCurrent, PTL

(* Handled one at a time, no save of advance, fail or the steps between    *)
(* takes an attempt back.                                                  *)
THEOREM SagaMovesForward ==
  ASSUME ~Overlap
  PROVE  Spec => ForwardOnly
  <1>1. IInv /\ SerialInv /\ [Next]_vars =>
           [\A a \in Attempts : attempts[a] # NoAttempt =>
              Index[attempts'[a].step] >= Index[attempts[a].step]]_vars
    BY NextSerialInv DEF Forward
  <1>2. QED BY <1>1, Inductive, HandlersAreCurrent, PTL DEF Spec, ForwardOnly

(* Handled one at a time, a rollback takes an MPIN only of the user of its *)
(* own attempt, while that attempt is at CREDENTIALS_SET.                  *)
THEOREM MpinsAreKept ==
  ASSUME ~Overlap
  PROVE  Spec => MpinKept
  <1>1. IInv /\ SerialInv /\ [Next]_vars =>
           [\A m \in mpins \ mpins' :
              attempts[users[m].by].step = "CREDENTIALS_SET"]_vars
    BY NextSerialInv DEF MpinsTaken
  <1>2. QED BY <1>1, Inductive, HandlersAreCurrent, PTL DEF Spec, MpinKept

=============================================================================
