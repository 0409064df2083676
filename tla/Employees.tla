------------------------------ MODULE Employees ------------------------------
(***************************************************************************)
(* Bank staff: EmployeesService (create, updateRole), the Keycloak calls   *)
(* it makes, KeycloakService.signup, which takes user names from the same  *)
(* realm, and AdminUserSyncListener, which copies an employee's role into  *)
(* the admin_user read model when the in-process event arrives.  An action *)
(* is the code between two awaits.                                         *)
(*                                                                         *)
(* A request that is refused before its first write changes nothing and is *)
(* not an action.  A custom role name stands for the well-known one whose  *)
(* level and duty it resolves to.                                          *)
(***************************************************************************)
EXTENDS Naturals

CONSTANTS
    Requests,       \* requests to /employees and /auth/signup
    Usernames,      \* unique in Keycloak and in rbac_employee
    Roles,          \* names of the roles in rbac_role, all of them active
    Delegated,      \* roles delegated to the bank admins that call
    NoAccount,      \* Keycloak has no user of this name
    Null,           \* no row, or nothing
    MaxFailures     \* bound: awaits that reject and crashes, in a behaviour

(* ROLE_HIERARCHY_LEVELS.                                                  *)
Level == [BANK_SUPER_ADMIN |-> 100, BANK_ADMIN |-> 80,
          BANK_MAKER |-> 50, BANK_CHECKER |-> 50, CORPORATE_IT_ADMIN |-> 40,
          CORPORATE_MAKER |-> 30, CORPORATE_CHECKER |-> 30,
          CORPORATE_VIEWER |-> 20, RETAIL_CUSTOMER |-> 10]

(* isEmployeeManager: a caller is known by the highest role in its token.  *)
Managers == {"BANK_SUPER_ADMIN", "BANK_ADMIN"}

(* ADMIN_PORTAL_ROLES and SIGNUP_ROLE.                                     *)
Portal_NoChecker == {"BANK_SUPER_ADMIN", "BANK_ADMIN", "BANK_MAKER"}
Portal == {"BANK_SUPER_ADMIN", "BANK_ADMIN", "BANK_MAKER", "BANK_CHECKER"}
SignupRole == "RETAIL_CUSTOMER"

(* resolveRoleDutyType.                                                    *)
MakerRoles   == {"BANK_MAKER", "CORPORATE_MAKER"}
CheckerRoles == {"BANK_CHECKER", "CORPORATE_CHECKER"}

ASSUME EmployeesAssumption ==
    /\ Delegated \subseteq Roles /\ Roles \subseteq DOMAIN Level
    /\ Null \notin Requests \cup DOMAIN Level
    /\ MaxFailures \in Nat

(* `by` is the request an account was created for.                         *)
Account    == [by : Requests, password : BOOLEAN,
               roles : SUBSET (Roles \cup {SignupRole})]
Assignment == [user : Usernames, role : Roles]

ASSUME NoAccountAssumption == NoAccount \notin Account /\ Null \notin Assignment

(* updateRole keeps the assignment it loaded: the row and its role.        *)
Request == [op    : {"create", "updateRole", "signup"},
            user  : Usernames,
            role  : Roles \cup {SignupRole},
            actor : Managers \cup {Null},
            row   : Requests \cup {Null},
            old   : Roles \cup {Null}]

ASSUME NoRequestAssumption == Null \notin Request

VARIABLES
    users,          \* Keycloak's users, by user name
    employees,      \* rbac_employee by user name: the request that inserted it
    assignments,    \* rbac_employee_user_role: each by the request that did
    adminUsers,     \* admin_user by user name: its role
    req,            \* what each request asks, and what its handler holds
    pc,             \* the await its handler stands at
    sync,           \* the await its event's listener stands at
    saved,          \* history: requests whose assignment was saved
    overlapped,     \* history: a request began while another was at work
    faults, crashes

stores  == <<users, employees, assignments, adminUsers>>
history == <<saved, overlapped>>
bounds  == <<faults, crashes>>
vars    == <<users, employees, assignments, adminUsers, req, pc, sync,
             saved, overlapped, faults, crashes>>

Pcs   == {"idle", "createUser", "setPassword", "removeRole", "assignRole",
          "insertEmployee", "saveAssignment", "publish", "done"}
Syncs == {"none", "find", "insert", "update", "done"}

Init ==
    /\ users = [u \in Usernames |-> NoAccount]
    /\ employees = [u \in Usernames |-> Null]
    /\ assignments = [r \in Requests |-> Null]
    /\ adminUsers = [u \in Usernames |-> Null]
    /\ req = [r \in Requests |-> Null]
    /\ pc = [r \in Requests |-> "idle"]
    /\ sync = [r \in Requests |-> "none"]
    /\ saved = {} /\ overlapped = FALSE
    /\ faults = 0 /\ crashes = 0

-----------------------------------------------------------------------------
(* Who may do what                                                         *)

(* canAssignRoleToEmployee and canManageEmployeeWithRole.                  *)
Outranks(actor, role) ==
    actor = "BANK_SUPER_ADMIN" \/ Level[actor] > Level[role]

(* assertCanAssignRole asks for a delegation; the check for maker and      *)
(* checker looks at the one role of the request and never refuses it.      *)
CanAssign(actor, role) ==
    /\ actor = "BANK_SUPER_ADMIN" \/ role \in Delegated
    /\ Outranks(actor, role)

CanManage(actor, role) == Outranks(actor, role)

-----------------------------------------------------------------------------
(* Requests                                                                *)

Goto(r, p) == pc' = [pc EXCEPT ![r] = p]

HandlerBusy(r)  == pc[r] \notin {"idle", "done"}
ListenerBusy(r) == sync[r] \in {"find", "insert", "update"}

Begin(r, request, p) ==
    /\ pc[r] = "idle"
    /\ req' = [req EXCEPT ![r] = request]
    /\ Goto(r, p)
    /\ overlapped' = (overlapped \/ \E q \in Requests : HandlerBusy(q) \/ ListenerBusy(q))
    /\ UNCHANGED <<stores, sync, saved, bounds>>

(* create, up to the call of Keycloak: the username must not be taken.     *)
Create(r) ==
    \E actor \in Managers, role \in Roles, u \in Usernames :
        /\ CanAssign(actor, role)
        /\ employees[u] = Null
        /\ Begin(r, [op |-> "create", user |-> u, role |-> role, actor |-> actor,
                     row |-> Null, old |-> Null], "createUser")

(* findOne({ where: { employeeId } }) yields any of the employee's rows.   *)
RowsOf(u) == {a \in Requests : assignments[a] # Null /\ assignments[a].user = u}

UpdateRole(r) ==
    \E actor \in Managers, role \in Roles, u \in Usernames :
        /\ CanAssign(actor, role)
        /\ employees[u] # Null
        /\ \/ /\ RowsOf(u) = {}
              /\ Begin(r, [op |-> "updateRole", user |-> u, role |-> role,
                           actor |-> actor, row |-> Null, old |-> Null], "assignRole")
           \/ \E a \in RowsOf(u) :
              /\ CanManage(actor, assignments[a].role)
              /\ assignments[a].role # role
              /\ Begin(r, [op |-> "updateRole", user |-> u, role |-> role,
                           actor |-> actor, row |-> a, old |-> assignments[a].role],
                       "removeRole")

(* KeycloakService.signup, for a customer: no user of that name yet.       *)
Signup(r) ==
    \E u \in Usernames :
        /\ users[u] = NoAccount
        /\ Begin(r, [op |-> "signup", user |-> u, role |-> SignupRole,
                     actor |-> Null, row |-> Null, old |-> Null], "createUser")

-----------------------------------------------------------------------------
(* What their handlers await                                               *)

(* createUser's POST /users: Keycloak refuses a name it has.               *)
CreateUser_AdoptExisting(r) ==
    LET u == req[r].user IN
    /\ pc[r] = "createUser"
    /\ users' = [users EXCEPT ![u] =
                    IF @ = NoAccount
                    THEN [by |-> r, password |-> FALSE, roles |-> {}] ELSE @]
    /\ Goto(r, "setPassword")
    /\ UNCHANGED <<employees, assignments, adminUsers, req, sync, history, bounds>>

CreateUser(r) ==
    LET u == req[r].user IN
    /\ pc[r] = "createUser"
    /\ \/ users[u] # NoAccount /\ Goto(r, "done") /\ UNCHANGED users
       \/ /\ users[u] = NoAccount
          /\ users' = [users EXCEPT ![u] = [by |-> r, password |-> FALSE, roles |-> {}]]
          /\ Goto(r, "setPassword")
    /\ UNCHANGED <<employees, assignments, adminUsers, req, sync, history, bounds>>

(* createUser's PUT reset-password.                                        *)
SetPassword(r) ==
    /\ pc[r] = "setPassword"
    /\ users' = [users EXCEPT ![req[r].user].password = TRUE]
    /\ Goto(r, "assignRole")
    /\ UNCHANGED <<employees, assignments, adminUsers, req, sync, history, bounds>>

(* removeRealmRoleFromUser: the role of the assignment that was loaded.    *)
RemoveRole_Kept(r) ==
    /\ pc[r] = "removeRole"
    /\ Goto(r, "assignRole")
    /\ UNCHANGED <<stores, req, sync, history, bounds>>

RemoveRole(r) ==
    /\ pc[r] = "removeRole"
    /\ users' = [users EXCEPT ![req[r].user].roles = @ \ {req[r].old}]
    /\ Goto(r, "assignRole")
    /\ UNCHANGED <<employees, assignments, adminUsers, req, sync, history, bounds>>

(* assignRealmRoleToUser; what comes next depends on who called it.        *)
AfterAssign_PublishFirst ==
    [create |-> "insertEmployee", updateRole |-> "publish", signup |-> "done"]
AfterAssign ==
    [create |-> "insertEmployee", updateRole |-> "saveAssignment", signup |-> "done"]

AssignRole(r) ==
    /\ pc[r] = "assignRole"
    /\ users' = [users EXCEPT ![req[r].user].roles = @ \cup {req[r].role}]
    /\ Goto(r, AfterAssign[req[r].op])
    /\ UNCHANGED <<employees, assignments, adminUsers, req, sync, history, bounds>>

(* employees.save: the unique indexes would refuse a second row.           *)
InsertEmployee(r) ==
    /\ pc[r] = "insertEmployee"
    /\ employees[req[r].user] = Null
    /\ employees' = [employees EXCEPT ![req[r].user] = r]
    /\ Goto(r, "saveAssignment")
    /\ UNCHANGED <<users, assignments, adminUsers, req, sync, history, bounds>>

(* employeeRoles.save.  A new row gets the role of the request.  The row    *)
(* that was loaded with its role relation keeps its role: TypeORM takes a  *)
(* join column from the relation object when there is one, and updateRole  *)
(* has set roleId only.  The one other column it updates is not in the     *)
(* model, so that its re-read and its UPDATE are one step.                 *)
SavedRole(r) == IF req[r].row = Null THEN req[r].role ELSE req[r].old

(* The unique index on (employee_id, role_id).                             *)
Duplicate(r) ==
    \E a \in RowsOf(req[r].user) \ {req[r].row} : assignments[a].role = SavedRole(r)

SaveAssignment(r) ==
    LET a == IF req[r].row = Null THEN r ELSE req[r].row IN
    /\ pc[r] = "saveAssignment"
    /\ \/ Duplicate(r) /\ Goto(r, "done") /\ UNCHANGED <<assignments, saved>>
       \/ /\ ~Duplicate(r)
          /\ assignments' = [assignments EXCEPT ![a] = [user |-> req[r].user,
                                                       role |-> SavedRole(r)]]
          /\ saved' = saved \cup {r}
          /\ Goto(r, "publish")
    /\ UNCHANGED <<users, employees, adminUsers, req, sync, overlapped, bounds>>

(* The event: emit runs the listener up to its first await.                *)
Publish(r) ==
    /\ pc[r] = "publish"
    /\ sync' = [sync EXCEPT ![r] = IF req[r].role \in Portal THEN "find" ELSE "done"]
    /\ Goto(r, "done")
    /\ UNCHANGED <<stores, req, history, bounds>>

-----------------------------------------------------------------------------
(* AdminUserSyncListener.handle                                            *)

SyncFind(r) ==
    /\ sync[r] = "find"
    /\ sync' = [sync EXCEPT ![r] =
                   IF adminUsers[req[r].user] = Null THEN "insert" ELSE "update"]
    /\ UNCHANGED <<stores, req, pc, history, bounds>>

(* save: an INSERT, which the unique index refuses when there is a row by  *)
(* now (the error is logged, the event lost); or an UPDATE.                *)
SyncInsert(r) ==
    /\ sync[r] = "insert"
    /\ adminUsers' = [adminUsers EXCEPT ![req[r].user] =
                         IF @ = Null THEN req[r].role ELSE @]
    /\ sync' = [sync EXCEPT ![r] = "done"]
    /\ UNCHANGED <<users, employees, assignments, req, pc, history, bounds>>

SyncUpdate_Skipped(r) ==
    /\ sync[r] = "update"
    /\ sync' = [sync EXCEPT ![r] = "done"]
    /\ UNCHANGED <<stores, req, pc, history, bounds>>

SyncUpdate(r) ==
    /\ sync[r] = "update"
    /\ adminUsers' = [adminUsers EXCEPT ![req[r].user] = req[r].role]
    /\ sync' = [sync EXCEPT ![r] = "done"]
    /\ UNCHANGED <<users, employees, assignments, req, pc, history, bounds>>

-----------------------------------------------------------------------------
(* Failure                                                                 *)

(* The call a handler awaits fails; nothing catches it, nothing is undone. *)
AwaitRejects(r) ==
    /\ HandlerBusy(r)
    /\ faults + crashes < MaxFailures
    /\ faults' = faults + 1
    /\ Goto(r, "done")
    /\ UNCHANGED <<stores, req, sync, history, crashes>>

(* The listener's call fails; the error is logged.                         *)
SyncRejects(r) ==
    /\ ListenerBusy(r)
    /\ faults + crashes < MaxFailures
    /\ faults' = faults + 1
    /\ sync' = [sync EXCEPT ![r] = "done"]
    /\ UNCHANGED <<stores, req, pc, history, crashes>>

(* The process dies, with its handlers and the events in it.               *)
Crash ==
    /\ faults + crashes < MaxFailures
    /\ crashes' = crashes + 1
    /\ pc' = [r \in Requests |-> IF HandlerBusy(r) THEN "done" ELSE pc[r]]
    /\ sync' = [r \in Requests |-> IF ListenerBusy(r) THEN "done" ELSE sync[r]]
    /\ UNCHANGED <<stores, req, history, faults>>

-----------------------------------------------------------------------------
Handle(r) ==
    \/ CreateUser(r) \/ SetPassword(r) \/ RemoveRole(r) \/ AssignRole(r)
    \/ InsertEmployee(r) \/ SaveAssignment(r) \/ Publish(r)

Sync(r) == SyncFind(r) \/ SyncInsert(r) \/ SyncUpdate(r)

Arrive(r) == Create(r) \/ UpdateRole(r) \/ Signup(r)

Next ==
    \/ \E r \in Requests : \/ Arrive(r) \/ Handle(r) \/ Sync(r)
                           \/ AwaitRejects(r) \/ SyncRejects(r)
    \/ Crash

Spec == Init /\ [][Next]_vars

-----------------------------------------------------------------------------
(* Properties of every interleaving, with failures and crashes             *)

(* Every variable holds what its column, or its local, may hold.           *)
TypeOK ==
    /\ users \in [Usernames -> Account \cup {NoAccount}]
    /\ employees \in [Usernames -> Requests \cup {Null}]
    /\ assignments \in [Requests -> Assignment \cup {Null}]
    /\ adminUsers \in [Usernames -> Roles \cup {Null}]
    /\ req \in [Requests -> Request \cup {Null}]
    /\ pc \in [Requests -> Pcs] /\ sync \in [Requests -> Syncs]
    /\ saved \subseteq Requests /\ overlapped \in BOOLEAN
    /\ {faults, crashes} \subseteq Nat

(* An employee's Keycloak account is the one its own request created, with *)
(* a password set: never one a customer signed up for, and never that of   *)
(* another request for the same username (createUser before the INSERT).   *)
OwnAccounts ==
    \A u \in Usernames : employees[u] # Null =>
        /\ users[u] # NoAccount
        /\ users[u].by = employees[u]
        /\ users[u].password
        /\ req[employees[u]].op = "create"

(* The read model shows only roles whose assignment was saved before, of   *)
(* an employee there is, and only roles of the admin portal.               *)
ReadModelFollows ==
    \A u \in Usernames : adminUsers[u] # Null =>
        /\ employees[u] # Null
        /\ adminUsers[u] \in Portal
        /\ \E r \in saved : req[r].user = u /\ req[r].role = adminUsers[u]

Quiet == \A r \in Requests : ~HandlerBusy(r) /\ ~ListenerBusy(r)

(* A saved assignment of a portal role has given its employee a row in the *)
(* read model once nothing is at work, whichever listener lost an INSERT   *)
(* to another one, unless a call failed or the process died.               *)
BankRoles == {"BANK_SUPER_ADMIN", "BANK_ADMIN", "BANK_MAKER", "BANK_CHECKER"}

PortalRolesMirrored ==
    faults + crashes = 0 /\ Quiet =>
        \A u \in Usernames :
            (\E r \in saved : req[r].user = u /\ req[r].role \in BankRoles)
                => adminUsers[u] # Null

(* Who signed up never holds a role of the staff: whatever role an account *)
(* holds, a request about its username has asked for, and one that signs   *)
(* up exactly if the account was signed up for (createUser stops at a name *)
(* that is taken, and updateRole writes to an employee's account only).    *)
RolesAsked ==
    \A u \in Usernames : users[u] # NoAccount =>
        \A role \in users[u].roles : \E r \in Requests :
            /\ pc[r] # "idle" /\ req[r].user = u /\ req[r].role = role
            /\ req[r].op = "signup" <=> req[users[u].by].op = "signup"

-----------------------------------------------------------------------------
(* Properties as long as requests neither overlap nor fail                 *)

Undisturbed == ~overlapped /\ faults + crashes = 0

(* The roles updateRole has given to u and saved, as far as it saves them. *)
Granted(u) ==
    {role \in Roles : \E r \in saved : /\ req[r].op = "updateRole"
                                       /\ req[r].user = u /\ req[r].role = role}

InKeycloak(u) ==
    IF Granted(u) = {} THEN {assignments[employees[u]].role} ELSE Granted(u)

(* What requests leave behind: an employee has one assignment, the one its *)
(* create inserted, and its role is not one updateRole gave.  Keycloak has *)
(* that role until updateRole removes it for good; from then on it has all *)
(* the roles updateRole gave, because the next one removes the row's role  *)
(* again.  Who has a role of the portal is shown in the read model with a  *)
(* role Keycloak has.  And whoever is no employee has what signup gives.   *)
Settles(u) ==
    IF employees[u] = Null
    THEN users[u] # NoAccount => users[u].password /\ users[u].roles = {SignupRole}
    ELSE /\ RowsOf(u) = {employees[u]}
         /\ assignments[employees[u]].role \notin Granted(u)
         /\ users[u].roles = InKeycloak(u)
         /\ users[u].roles \cap BankRoles # {} => adminUsers[u] \in users[u].roles

(* Once nothing is at work, every username is left like that, whichever    *)
(* creates, updates and sign-ups came, and in which order.                 *)
StoresSettle == Undisturbed /\ Quiet => \A u \in Usernames : Settles(u)

-----------------------------------------------------------------------------
(* What the documents say, of requests that neither overlap nor fail       *)

(* employees.controller.ts: "Changes the role ... in both Keycloak and the *)
(* local database."  An employee's one assignment is to a role Keycloak    *)
(* grants, and to the only one.                                            *)
StoresAgree ==
    Undisturbed /\ Quiet =>
        \A u \in Usernames : employees[u] # Null =>
            \E a \in Requests : /\ RowsOf(u) = {a}
                                /\ users[u].roles = {assignments[a].role}

(* roles.service.ts: "a user cannot hold both Maker and Checker roles".    *)
(* assertMakerCheckerCompatibility looks at the one role of the request.   *)
DutiesSegregated ==
    Undisturbed =>
        \A u \in Usernames : users[u] # NoAccount =>
            \/ users[u].roles \cap MakerRoles = {}
            \/ users[u].roles \cap CheckerRoles = {}

(* employees.service.ts: "You cannot change the role of an employee at     *)
(* your level or higher".  When updateRole gets to Keycloak, its caller    *)
(* outranks every role the employee has there.                             *)
PeersUntouched ==
    Undisturbed =>
        \A r \in Requests :
            pc[r] \in {"removeRole", "assignRole"} /\ req[r].op = "updateRole" =>
                \A role \in users[req[r].user].roles : Outranks(req[r].actor, role)

-----------------------------------------------------------------------------
(* Why OwnAccounts and ReadModelFollows hold                               *)

(* A request is known from its arrival on, and what its handler stands at  *)
(* fits its operation;                                                     *)
Fits(r) ==
    /\ pc[r] = "idle" <=> req[r] = Null
    /\ pc[r] # "idle" =>
          /\ pc[r] \in {"createUser", "setPassword"} => req[r].op # "updateRole"
          /\ pc[r] = "removeRole" => req[r].op = "updateRole"
          /\ pc[r] = "insertEmployee" => req[r].op = "create"
          /\ pc[r] \in {"saveAssignment", "publish"} => req[r].op # "signup"
          /\ req[r].op # "signup" => req[r].role \in Roles
          /\ req[r].row # Null => req[r].old # Null

(* a creating one holds the account it has created, until the employee is  *)
(* inserted, which nobody else can have done;                              *)
Holds(r) ==
    /\ pc[r] \in {"setPassword", "assignRole", "insertEmployee"} /\ req[r].op # "updateRole" =>
          /\ users[req[r].user] # NoAccount
          /\ users[req[r].user].by = r
          /\ pc[r] # "setPassword" => users[req[r].user].password
    /\ \A u \in Usernames : employees[u] = r =>
          pc[r] \in {"saveAssignment", "publish", "done"}

(* what is saved, or is about to be, is of an employee there is, and only  *)
(* what is saved is published.                                             *)
Saves(r) ==
    /\ pc[r] # "idle" /\ req[r].op = "updateRole" => employees[req[r].user] # Null
    /\ pc[r] = "saveAssignment" => employees[req[r].user] # Null
    /\ r \in saved => /\ pc[r] # "idle" /\ req[r].op # "signup"
                      /\ employees[req[r].user] # Null
    /\ pc[r] = "publish" => r \in saved
    /\ sync[r] # "none" => r \in saved
    /\ ListenerBusy(r) => req[r].role \in Portal

(* The inductive invariant of the handlers' steps between awaits.          *)
IInv ==
    /\ TypeOK
    /\ \A r \in Requests : Fits(r) /\ Holds(r) /\ Saves(r)
    /\ OwnAccounts /\ ReadModelFollows

=============================================================================
