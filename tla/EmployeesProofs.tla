--------------------------- MODULE EmployeesProofs ---------------------------
EXTENDS Employees, TLAPS

Facts(r) == Fits(r) /\ Holds(r) /\ Saves(r)

(* No value of a column is the null value.                                 *)
LEMMA NullOutside ==
  /\ Null \notin Requests /\ Null \notin Roles /\ Null \notin Request
  /\ Null \notin Assignment /\ NoAccount \notin Account
  BY EmployeesAssumption, NoAccountAssumption, NoRequestAssumption

(* The initial state.                                                      *)
LEMMA InitInv == Init => IInv
  <1> SUFFICES ASSUME Init PROVE IInv
    OBVIOUS
  <1>1. TypeOK
    <2>1. pc \in [Requests -> Pcs] /\ sync \in [Requests -> Syncs]
      BY DEF Init, Pcs, Syncs
    <2>2. {faults, crashes} \subseteq Nat /\ saved = {} /\ overlapped = FALSE
      BY DEF Init
    <2>3. QED BY <2>1, <2>2 DEF Init, TypeOK
  <1>2. \A r \in Requests : Fits(r) /\ Holds(r) /\ Saves(r)
    BY NullOutside DEF Init, Fits, Holds, Saves, ListenerBusy
  <1>3. OwnAccounts /\ ReadModelFollows
    BY DEF Init, OwnAccounts, ReadModelFollows
  <1>4. QED BY <1>1, <1>2, <1>3 DEF IInv

-----------------------------------------------------------------------------
(* What a step of one request leaves alone                                 *)

(* The step is r's alone, no account loses its owner or its password, and  *)
(* no employee but r's own appears.                                        *)
Kept(r) ==
    /\ \A q \in Requests \ {r} :
          /\ pc'[q] = pc[q] /\ sync'[q] = sync[q] /\ req'[q] = req[q]
          /\ q \in saved' <=> q \in saved
    /\ r \in saved => r \in saved' /\ req'[r] = req[r]
    /\ \A u \in Usernames : users[u] # NoAccount =>
          /\ users'[u] # NoAccount
          /\ users'[u].by = users[u].by
          /\ users[u].password => users'[u].password
    /\ \A u \in Usernames :
          /\ employees'[u] # employees[u] => employees[u] = Null /\ employees'[u] = r
          /\ employees[u] = r => req'[r] = req[r]

(* What is known of another request is then still known.                   *)
LEMMA OthersKept ==
  ASSUME IInv, NEW r \in Requests, Kept(r), NEW q \in Requests, q # r
  PROVE  Facts(q)'
  <1>1. Facts(q) /\ pc'[q] = pc[q] /\ sync'[q] = sync[q] /\ req'[q] = req[q]
    BY DEF IInv, Facts, Kept
  <1>2. q \in saved' <=> q \in saved
    BY DEF Kept
  <1>3. req[q] # Null => req[q].user \in Usernames
    BY DEF IInv, TypeOK, Request
  <1>4. Fits(q)'
    BY <1>1 DEF Facts, Fits
  <1>5. Holds(q)'
    <2>1. \A u \in Usernames : employees'[u] = q => employees[u] = q
      BY DEF Kept
    <2>2. QED BY <1>1, <1>3, <2>1 DEF Facts, Fits, Holds, Kept
  <1>6. Saves(q)'
    <2>1. \A u \in Usernames : employees[u] # Null => employees'[u] # Null
      BY NullOutside DEF Kept
    <2>2. pc[q] # "idle" => req[q].user \in Usernames
      BY <1>1, <1>3 DEF Facts, Fits
    <2>3. ListenerBusy(q)' <=> ListenerBusy(q)
      BY <1>1 DEF ListenerBusy
    <2>4. sync[q] # "none" => q \in saved
      BY <1>1 DEF Facts, Saves
    <2>5. QED BY <1>1, <1>2, <2>1, <2>2, <2>3, <2>4 DEF Facts, Saves
  <1>7. QED BY <1>4, <1>5, <1>6 DEF Facts

(* So a step of r keeps the invariant if it keeps what is known of r, if   *)
(* the employee it inserts owns the account, and if the role it puts into  *)
(* the read model is one it saved.                                         *)
LEMMA Assemble ==
  ASSUME IInv, NEW r \in Requests, Kept(r), TypeOK', Facts(r)',
         \A u \in Usernames : employees'[u] # employees[u] =>
            /\ users'[u] # NoAccount /\ users'[u].by = r
            /\ users'[u].password /\ req'[r].op = "create",
         \A u \in Usernames : adminUsers'[u] # adminUsers[u] =>
            /\ employees'[u] # Null /\ adminUsers'[u] \in Portal
            /\ r \in saved' /\ req'[r].user = u /\ req'[r].role = adminUsers'[u]
  PROVE  IInv'
  <1>1. \A q \in Requests : Facts(q)'
    BY OthersKept
  <1>2. OwnAccounts'
    <2> SUFFICES ASSUME NEW u \in Usernames, employees'[u] # Null
                 PROVE  /\ users'[u] # NoAccount
                        /\ users'[u].by = employees'[u]
                        /\ users'[u].password
                        /\ req'[employees'[u]].op = "create"
      BY DEF OwnAccounts
    <2>1. CASE employees'[u] = employees[u]
      <3>1. employees[u] \in Requests
        BY <2>1 DEF IInv, TypeOK
      <3>2. req'[employees[u]] = req[employees[u]]
        BY <3>1 DEF Kept
      <3>3. QED BY <2>1, <3>2 DEF IInv, OwnAccounts, Kept
    <2>2. CASE employees'[u] # employees[u]
      BY <2>2 DEF Kept
    <2>3. QED BY <2>1, <2>2
  <1>3. ReadModelFollows'
    <2> SUFFICES ASSUME NEW u \in Usernames, adminUsers'[u] # Null
                 PROVE  /\ employees'[u] # Null
                        /\ adminUsers'[u] \in Portal
                        /\ \E q \in saved' : /\ req'[q].user = u
                                             /\ req'[q].role = adminUsers'[u]
      BY DEF ReadModelFollows
    <2>1. CASE adminUsers'[u] = adminUsers[u]
      <3>1. PICK q \in saved : req[q].user = u /\ req[q].role = adminUsers[u]
        BY <2>1 DEF IInv, ReadModelFollows
      <3>2. q \in Requests
        BY DEF IInv, TypeOK
      <3>3. q \in saved' /\ req'[q] = req[q]
        BY <3>2 DEF Kept
      <3>4. employees'[u] # Null
        BY <2>1, NullOutside DEF IInv, ReadModelFollows, Kept
      <3>5. QED BY <2>1, <3>1, <3>3, <3>4 DEF IInv, ReadModelFollows
    <2>2. CASE adminUsers'[u] # adminUsers[u]
      BY <2>2
    <2>3. QED BY <2>1, <2>2
  <1>4. QED BY <1>1, <1>2, <1>3 DEF IInv, Facts

-----------------------------------------------------------------------------
(* Arrivals                                                                *)

(* A request that gets past its checks keeps the invariant.                *)
LEMMA BeginStep ==
  ASSUME IInv, NEW r \in Requests, NEW request \in Request, NEW p,
         Begin(r, request, p),
         p \in {"createUser", "removeRole", "assignRole"},
         p = "createUser" <=> request.op # "updateRole",
         request.op # "signup" => request.role \in Roles,
         request.op = "updateRole" => employees[request.user] # Null,
         request.row # Null => request.old # Null
  PROVE  IInv'
  <1>1. pc[r] = "idle" /\ r \notin saved /\ sync[r] = "none"
    BY DEF Begin, IInv, Saves
  <1>2. req' = [req EXCEPT ![r] = request] /\ pc' = [pc EXCEPT ![r] = p]
    BY DEF Begin, Goto
  <1>3. UNCHANGED <<users, employees, assignments, adminUsers, sync, saved, faults, crashes>>
    BY DEF Begin, stores, bounds
  <1>4. overlapped' \in BOOLEAN
    BY DEF Begin
  <1>5. pc'[r] = p /\ req'[r] = request
    BY <1>2 DEF IInv, TypeOK
  <1>6. TypeOK'
    <2>1. req' \in [Requests -> Request \cup {Null}]
      BY <1>2 DEF IInv, TypeOK
    <2>2. pc' \in [Requests -> Pcs]
      BY <1>2 DEF IInv, TypeOK, Pcs
    <2>3. QED BY <1>3, <1>4, <2>1, <2>2 DEF IInv, TypeOK
  <1>7. Kept(r)
    BY <1>1, <1>2, <1>3 DEF Kept, IInv, TypeOK, Holds
  <1>8. Fits(r)'
    BY <1>5, NullOutside DEF Fits
  <1>9. Holds(r)'
    <2>1. \A u \in Usernames : employees[u] # r
      BY <1>1 DEF IInv, Holds
    <2>2. QED BY <1>3, <1>5, <2>1 DEF Holds
  <1>10. Saves(r)'
    BY <1>1, <1>3, <1>5 DEF Saves, ListenerBusy
  <1>11. QED BY <1>3, <1>6, <1>7, <1>8, <1>9, <1>10, Assemble DEF Facts

(* An employee's assignments are rows.                                     *)
LEMMA RowTypes ==
  ASSUME TypeOK, NEW u \in Usernames, NEW a \in RowsOf(u)
  PROVE  a \in Requests /\ assignments[a] \in Assignment /\ assignments[a].role \in Roles
  BY DEF TypeOK, RowsOf, Assignment

(* The three requests there are.                                           *)
LEMMA ArriveStep ==
  ASSUME IInv, NEW r \in Requests, Arrive(r)
  PROVE  IInv'
  <1>0. TypeOK
    BY DEF IInv
  <1>1. CASE Create(r)
    <2>1. PICK actor \in Managers, role \in Roles, u \in Usernames :
             Begin(r, [op |-> "create", user |-> u, role |-> role, actor |-> actor,
                       row |-> Null, old |-> Null], "createUser")
      BY <1>1 DEF Create
    <2> DEFINE request == [op |-> "create", user |-> u, role |-> role, actor |-> actor,
                           row |-> Null, old |-> Null]
    <2>2. request \in Request
      BY DEF Request
    <2>3. QED BY <2>1, <2>2, BeginStep
  <1>2. CASE UpdateRole(r)
    <2>1. PICK actor \in Managers, role \in Roles, u \in Usernames :
             /\ employees[u] # Null
             /\ \/ Begin(r, [op |-> "updateRole", user |-> u, role |-> role,
                             actor |-> actor, row |-> Null, old |-> Null], "assignRole")
                \/ \E a \in RowsOf(u) :
                   Begin(r, [op |-> "updateRole", user |-> u, role |-> role,
                             actor |-> actor, row |-> a, old |-> assignments[a].role],
                         "removeRole")
      BY <1>2 DEF UpdateRole
    <2>2. CASE Begin(r, [op |-> "updateRole", user |-> u, role |-> role,
                         actor |-> actor, row |-> Null, old |-> Null], "assignRole")
      <3> DEFINE request == [op |-> "updateRole", user |-> u, role |-> role,
                             actor |-> actor, row |-> Null, old |-> Null]
      <3>1. request \in Request
        BY DEF Request
      <3>2. QED BY <2>1, <2>2, <3>1, BeginStep
    <2>3. ASSUME NEW a \in RowsOf(u),
                 Begin(r, [op |-> "updateRole", user |-> u, role |-> role,
                           actor |-> actor, row |-> a, old |-> assignments[a].role],
                       "removeRole")
          PROVE  IInv'
      <3> DEFINE request == [op |-> "updateRole", user |-> u, role |-> role,
                             actor |-> actor, row |-> a, old |-> assignments[a].role]
      <3>1. a \in Requests /\ assignments[a].role \in Roles
        BY <1>0, RowTypes
      <3>2. request \in Request
        BY <3>1 DEF Request
      <3>3. assignments[a].role # Null
        BY <3>1, NullOutside
      <3>4. QED BY <2>1, <2>3, <3>2, <3>3, BeginStep
    <2>4. QED BY <2>1, <2>2, <2>3
  <1>3. CASE Signup(r)
    <2>1. PICK u \in Usernames :
             Begin(r, [op |-> "signup", user |-> u, role |-> SignupRole,
                       actor |-> Null, row |-> Null, old |-> Null], "createUser")
      BY <1>3 DEF Signup
    <2> DEFINE request == [op |-> "signup", user |-> u, role |-> SignupRole,
                           actor |-> Null, row |-> Null, old |-> Null]
    <2>2. request \in Request
      BY DEF Request
    <2>3. QED BY <2>1, <2>2, BeginStep
  <1>4. QED BY <1>1, <1>2, <1>3 DEF Arrive

-----------------------------------------------------------------------------
(* Handlers                                                                *)

(* A handler at work has a request, about a username.                      *)
LEMMA Working ==
  ASSUME IInv, NEW r \in Requests, pc[r] # "idle"
  PROVE  /\ req[r] \in Request
         /\ req[r].user \in Usernames
         /\ req[r].role \in Roles \cup {SignupRole}
         /\ req[r].old \in Roles \cup {Null} /\ req[r].row \in Requests \cup {Null}
         /\ req[r].op \in {"create", "updateRole", "signup"}
  BY DEF IInv, Fits, TypeOK, Request

(* The steps that change an account: users stay well typed, ...            *)
LEMMA AccountTypes ==
  ASSUME TypeOK, NEW u \in Usernames, NEW account \in Account, NEW r \in Requests,
         NEW p \in Pcs, users' = [users EXCEPT ![u] = account], Goto(r, p),
         UNCHANGED <<employees, assignments, adminUsers, req, sync, history, bounds>>
  PROVE  TypeOK'
  <1>1. users' \in [Usernames -> Account \cup {NoAccount}]
    BY DEF TypeOK
  <1>2. pc' \in [Requests -> Pcs]
    BY DEF TypeOK, Goto
  <1>3. QED BY <1>1, <1>2 DEF TypeOK, history, bounds

(* ... and an account that keeps its owner and password keeps the rest.    *)
LEMMA AccountKept ==
  ASSUME IInv, NEW r \in Requests, NEW u \in Usernames, NEW account \in Account,
         NEW p, users' = [users EXCEPT ![u] = account], Goto(r, p),
         users[u] # NoAccount =>
            account.by = users[u].by /\ (users[u].password => account.password),
         UNCHANGED <<employees, assignments, adminUsers, req, sync, history, bounds>>
  PROVE  Kept(r)
  BY NullOutside DEF Kept, IInv, TypeOK, Goto, history

(* POST /users: a new account, or the handler's end if the name is taken.  *)
LEMMA CreateUserStep ==
  ASSUME IInv, NEW r \in Requests, CreateUser(r)
  PROVE  IInv'
  <1> DEFINE u == req[r].user
  <1>0. /\ pc[r] = "createUser" /\ u \in Usernames
        /\ UNCHANGED <<employees, assignments, adminUsers, req, sync, saved>>
        /\ req[r].op # "updateRole" /\ TypeOK /\ pc \in [Requests -> Pcs]
    BY Working DEF CreateUser, IInv, Fits, TypeOK, history
  <1>1. CASE users[u] # NoAccount
    <2>1. users' = users /\ pc' = [pc EXCEPT ![r] = "done"]
      BY <1>0, <1>1 DEF CreateUser, Goto
    <2>2. TypeOK'
      BY <1>0, <2>1 DEF CreateUser, TypeOK, history, bounds, Pcs
    <2>3. Kept(r)
      BY <1>0, <2>1 DEF Kept
    <2>4. Facts(r)'
      BY <1>0, <2>1 DEF Facts, Fits, Holds, Saves, IInv, ListenerBusy
    <2>5. QED BY <1>0, <2>1, <2>2, <2>3, <2>4, Assemble
  <1>2. CASE users[u] = NoAccount
    <2> DEFINE account == [by |-> r, password |-> FALSE, roles |-> {}]
    <2>1. users' = [users EXCEPT ![u] = account] /\ Goto(r, "setPassword")
      BY <1>0, <1>2 DEF CreateUser, Goto
    <2>2. account \in Account
      BY DEF Account
    <2>3. UNCHANGED <<employees, assignments, adminUsers, req, sync, history, bounds>>
      BY DEF CreateUser
    <2>4. TypeOK'
      BY <1>0, <2>1, <2>2, <2>3, AccountTypes DEF Pcs
    <2>5. Kept(r)
      BY <1>0, <1>2, <2>1, <2>2, <2>3, AccountKept
    <2>6. pc'[r] = "setPassword" /\ users'[u] = account /\ users'[u] # NoAccount
      BY <1>0, <2>1, <2>2, NullOutside DEF Goto, TypeOK
    <2>7. Fits(r)' /\ Saves(r)'
      BY <1>0, <2>6 DEF Fits, Saves, IInv, ListenerBusy
    <2>8. \A v \in Usernames : employees[v] # r
      BY <1>0 DEF IInv, Holds
    <2>9. Holds(r)'
      BY <1>0, <2>6, <2>8 DEF Holds
    <2>10. QED BY <1>0, <2>4, <2>5, <2>7, <2>9, Assemble DEF Facts
  <1>3. QED BY <1>1, <1>2

(* PUT reset-password, on the account the handler has created.             *)
LEMMA SetPasswordStep ==
  ASSUME IInv, NEW r \in Requests, SetPassword(r)
  PROVE  IInv'
  <1> DEFINE u == req[r].user
             account == [users[u] EXCEPT !.password = TRUE]
  <1>0. /\ pc[r] = "setPassword" /\ u \in Usernames /\ req[r].op # "updateRole"
        /\ UNCHANGED <<employees, assignments, adminUsers, req, sync, history, bounds>>
        /\ UNCHANGED saved
        /\ TypeOK /\ users \in [Usernames -> Account \cup {NoAccount}]
        /\ pc \in [Requests -> Pcs] /\ Facts(r)
    BY Working DEF SetPassword, IInv, Fits, TypeOK, history, Facts
  <1>1. users[u] \in Account /\ users[u].by = r
    BY <1>0 DEF Facts, Holds
  <1>2. account \in Account /\ account.by = r /\ account.password
    BY <1>1 DEF Account
  <1>3. users' = [users EXCEPT ![u] = account] /\ Goto(r, "assignRole")
    BY <1>0, <1>1 DEF SetPassword
  <1>4. TypeOK'
    BY <1>0, <1>2, <1>3, AccountTypes DEF Pcs
  <1>5. Kept(r)
    BY <1>0, <1>1, <1>2, <1>3, AccountKept
  <1>6. pc'[r] = "assignRole" /\ users'[u] = account /\ users'[u] # NoAccount
    BY <1>0, <1>2, <1>3, NullOutside DEF Goto
  <1>7. Fits(r)' /\ Saves(r)'
    BY <1>0, <1>6 DEF Facts, Fits, Saves, ListenerBusy
  <1>8. Holds(r)'
    BY <1>0, <1>2, <1>6 DEF Facts, Holds
  <1>9. QED BY <1>0, <1>4, <1>5, <1>7, <1>8, Assemble DEF Facts

(* Who removes or assigns a role has an account to do it to.               *)
LEMMA AccountThere ==
  ASSUME IInv, NEW r \in Requests, pc[r] \in {"removeRole", "assignRole"}
  PROVE  users[req[r].user] \in Account
  <1>1. req[r].user \in Usernames /\ Facts(r)
    BY Working DEF IInv, Facts
  <1>2. CASE req[r].op = "updateRole"
    <2>1. employees[req[r].user] # Null
      BY <1>1, <1>2 DEF Facts, Saves
    <2>2. QED BY <1>1, <2>1 DEF IInv, OwnAccounts, TypeOK
  <1>3. CASE req[r].op # "updateRole"
    BY <1>1, <1>3 DEF Facts, Fits, Holds, IInv, TypeOK
  <1>4. QED BY <1>2, <1>3

(* DELETE of the role the loaded assignment has.                           *)
LEMMA RemoveRoleStep ==
  ASSUME IInv, NEW r \in Requests, RemoveRole(r)
  PROVE  IInv'
  <1> DEFINE u == req[r].user
             account == [users[u] EXCEPT !.roles = @ \ {req[r].old}]
  <1>0. /\ pc[r] = "removeRole" /\ u \in Usernames
        /\ UNCHANGED <<employees, assignments, adminUsers, req, sync, history, bounds>>
        /\ UNCHANGED saved
        /\ TypeOK /\ pc \in [Requests -> Pcs] /\ Facts(r)
    BY Working DEF RemoveRole, IInv, TypeOK, history, Facts
  <1>1. users[u] \in Account
    BY <1>0, AccountThere
  <1>2. account \in Account /\ account.by = users[u].by /\ account.password = users[u].password
    BY <1>1 DEF Account
  <1>3. users' = [users EXCEPT ![u] = account] /\ Goto(r, "assignRole")
    BY <1>0, <1>1 DEF RemoveRole
  <1>4. TypeOK'
    BY <1>0, <1>2, <1>3, AccountTypes DEF Pcs
  <1>5. Kept(r)
    BY <1>0, <1>1, <1>2, <1>3, AccountKept
  <1>6. pc'[r] = "assignRole"
    BY <1>0, <1>3 DEF Goto
  <1>7. Facts(r)'
    BY <1>0, <1>6 DEF Facts, Fits, Holds, Saves, ListenerBusy
  <1>8. QED BY <1>0, <1>4, <1>5, <1>7, Assemble

(* POST of the request's role, and on to what its operation does next.     *)
LEMMA AssignRoleStep ==
  ASSUME IInv, NEW r \in Requests, AssignRole(r)
  PROVE  IInv'
  <1> DEFINE u == req[r].user
             account == [users[u] EXCEPT !.roles = @ \cup {req[r].role}]
             p == AfterAssign[req[r].op]
  <1>0. /\ pc[r] = "assignRole" /\ u \in Usernames
        /\ req[r].op \in {"create", "updateRole", "signup"}
        /\ req[r].role \in Roles \cup {SignupRole}
        /\ UNCHANGED <<employees, assignments, adminUsers, req, sync, history, bounds>>
        /\ UNCHANGED saved
        /\ TypeOK /\ pc \in [Requests -> Pcs] /\ Facts(r)
    BY Working DEF AssignRole, IInv, TypeOK, history, Facts
  <1>1. users[u] \in Account
    BY <1>0, AccountThere
  <1>2. account \in Account /\ account.by = users[u].by /\ account.password = users[u].password
    BY <1>0, <1>1 DEF Account
  <1>3. users' = [users EXCEPT ![u] = account] /\ Goto(r, p)
    BY <1>0, <1>1 DEF AssignRole
  <1>4. \/ p = "insertEmployee" /\ req[r].op = "create"
        \/ p = "saveAssignment" /\ req[r].op = "updateRole"
        \/ p = "done" /\ req[r].op = "signup"
    <2>1. /\ AfterAssign["create"] = "insertEmployee"
          /\ AfterAssign["updateRole"] = "saveAssignment"
          /\ AfterAssign["signup"] = "done"
      BY DEF AfterAssign
    <2>2. QED BY <1>0, <2>1
  <1>p. p \in Pcs
    BY <1>4 DEF Pcs
  <1>5. TypeOK'
    BY <1>0, <1>2, <1>3, <1>p, AccountTypes
  <1>6. Kept(r)
    BY <1>0, <1>1, <1>2, <1>3, AccountKept
  <1>7. pc'[r] = p /\ users'[u] = account /\ users'[u] # NoAccount
    BY <1>0, <1>1, <1>2, <1>3, NullOutside DEF Goto, TypeOK
  <1>8. Fits(r)' /\ Saves(r)'
    BY <1>0, <1>4, <1>7 DEF Facts, Fits, Saves, ListenerBusy
  <1>9. Holds(r)'
    <2>1. \A v \in Usernames : employees[v] # r
      BY <1>0 DEF Facts, Holds
    <2>2. req[r].op # "updateRole" => users[u].by = r /\ users[u].password
      BY <1>0 DEF Facts, Holds
    <2>3. QED BY <1>0, <1>2, <1>4, <1>7, <2>1, <2>2 DEF Holds
  <1>10. QED BY <1>0, <1>5, <1>6, <1>8, <1>9, Assemble DEF Facts

(* The INSERT of the employee: the account is by then its request's own.   *)
LEMMA InsertEmployeeStep ==
  ASSUME IInv, NEW r \in Requests, InsertEmployee(r)
  PROVE  IInv'
  <1> DEFINE u == req[r].user
  <1>0. /\ pc[r] = "insertEmployee" /\ u \in Usernames /\ employees[u] = Null
        /\ UNCHANGED <<users, assignments, adminUsers, req, sync, saved>>
        /\ TypeOK /\ pc \in [Requests -> Pcs] /\ Facts(r)
        /\ employees \in [Usernames -> Requests \cup {Null}]
    BY Working DEF InsertEmployee, IInv, TypeOK, history, Facts
  <1>1. employees' = [employees EXCEPT ![u] = r] /\ pc' = [pc EXCEPT ![r] = "saveAssignment"]
    BY DEF InsertEmployee, Goto
  <1>2. TypeOK'
    <2>1. employees' \in [Usernames -> Requests \cup {Null}] /\ pc' \in [Requests -> Pcs]
      BY <1>0, <1>1 DEF Pcs
    <2>2. QED BY <1>0, <2>1 DEF InsertEmployee, TypeOK, history, bounds
  <1>3. Kept(r)
    BY <1>0, <1>1 DEF Kept
  <1>4. pc'[r] = "saveAssignment" /\ employees'[u] = r /\ r # Null
    BY <1>0, <1>1, NullOutside
  <1>5. req[r].op = "create" /\ users[u] # NoAccount /\ users[u].by = r /\ users[u].password
    BY <1>0 DEF Facts, Fits, Holds
  <1>6. Facts(r)'
    BY <1>0, <1>4, <1>5 DEF Facts, Fits, Holds, Saves, ListenerBusy
  <1>7. \A v \in Usernames : employees'[v] # employees[v] => v = u
    BY <1>0, <1>1
  <1>8. QED BY <1>0, <1>2, <1>3, <1>5, <1>6, <1>7, Assemble

(* The save of the assignment, which is refused or is what is published.   *)
LEMMA SaveAssignmentStep ==
  ASSUME IInv, NEW r \in Requests, SaveAssignment(r)
  PROVE  IInv'
  <1> DEFINE u == req[r].user
             a == IF req[r].row = Null THEN r ELSE req[r].row
             row == [user |-> u, role |-> SavedRole(r)]
  <1>0. /\ pc[r] = "saveAssignment" /\ u \in Usernames /\ employees[u] # Null
        /\ req[r].op # "signup" /\ req[r].role \in Roles
        /\ req[r].old \in Roles \cup {Null} /\ req[r].row \in Requests \cup {Null}
        /\ req[r].row # Null => req[r].old # Null
        /\ UNCHANGED <<users, employees, adminUsers, req, sync, overlapped, bounds>>
        /\ TypeOK /\ pc \in [Requests -> Pcs] /\ Facts(r)
        /\ assignments \in [Requests -> Assignment \cup {Null}]
        /\ saved \subseteq Requests
    BY Working DEF SaveAssignment, IInv, TypeOK, Facts, Fits, Saves
  <1>1. CASE UNCHANGED <<assignments, saved>> /\ Goto(r, "done")
    <2>1. pc' = [pc EXCEPT ![r] = "done"] /\ pc'[r] = "done"
      BY <1>0, <1>1 DEF Goto
    <2>2. pc' \in [Requests -> Pcs]
      BY <1>0, <2>1 DEF Pcs
    <2>3. TypeOK'
      BY <1>0, <1>1, <2>2 DEF TypeOK, bounds
    <2>4. Kept(r)
      BY <1>0, <1>1, <2>1 DEF Kept
    <2>5. Facts(r)'
      BY <1>0, <1>1, <2>1 DEF Facts, Fits, Holds, Saves, ListenerBusy
    <2>6. QED BY <1>0, <2>3, <2>4, <2>5, Assemble
  <1>2. CASE /\ assignments' = [assignments EXCEPT ![a] = row]
             /\ saved' = saved \cup {r} /\ Goto(r, "publish")
    <2>1. pc' = [pc EXCEPT ![r] = "publish"] /\ pc'[r] = "publish"
      BY <1>0, <1>2 DEF Goto
    <2>2. pc' \in [Requests -> Pcs]
      BY <1>0, <2>1 DEF Pcs
    <2>3. SavedRole(r) \in Roles
      BY <1>0 DEF SavedRole
    <2>4. row \in Assignment /\ a \in Requests
      BY <1>0, <2>3 DEF Assignment
    <2>5. assignments' \in [Requests -> Assignment \cup {Null}]
      BY <1>0, <1>2, <2>4
    <2>6. TypeOK'
      BY <1>0, <1>2, <2>2, <2>5 DEF TypeOK, bounds
    <2>7. Kept(r)
      BY <1>0, <1>2, <2>1 DEF Kept
    <2>8. Facts(r)'
      BY <1>0, <1>2, <2>1 DEF Facts, Fits, Holds, Saves, ListenerBusy
    <2>9. QED BY <1>0, <2>6, <2>7, <2>8, Assemble
  <1>3. QED BY <1>1, <1>2 DEF SaveAssignment

(* The event, which only a saved assignment has.                           *)
LEMMA PublishStep ==
  ASSUME IInv, NEW r \in Requests, Publish(r)
  PROVE  IInv'
  <1> DEFINE s == IF req[r].role \in Portal THEN "find" ELSE "done"
  <1>0. /\ pc[r] = "publish"
        /\ UNCHANGED <<users, employees, assignments, adminUsers, req, saved>>
        /\ UNCHANGED <<history, bounds>>
        /\ TypeOK /\ Facts(r)
        /\ pc \in [Requests -> Pcs] /\ sync \in [Requests -> Syncs]
    BY DEF Publish, stores, history, IInv, TypeOK, Facts
  <1>1. pc' = [pc EXCEPT ![r] = "done"] /\ sync' = [sync EXCEPT ![r] = s]
    BY DEF Publish, Goto
  <1>2. pc' \in [Requests -> Pcs] /\ sync' \in [Requests -> Syncs]
    BY <1>0, <1>1 DEF Pcs, Syncs
  <1>3. TypeOK'
    BY <1>0, <1>2 DEF TypeOK, history, bounds
  <1>4. Kept(r)
    BY <1>0, <1>1 DEF Kept
  <1>5. pc'[r] = "done" /\ sync'[r] = s /\ r \in saved
    BY <1>0, <1>1 DEF Facts, Saves
  <1>6. Facts(r)'
    BY <1>0, <1>5 DEF Facts, Fits, Holds, Saves, ListenerBusy
  <1>7. QED BY <1>0, <1>3, <1>4, <1>6, Assemble

-----------------------------------------------------------------------------
(* The listener                                                            *)

(* A busy listener works for a saved portal role of an employee there is.  *)
LEMMA Listening ==
  ASSUME IInv, NEW r \in Requests, ListenerBusy(r)
  PROVE  /\ r \in saved /\ req[r].user \in Usernames
         /\ employees[req[r].user] # Null
         /\ req[r].role \in Portal /\ req[r].role \in Roles
  <1>1. sync[r] # "none"
    BY DEF ListenerBusy
  <1>2. r \in saved /\ pc[r] # "idle" /\ req[r].op # "signup"
    BY <1>1 DEF IInv, Saves
  <1>3. QED BY <1>2, Working DEF IInv, Fits, Saves

(* A step of it that puts the request's role, or nothing, there.           *)
LEMMA SyncStep ==
  ASSUME IInv, NEW r \in Requests, ListenerBusy(r), NEW s \in Syncs \ {"none"},
         sync' = [sync EXCEPT ![r] = s],
         \/ UNCHANGED adminUsers
         \/ adminUsers' = [adminUsers EXCEPT ![req[r].user] = req[r].role],
         UNCHANGED <<users, employees, assignments, req, pc, history>>,
         {faults', crashes'} \subseteq Nat
  PROVE  IInv'
  <1> DEFINE u == req[r].user
  <1>0. /\ UNCHANGED <<users, employees, assignments, req, pc, saved, overlapped>>
        /\ TypeOK /\ Facts(r) /\ sync \in [Requests -> Syncs]
        /\ adminUsers \in [Usernames -> Roles \cup {Null}]
    BY DEF IInv, TypeOK, Facts, history
  <1>1. /\ r \in saved /\ u \in Usernames /\ employees[u] # Null
        /\ req[r].role \in Portal /\ req[r].role \in Roles
    BY Listening
  <1>2. sync' \in [Requests -> Syncs] /\ sync'[r] = s
    BY <1>0
  <1>3. adminUsers' \in [Usernames -> Roles \cup {Null}]
    BY <1>0, <1>1
  <1>4. TypeOK'
    BY <1>0, <1>2, <1>3 DEF TypeOK
  <1>5. Kept(r)
    BY <1>0 DEF Kept
  <1>6. Facts(r)'
    BY <1>0, <1>1, <1>2 DEF Facts, Fits, Holds, Saves
  <1>7. \A v \in Usernames : adminUsers'[v] # adminUsers[v] =>
           v = u /\ adminUsers'[v] = req[r].role
    BY <1>0, <1>1
  <1>8. QED BY <1>0, <1>1, <1>4, <1>5, <1>6, <1>7, Assemble

-----------------------------------------------------------------------------
(* Failures                                                                *)

(* Handlers that end where they are, and listeners that do: what is known  *)
(* of a handler at its end is part of what was known before.               *)
Ended ==
    /\ UNCHANGED <<users, employees, assignments, adminUsers, req, saved, overlapped>>
    /\ \A r \in Requests :
          /\ pc'[r] = pc[r] \/ (HandlerBusy(r) /\ pc'[r] = "done")
          /\ sync'[r] = sync[r] \/ (ListenerBusy(r) /\ sync'[r] = "done")

(* They keep the invariant.                                                *)
LEMMA EndedStep ==
  ASSUME IInv, Ended, TypeOK'
  PROVE  IInv'
  <1>1. ASSUME NEW r \in Requests
        PROVE  Fits(r)' /\ Holds(r)' /\ Saves(r)'
    <2>1. Fits(r) /\ Holds(r) /\ Saves(r)
      BY DEF IInv
    <2>2. pc'[r] = pc[r] \/ (pc[r] # "idle" /\ pc'[r] = "done")
      BY DEF Ended, HandlerBusy
    <2>3. sync'[r] = sync[r] \/ (sync[r] # "none" /\ sync'[r] = "done")
      BY DEF Ended, ListenerBusy
    <2>4. Fits(r)'
      BY <2>1, <2>2 DEF Fits, Ended
    <2>5. Holds(r)'
      BY <2>1, <2>2 DEF Holds, Ended
    <2>6. Saves(r)'
      BY <2>1, <2>2, <2>3 DEF Saves, Ended, ListenerBusy
    <2>7. QED BY <2>4, <2>5, <2>6
  <1>2. OwnAccounts' /\ ReadModelFollows'
    BY DEF IInv, OwnAccounts, ReadModelFollows, Ended
  <1>3. QED BY <1>1, <1>2 DEF IInv

(* A rejected await, of a handler or of a listener.                        *)
LEMMA RejectStep ==
  ASSUME IInv, NEW r \in Requests, AwaitRejects(r) \/ SyncRejects(r)
  PROVE  IInv'
  <1>0. TypeOK /\ pc \in [Requests -> Pcs] /\ sync \in [Requests -> Syncs]
    BY DEF IInv, TypeOK
  <1>1. faults \in Nat /\ faults' = faults + 1 /\ crashes' = crashes
    BY DEF AwaitRejects, SyncRejects, IInv, TypeOK
  <1>2. faults' \in Nat /\ crashes' \in Nat
    BY <1>0, <1>1 DEF TypeOK
  <1>3. pc' \in [Requests -> Pcs] /\ sync' \in [Requests -> Syncs]
    BY <1>0 DEF AwaitRejects, SyncRejects, Goto, Pcs, Syncs
  <1>4. TypeOK'
    BY <1>0, <1>2, <1>3 DEF AwaitRejects, SyncRejects, TypeOK, stores, history
  <1>5. Ended
    BY <1>0 DEF AwaitRejects, SyncRejects, Goto, Ended, stores, history
  <1>6. QED BY <1>4, <1>5, EndedStep

(* The death of the process.                                               *)
LEMMA CrashStep ==
  ASSUME IInv, Crash
  PROVE  IInv'
  <1>0. TypeOK /\ pc \in [Requests -> Pcs] /\ sync \in [Requests -> Syncs]
    BY DEF IInv, TypeOK
  <1>1. crashes' \in Nat /\ faults' \in Nat
    BY <1>0 DEF Crash, TypeOK
  <1>2. pc' \in [Requests -> Pcs] /\ sync' \in [Requests -> Syncs]
    BY <1>0 DEF Crash, Pcs, Syncs
  <1>3. TypeOK'
    BY <1>0, <1>1, <1>2 DEF Crash, TypeOK, stores, history
  <1>4. Ended
    BY DEF Crash, Ended, stores, history
  <1>5. QED BY <1>3, <1>4, EndedStep

-----------------------------------------------------------------------------
(* The theorems                                                            *)

(* Every step keeps the invariant.                                         *)
LEMMA NextStep == IInv /\ [Next]_vars => IInv'
  <1> SUFFICES ASSUME IInv, [Next]_vars PROVE IInv'
    OBVIOUS
  <1>0. TypeOK
    BY DEF IInv
  <1>1. ASSUME NEW r \in Requests, Sync(r)
        PROVE  IInv'
    <2>0. UNCHANGED <<users, employees, assignments, req, pc, history>>
          /\ ListenerBusy(r) /\ {faults', crashes'} \subseteq Nat
      BY <1>0, <1>1 DEF Sync, SyncFind, SyncInsert, SyncUpdate, stores, bounds,
                       ListenerBusy, TypeOK
    <2>1. CASE SyncFind(r)
      <3> DEFINE s == IF adminUsers[req[r].user] = Null THEN "insert" ELSE "update"
      <3>1. s \in Syncs \ {"none"} /\ sync' = [sync EXCEPT ![r] = s]
            /\ UNCHANGED adminUsers
        BY <2>1 DEF SyncFind, Syncs, stores
      <3>2. QED BY <2>0, <3>1, SyncStep
    <2>2. CASE SyncInsert(r)
      <3>1. req[r].user \in Usernames /\ adminUsers \in [Usernames -> Roles \cup {Null}]
        BY <1>0, <2>0, Listening DEF TypeOK
      <3>2. \/ UNCHANGED adminUsers
            \/ adminUsers' = [adminUsers EXCEPT ![req[r].user] = req[r].role]
        BY <2>2, <3>1 DEF SyncInsert
      <3>3. QED BY <2>0, <2>2, <3>2, SyncStep DEF SyncInsert, Syncs
    <2>3. CASE SyncUpdate(r)
      BY <2>0, <2>3, SyncStep DEF SyncUpdate, Syncs
    <2>4. QED BY <1>1, <2>1, <2>2, <2>3 DEF Sync
  <1>2. ASSUME NEW r \in Requests, Handle(r)
        PROVE  IInv'
    BY <1>2, CreateUserStep, SetPasswordStep, RemoveRoleStep, AssignRoleStep,
       InsertEmployeeStep, SaveAssignmentStep, PublishStep DEF Handle
  <1>3. CASE UNCHANGED vars
    <2>1. Ended
      BY <1>3 DEF Ended, vars
    <2>2. TypeOK'
      BY <1>0, <1>3 DEF TypeOK, vars
    <2>3. QED BY <2>1, <2>2, EndedStep
  <1>4. QED BY <1>1, <1>2, <1>3, ArriveStep, RejectStep, CrashStep DEF Next

(* Employees' accounts and read model, in every interleaving of requests   *)
(* and listeners with failed calls and crashes: the inductive invariant.   *)
THEOREM Inductive == Spec => []IInv
  BY InitInv, NextStep, PTL DEF Spec

(* Every column and local holds what it may.                               *)
THEOREM TypesCorrect == Spec => []TypeOK
  <1>1. IInv => TypeOK
    BY DEF IInv
  <1>2. QED BY <1>1, Inductive, PTL

(* Keycloak's refusal of a taken name is enough for an employee never to   *)
(* end up with somebody else's account, or with one without a password.    *)
THEOREM AccountsAreOwn == Spec => []OwnAccounts
  <1>1. IInv => OwnAccounts
    BY DEF IInv
  <1>2. QED BY <1>1, Inductive, PTL

(* The read model never shows a role that was not saved before.            *)
THEOREM ReadModelIsBehind == Spec => []ReadModelFollows
  <1>1. IInv => ReadModelFollows
    BY DEF IInv
  <1>2. QED BY <1>1, Inductive, PTL

-----------------------------------------------------------------------------
(* The roles of an account                                                 *)

(* Whoever created an account has arrived.                                 *)
AskInv ==
    /\ RolesAsked
    /\ \A u \in Usernames : users[u] # NoAccount => pc[users[u].by] # "idle"

(* What a request asks stays what it asks.                                 *)
LEMMA RequestsStay ==
  ASSUME IInv, [Next]_vars, NEW r \in Requests, pc[r] # "idle"
  PROVE  pc'[r] # "idle" /\ req'[r] = req[r]
  <1>0. pc \in [Requests -> Pcs] /\ req \in [Requests -> Request \cup {Null}]
    BY DEF IInv, TypeOK
  <1>1. ASSUME NEW q \in Requests, Arrive(q)
        PROVE  pc'[r] # "idle" /\ req'[r] = req[r]
    <2>1. PICK request, p : Begin(q, request, p)
      BY <1>1 DEF Arrive, Create, UpdateRole, Signup
    <2>2. QED BY <1>0, <2>1 DEF Begin, Goto
  <1>2. ASSUME NEW q \in Requests, Handle(q)
        PROVE  pc'[r] # "idle" /\ req'[r] = req[r]
    <2>1. CASE AssignRole(q)
      <3>1. req[q].op \in {"create", "updateRole", "signup"}
        BY <2>1, Working DEF AssignRole
      <3>2. AfterAssign[req[q].op] # "idle"
        BY <3>1 DEF AfterAssign
      <3>3. QED BY <1>0, <2>1, <3>2 DEF AssignRole, Goto
    <2>2. CASE ~AssignRole(q)
      BY <1>0, <1>2, <2>2 DEF Handle, CreateUser, SetPassword, RemoveRole, InsertEmployee,
         SaveAssignment, Publish, Goto
    <2>3. QED BY <2>1, <2>2
  <1>3. ASSUME NEW q \in Requests, Sync(q) \/ AwaitRejects(q) \/ SyncRejects(q)
        PROVE  pc'[r] # "idle" /\ req'[r] = req[r]
    BY <1>0, <1>3 DEF Sync, SyncFind, SyncInsert, SyncUpdate, AwaitRejects, SyncRejects,
       Goto
  <1>4. CASE Crash \/ UNCHANGED vars
    BY <1>0, <1>4 DEF Crash, vars
  <1>5. QED BY <1>1, <1>2, <1>3, <1>4 DEF Next

(* An account comes without a role, by a request that has arrived, and     *)
(* gets its roles from assignRealmRoleToUser only.                         *)
LEMMA RolesCome ==
  ASSUME IInv, [Next]_vars, NEW u \in Usernames, users'[u] # NoAccount
  PROVE  \/ users'[u].roles = {} /\ pc[users'[u].by] # "idle"
         \/ /\ users[u] # NoAccount /\ users'[u].by = users[u].by
            /\ \A role \in users'[u].roles \ users[u].roles :
                  \E q \in Requests : /\ pc[q] = "assignRole"
                                      /\ req[q].user = u /\ req[q].role = role
  <1>0. users \in [Usernames -> Account \cup {NoAccount}]
    BY DEF IInv, TypeOK
  <1>1. CASE UNCHANGED users
    BY <1>1
  <1>2. ASSUME NEW q \in Requests, CreateUser(q), ~UNCHANGED users
        PROVE  \/ users'[u].roles = {} /\ pc[users'[u].by] # "idle"
               \/ UNCHANGED users[u]
    BY <1>0, <1>2 DEF CreateUser
  <1>3. ASSUME NEW q \in Requests, SetPassword(q), u = req[q].user
        PROVE  /\ users[u] # NoAccount /\ users'[u].by = users[u].by
               /\ users'[u].roles = users[u].roles
    <2>1. users[u] \in Account
      BY <1>0, <1>3 DEF SetPassword, IInv, Fits, Holds
    <2>2. users'[u] = [users[u] EXCEPT !.password = TRUE]
      BY <1>0, <1>3 DEF SetPassword
    <2>3. QED BY <2>1, <2>2, NullOutside DEF Account
  <1>4. ASSUME NEW q \in Requests, RemoveRole(q), u = req[q].user
        PROVE  /\ users[u] # NoAccount /\ users'[u].by = users[u].by
               /\ users'[u].roles \subseteq users[u].roles
    <2>1. users[u] \in Account
      BY <1>4, AccountThere DEF RemoveRole
    <2>2. users'[u] = [users[u] EXCEPT !.roles = @ \ {req[q].old}]
      BY <1>0, <1>4 DEF RemoveRole
    <2>3. QED BY <2>1, <2>2, NullOutside DEF Account
  <1>5. ASSUME NEW q \in Requests, AssignRole(q), u = req[q].user
        PROVE  /\ users[u] # NoAccount /\ users'[u].by = users[u].by
               /\ users'[u].roles = users[u].roles \cup {req[q].role}
               /\ pc[q] = "assignRole"
    <2>1. users[u] \in Account
      BY <1>5, AccountThere DEF AssignRole
    <2>2. users'[u] = [users[u] EXCEPT !.roles = @ \cup {req[q].role}]
      BY <1>0, <1>5 DEF AssignRole
    <2>3. QED BY <1>5, <2>1, <2>2, NullOutside DEF Account, AssignRole
  <1>6. ASSUME NEW q \in Requests, SetPassword(q) \/ RemoveRole(q) \/ AssignRole(q),
               u # req[q].user
        PROVE  users'[u] = users[u]
    BY <1>0, <1>6 DEF SetPassword, RemoveRole, AssignRole
  <1>7. ASSUME NEW q \in Requests, InsertEmployee(q) \/ SaveAssignment(q) \/ Publish(q)
        PROVE  UNCHANGED users
    BY <1>7 DEF InsertEmployee, SaveAssignment, Publish, stores
  <1>8. ASSUME NEW q \in Requests, Arrive(q) \/ Sync(q) \/ AwaitRejects(q) \/ SyncRejects(q)
        PROVE  UNCHANGED users
    BY <1>8 DEF Arrive, Create, UpdateRole, Signup, Begin, Sync, SyncFind, SyncInsert,
       SyncUpdate, AwaitRejects, SyncRejects, stores
  <1>9. CASE Crash \/ UNCHANGED vars
    BY <1>1, <1>9 DEF Crash, stores, vars
  <1>10. QED BY <1>1, <1>2, <1>3, <1>4, <1>5, <1>6, <1>7, <1>8, <1>9 DEF Next, Handle

(* Whoever assigns a role does it to an account of its own kind: a create  *)
(* or a sign-up to the one it made, updateRole to an employee's.           *)
LEMMA OwnKind ==
  ASSUME IInv, NEW q \in Requests, pc[q] = "assignRole"
  PROVE  req[q].op = "signup" <=> req[users[req[q].user].by].op = "signup"
  <1>1. req[q].user \in Usernames
    BY Working
  <1>2. CASE req[q].op = "updateRole"
    <2>1. employees[req[q].user] # Null
      BY <1>2 DEF IInv, Saves
    <2>2. QED BY <1>1, <1>2, <2>1 DEF IInv, OwnAccounts
  <1>3. CASE req[q].op # "updateRole"
    BY <1>3 DEF IInv, Holds
  <1>4. QED BY <1>2, <1>3

(* A customer who signs up gets no role of the staff and the staff none of *)
(* a customer, however requests for one username interleave and fail.      *)
THEOREM RolesAreAsked == Spec => []RolesAsked
  <1>1. Init => AskInv
    BY DEF Init, AskInv, RolesAsked
  <1>2. IInv /\ AskInv /\ [Next]_vars => AskInv'
    <2> SUFFICES ASSUME IInv, AskInv, [Next]_vars,
                        NEW u \in Usernames, users'[u] # NoAccount
                 PROVE  /\ pc'[users'[u].by] # "idle"
                        /\ \A role \in users'[u].roles : \E r \in Requests :
                              /\ pc'[r] # "idle" /\ req'[r].user = u
                              /\ req'[r].role = role
                              /\ req'[r].op = "signup"
                                    <=> req'[users'[u].by].op = "signup"
      BY DEF AskInv, RolesAsked
    <2>0. users' \in [Usernames -> Account \cup {NoAccount}]
      BY NextStep DEF IInv, TypeOK
    <2>1. users'[u].by \in Requests
      BY <2>0 DEF Account
    <2>2. CASE users'[u].roles = {} /\ pc[users'[u].by] # "idle"
      BY <2>1, <2>2, RequestsStay
    <2>3. CASE /\ users[u] # NoAccount /\ users'[u].by = users[u].by
               /\ \A role \in users'[u].roles \ users[u].roles :
                     \E q \in Requests : /\ pc[q] = "assignRole"
                                         /\ req[q].user = u /\ req[q].role = role
      <3>1. /\ pc[users[u].by] # "idle" /\ pc'[users'[u].by] # "idle"
            /\ req'[users'[u].by] = req[users[u].by]
        BY <2>1, <2>3, RequestsStay DEF AskInv
      <3>2. ASSUME NEW role \in users'[u].roles
            PROVE  \E r \in Requests :
                      /\ pc[r] # "idle" /\ req[r].user = u /\ req[r].role = role
                      /\ req[r].op = "signup" <=> req[users[u].by].op = "signup"
        <4>1. CASE role \in users[u].roles
          BY <2>3, <4>1 DEF AskInv, RolesAsked
        <4>2. CASE role \notin users[u].roles
          <5>1. PICK q \in Requests : /\ pc[q] = "assignRole"
                                     /\ req[q].user = u /\ req[q].role = role
            BY <2>3, <4>2
          <5>2. QED BY <5>1, OwnKind
        <4>3. QED BY <4>1, <4>2
      <3>3. ASSUME NEW role \in users'[u].roles
            PROVE  \E r \in Requests :
                      /\ pc'[r] # "idle" /\ req'[r].user = u /\ req'[r].role = role
                      /\ req'[r].op = "signup" <=> req'[users'[u].by].op = "signup"
        BY <3>1, <3>2, RequestsStay
      <3>4. QED BY <3>1, <3>3
    <2>4. QED BY <2>2, <2>3, RolesCome
  <1>3. AskInv => RolesAsked
    BY DEF AskInv
  <1>4. QED BY <1>1, <1>2, <1>3, Inductive, PTL DEF Spec

-----------------------------------------------------------------------------
(* The read model, as long as nothing fails                                *)

(* What is saved is published next, and the event goes out at the end, ... *)
Published(r) ==
    /\ r \in saved => pc[r] \in {"publish", "done"}
    /\ sync[r] # "none" => pc[r] = "done"

(* ... and the role a published assignment has in the portal is on its way *)
(* to the read model, or its employee is there.                            *)
Mirrored(r) ==
    r \in saved /\ req[r].role \in Portal =>
        pc[r] = "publish" \/ ListenerBusy(r) \/ adminUsers[req[r].user] # Null

MirrorInv ==
    /\ \A r \in Requests : Published(r)
    /\ faults + crashes = 0 => \A r \in Requests : Mirrored(r)

(* A step of one request moves no other one, and nothing fails in it.      *)
LEMMA OneMoves ==
  ASSUME IInv, NEW q \in Requests, Arrive(q) \/ Handle(q) \/ Sync(q)
  PROVE  /\ \A r \in Requests \ {q} :
              /\ pc'[r] = pc[r] /\ sync'[r] = sync[r] /\ req'[r] = req[r]
              /\ r \in saved' <=> r \in saved
         /\ UNCHANGED <<faults, crashes>>
  <1>1. CASE \E request, p : Begin(q, request, p)
    BY <1>1 DEF Begin, Goto, IInv, TypeOK, bounds
  <1>2. Arrive(q) => \E request, p : Begin(q, request, p)
    BY DEF Arrive, Create, UpdateRole, Signup
  <1>3. CASE Handle(q)
    BY <1>3 DEF Handle, CreateUser, SetPassword, RemoveRole, AssignRole, InsertEmployee,
                SaveAssignment, Publish, Goto, IInv, TypeOK, history, bounds
  <1>4. CASE Sync(q)
    BY <1>4 DEF Sync, SyncFind, SyncInsert, SyncUpdate, IInv, TypeOK, history, bounds
  <1>5. QED BY <1>1, <1>2, <1>3, <1>4

(* No row of the read model disappears.                                    *)
LEMMA MirrorStays ==
  ASSUME IInv, [Next]_vars
  PROVE  \A u \in Usernames : adminUsers[u] # Null => adminUsers'[u] # Null
  <1>1. ASSUME NEW r \in Requests, SyncInsert(r) \/ SyncUpdate(r)
        PROVE  \A u \in Usernames : adminUsers[u] # Null => adminUsers'[u] # Null
    <2>1. req[r].user \in Usernames /\ req[r].role \in Roles
      BY <1>1, Listening DEF SyncInsert, SyncUpdate, ListenerBusy
    <2>2. QED BY <1>1, <2>1, NullOutside DEF SyncInsert, SyncUpdate, IInv, TypeOK
  <1>2. CASE UNCHANGED adminUsers
    BY <1>2
  <1>3. \A r \in Requests : Arrive(r) => UNCHANGED adminUsers
    BY DEF Arrive, Create, UpdateRole, Signup, Begin, stores
  <1>4. \A r \in Requests : Handle(r) => UNCHANGED adminUsers
    BY DEF Handle, CreateUser, SetPassword, RemoveRole, AssignRole, InsertEmployee,
           SaveAssignment, Publish, stores
  <1>5. QED BY <1>1, <1>2, <1>3, <1>4
            DEF Next, Sync, SyncFind, AwaitRejects, SyncRejects, Crash, stores, vars

(* A handler saves before it publishes; its event goes out last.           *)
LEMMA PublishedStep ==
  ASSUME IInv, \A r \in Requests : Published(r), [Next]_vars
  PROVE  \A r \in Requests : Published(r)'
  <1>1. ASSUME NEW q \in Requests, Arrive(q) \/ Handle(q) \/ Sync(q)
        PROVE  Published(q)'
    <2>0. Published(q) /\ Saves(q) /\ pc \in [Requests -> Pcs] /\ sync \in [Requests -> Syncs]
      BY DEF IInv, TypeOK
    <2>1. CASE \E request, p : Begin(q, request, p)
      BY <2>0, <2>1 DEF Begin, Goto, Published, Saves
    <2>2. Arrive(q) => \E request, p : Begin(q, request, p)
      BY DEF Arrive, Create, UpdateRole, Signup
    <2>3. CASE CreateUser(q) \/ SetPassword(q) \/ RemoveRole(q) \/ AssignRole(q)
               \/ InsertEmployee(q)
      <3>1. /\ pc[q] \notin {"publish", "done"} /\ UNCHANGED <<sync, saved>>
        BY <2>3 DEF CreateUser, SetPassword, RemoveRole, AssignRole, InsertEmployee,
                    history
      <3>2. QED BY <2>0, <3>1 DEF Published
    <2>4. CASE SaveAssignment(q)
      BY <2>0, <2>4 DEF SaveAssignment, Goto, Published
    <2>5. CASE Publish(q)
      BY <2>0, <2>5 DEF Publish, Goto, Published, history
    <2>6. CASE Sync(q)
      <3>1. sync[q] # "none" /\ UNCHANGED <<pc, saved>>
        BY <2>6 DEF Sync, SyncFind, SyncInsert, SyncUpdate, history
      <3>2. QED BY <2>0, <3>1 DEF Published
    <2>7. QED BY <1>1, <2>1, <2>2, <2>3, <2>4, <2>5, <2>6 DEF Handle
  <1>2. ASSUME NEW q \in Requests, Arrive(q) \/ Handle(q) \/ Sync(q)
        PROVE  \A r \in Requests : Published(r)'
    BY <1>1, <1>2, OneMoves DEF Published
  <1>3. CASE Ended
    BY <1>3 DEF Ended, Published, HandlerBusy, ListenerBusy
  <1>4. ASSUME NEW q \in Requests, AwaitRejects(q) \/ SyncRejects(q)
        PROVE  Ended
    BY <1>4 DEF AwaitRejects, SyncRejects, Goto, Ended, stores, history, IInv, TypeOK
  <1>5. Crash \/ UNCHANGED vars => Ended
    BY DEF Crash, Ended, stores, history, vars
  <1>6. QED BY <1>2, <1>3, <1>4, <1>5 DEF Next

(* A handler or a listener that goes on leaves its saved portal role       *)
(* published, under way, or with a row.                                    *)
LEMMA MirroredStep ==
  ASSUME IInv, NEW q \in Requests, Published(q), Mirrored(q),
         Arrive(q) \/ Handle(q) \/ Sync(q)
  PROVE  Mirrored(q)'
  <1>0. /\ pc \in [Requests -> Pcs] /\ sync \in [Requests -> Syncs]
        /\ adminUsers \in [Usernames -> Roles \cup {Null}]
    BY DEF IInv, TypeOK
  <1>1. CASE Arrive(q)
    <2>1. pc[q] = "idle" /\ UNCHANGED saved
      BY <1>1 DEF Arrive, Create, UpdateRole, Signup, Begin
    <2>2. QED BY <2>1 DEF Published, Mirrored
  <1>2. CASE CreateUser(q) \/ SetPassword(q) \/ RemoveRole(q) \/ AssignRole(q)
             \/ InsertEmployee(q)
    <2>1. pc[q] \notin {"publish", "done"} /\ UNCHANGED saved
      BY <1>2 DEF CreateUser, SetPassword, RemoveRole, AssignRole, InsertEmployee, history
    <2>2. QED BY <2>1 DEF Published, Mirrored
  <1>3. CASE SaveAssignment(q)
    BY <1>0, <1>3 DEF SaveAssignment, Goto, Published, Mirrored
  <1>4. CASE Publish(q)
    BY <1>0, <1>4 DEF Publish, Mirrored, ListenerBusy
  <1>5. CASE SyncFind(q)
    BY <1>0, <1>5 DEF SyncFind, Mirrored, ListenerBusy
  <1>6. CASE SyncInsert(q) \/ SyncUpdate(q)
    <2>1. req[q].user \in Usernames /\ req[q].role \in Roles
      BY <1>6, Listening DEF SyncInsert, SyncUpdate, ListenerBusy
    <2>2. adminUsers'[req[q].user] # Null /\ UNCHANGED req
      BY <1>0, <1>6, <2>1, NullOutside DEF SyncInsert, SyncUpdate
    <2>3. QED BY <2>2 DEF Mirrored
  <1>7. QED BY <1>1, <1>2, <1>3, <1>4, <1>5, <1>6 DEF Handle, Sync

(* The read model loses no event, as long as nothing fails.                *)
LEMMA MirrorStep ==
  ASSUME IInv, MirrorInv, [Next]_vars
  PROVE  MirrorInv'
  <1>1. \A r \in Requests : Published(r)'
    BY PublishedStep DEF MirrorInv
  <1>2. ASSUME faults' + crashes' = 0
        PROVE  \A r \in Requests : Mirrored(r)'
    <2>0. faults \in Nat /\ crashes \in Nat
      BY DEF IInv, TypeOK
    <2>1. ASSUME NEW q \in Requests, Arrive(q) \/ Handle(q) \/ Sync(q)
          PROVE  \A r \in Requests : Mirrored(r)'
      <3>1. \A r \in Requests : Mirrored(r) /\ Published(r)
        BY <1>2, <2>1, OneMoves DEF MirrorInv
      <3>2. ASSUME NEW r \in Requests, r # q PROVE Mirrored(r)'
        <4>1. r \in saved => req[r].user \in Usernames
          BY Working DEF IInv, Saves
        <4>2. QED BY <2>1, <3>1, <3>2, <4>1, OneMoves, MirrorStays
                  DEF Mirrored, ListenerBusy
      <3>3. QED BY <2>1, <3>1, <3>2, MirroredStep
    <2>2. CASE UNCHANGED vars
      BY <1>2, <2>2 DEF vars, MirrorInv, Mirrored, ListenerBusy
    <2>3. ASSUME NEW q \in Requests, AwaitRejects(q) \/ SyncRejects(q) PROVE FALSE
      BY <1>2, <2>0, <2>3 DEF AwaitRejects, SyncRejects
    <2>4. CASE Crash
      BY <1>2, <2>0, <2>4 DEF Crash
    <2>5. QED BY <2>1, <2>2, <2>3, <2>4 DEF Next
  <1>3. QED BY <1>1, <1>2 DEF MirrorInv

(* Saved assignments and their events, in every interleaving.              *)
LEMMA MirrorInvariant == Spec => []MirrorInv
  <1>1. Init => MirrorInv
    BY DEF Init, MirrorInv, Published, Mirrored
  <1>2. IInv /\ MirrorInv /\ [Next]_vars => MirrorInv'
    BY MirrorStep
  <1>3. QED BY <1>1, <1>2, Inductive, PTL DEF Spec

(* However requests and listeners overlap, a saved portal role has given   *)
(* its employee a row in the read model once nothing is at work, unless a  *)
(* call failed or the process died.                                        *)
THEOREM PortalRolesAreMirrored == Spec => []PortalRolesMirrored
  <1>1. IInv /\ MirrorInv => PortalRolesMirrored
    <2> SUFFICES ASSUME IInv, MirrorInv, faults + crashes = 0, Quiet,
                        NEW u \in Usernames, NEW r \in saved,
                        req[r].user = u, req[r].role \in BankRoles
                 PROVE  adminUsers[u] # Null
      BY DEF PortalRolesMirrored
    <2>1. r \in Requests /\ Mirrored(r)
      BY DEF IInv, TypeOK, MirrorInv
    <2>2. pc[r] # "publish" /\ ~ListenerBusy(r)
      BY <2>1 DEF Quiet, HandlerBusy
    <2>3. QED BY <2>1, <2>2 DEF Mirrored, BankRoles, Portal
  <1>2. QED BY <1>1, MirrorInvariant, Inductive, PTL

-----------------------------------------------------------------------------
(* Requests that neither overlap nor fail: the stores between two awaits   *)

AtWork(r) == HandlerBusy(r) \/ ListenerBusy(r)

OneAtWork == \A q, r \in Requests : AtWork(q) /\ AtWork(r) => q = r

(* An assignment is a row by the request that saved it first.              *)
RowsSaved == \A a \in Requests : assignments[a] # Null => a \in saved

(* A username nobody is at work on is left as a request leaves it, ...     *)
Settled(u) == Settles(u) /\ (employees[u] = Null => RowsOf(u) = {} /\ Granted(u) = {})

OthersSettled ==
    \A u \in Usernames :
        (\A r \in Requests : AtWork(r) => req[r].user # u) => Settled(u)

(* ... an account that is being created has no role but, in the end, the   *)
(* request's, and its employee no assignment yet, ...                      *)
NewAccount(r) ==
    LET u == req[r].user IN
    /\ pc[r] = "createUser" => employees[u] = Null /\ Settled(u)
    /\ HandlerBusy(r) /\ req[r].op = "signup" => req[r].role = SignupRole
    /\ HandlerBusy(r) /\ req[r].op # "updateRole" => req[r].row = Null
    /\ /\ pc[r] \in {"setPassword", "assignRole", "insertEmployee", "saveAssignment"}
       /\ req[r].op # "updateRole"
       => /\ employees[u] = (IF pc[r] = "saveAssignment" THEN r ELSE Null)
          /\ RowsOf(u) = {} /\ Granted(u) = {}
          /\ pc[r] \in {"setPassword", "assignRole"} => users[u].roles = {}
          /\ pc[r] \in {"insertEmployee", "saveAssignment"} =>
                users[u].roles = {req[r].role}

(* ... one that is being changed has what requests left it, then only what *)
(* updateRole gave before, then the request's role too, ...                *)
GrantedShown(u) == Granted(u) \cap BankRoles # {} => adminUsers[u] \in Granted(u)

OldAccount(r) ==
    LET u == req[r].user IN
    /\ pc[r] \in {"removeRole", "assignRole", "saveAssignment"}
    /\ req[r].op = "updateRole"
    => /\ employees[u] # Null /\ req[r].row = employees[u]
       /\ RowsOf(u) = {req[r].row}
       /\ assignments[req[r].row] = [user |-> u, role |-> req[r].old]
       /\ req[r].old \notin Granted(u) /\ req[r].role # req[r].old
       /\ GrantedShown(u)
       /\ pc[r] = "removeRole" => users[u].roles = InKeycloak(u)
       /\ pc[r] = "assignRole" => users[u].roles = Granted(u)
       /\ pc[r] = "saveAssignment" => users[u].roles = Granted(u) \cup {req[r].role}

(* ... and only the read model is behind once the assignment is saved.     *)
OneRow(u) ==
    /\ RowsOf(u) = {employees[u]}
    /\ assignments[employees[u]].role \notin Granted(u)
    /\ users[u].roles = InKeycloak(u)

Shown(u) == users[u].roles \cap BankRoles # {} => adminUsers[u] \in users[u].roles

Behind(r) ==
    LET u == req[r].user IN
    /\ pc[r] = "publish" \/ ListenerBusy(r) =>
          /\ OneRow(u) /\ req[r].role \in users[u].roles
          /\ req[r].role \notin Portal => Shown(u)
    /\ sync[r] = "insert" => adminUsers[u] = Null

Between(r) == NewAccount(r) /\ OldAccount(r) /\ Behind(r)

AloneInv ==
    Undisturbed =>
        /\ OneAtWork /\ RowsSaved /\ OthersSettled
        /\ \A r \in Requests : Between(r)

(* What a step that is about one username leaves alone.                    *)
Elsewhere(u) ==
    /\ \A v \in Usernames \ {u} : /\ users'[v] = users[v]
                                  /\ employees'[v] = employees[v]
                                  /\ adminUsers'[v] = adminUsers[v]
    /\ \A a \in Requests : assignments'[a] # assignments[a] =>
          /\ assignments[a] = Null \/ assignments[a].user = u
          /\ assignments'[a].user = u
    /\ saved \subseteq saved' /\ UNCHANGED req
    /\ \A r \in saved' \ saved : req[r].user = u

(* The others stay as they were left.                                      *)
LEMMA SettledElsewhere ==
  ASSUME NEW u, Elsewhere(u), NEW v \in Usernames, v # u, Settled(v)
  PROVE  Settled(v)'
  <1>1. /\ users'[v] = users[v] /\ employees'[v] = employees[v]
        /\ adminUsers'[v] = adminUsers[v]
    BY DEF Elsewhere
  <1>2. ASSUME NEW a \in Requests
        PROVE  /\ a \in RowsOf(v)' <=> a \in RowsOf(v)
               /\ a \in RowsOf(v) => assignments'[a] = assignments[a]
    BY DEF Elsewhere, RowsOf
  <1>3. RowsOf(v)' = RowsOf(v)
    BY <1>2 DEF RowsOf
  <1>4. Granted(v)' = Granted(v)
    BY DEF Elsewhere, Granted
  <1>5. Settles(v)'
    <2>1. CASE employees[v] = Null
      BY <1>1, <2>1 DEF Settled, Settles
    <2>2. CASE employees[v] # Null
      <3>1. RowsOf(v) = {employees[v]} /\ employees[v] \in RowsOf(v)
        BY <2>2 DEF Settled, Settles
      <3>2. assignments'[employees[v]] = assignments[employees[v]]
        BY <1>2, <3>1 DEF RowsOf
      <3>3. QED BY <1>1, <1>3, <1>4, <2>2, <3>2 DEF Settled, Settles, InKeycloak
    <2>3. QED BY <2>1, <2>2
  <1>6. QED BY <1>1, <1>3, <1>4, <1>5 DEF Settled

(* What updateRole gave is known from what was saved.                      *)
LEMMA GrantedSame ==
  ASSUME UNCHANGED saved, \A r \in saved : req'[r] = req[r], NEW v
  PROVE  Granted(v)' = Granted(v)
  BY DEF Granted

(* Nothing changes on a username whose stores do not change.               *)
LEMMA SettledSame ==
  ASSUME UNCHANGED <<stores, saved>>, \A r \in saved : req'[r] = req[r],
         NEW v, Settled(v)
  PROVE  Settled(v)'
  <1>1. Granted(v)' = Granted(v) /\ UNCHANGED <<users, employees, assignments, adminUsers>>
    BY GrantedSame DEF stores
  <1>2. RowsOf(v)' = RowsOf(v)
    BY <1>1 DEF RowsOf
  <1>3. QED BY <1>1, <1>2 DEF Settled, Settles, InKeycloak

(* A request that is not at work knows nothing.                            *)
LEMMA RestBetween ==
  ASSUME NEW r \in Requests, ~AtWork(r)'
  PROVE  Between(r)'
  BY DEF Between, NewAccount, OldAccount, Behind, AtWork, HandlerBusy, ListenerBusy

(* A step that leaves the behaviour undisturbed was taken undisturbed.     *)
LEMMA UndisturbedBefore ==
  ASSUME IInv, [Next]_vars, Undisturbed'
  PROVE  /\ Undisturbed
         /\ \/ \E q \in Requests : Arrive(q) \/ Handle(q) \/ Sync(q)
            \/ UNCHANGED vars
         /\ \A q \in Requests : Arrive(q) => \A r \in Requests : ~AtWork(r)
  <1>0. faults \in Nat /\ crashes \in Nat
    BY DEF IInv, TypeOK
  <1>1. ASSUME NEW q \in Requests, AwaitRejects(q) \/ SyncRejects(q) \/ Crash PROVE FALSE
    BY <1>0, <1>1 DEF AwaitRejects, SyncRejects, Crash, Undisturbed
  <1>2. CASE Crash
    BY <1>0, <1>2 DEF Crash, Undisturbed
  <1>3. ASSUME NEW q \in Requests, Arrive(q)
        PROVE  /\ ~overlapped /\ UNCHANGED <<faults, crashes>>
               /\ \A r \in Requests : ~AtWork(r)
    BY <1>3 DEF Arrive, Create, UpdateRole, Signup, Begin, Undisturbed, AtWork, bounds
  <1>4. ASSUME NEW q \in Requests, Handle(q) \/ Sync(q)
        PROVE  UNCHANGED <<overlapped, faults, crashes>>
    BY <1>4 DEF Handle, CreateUser, SetPassword, RemoveRole, AssignRole, InsertEmployee,
                SaveAssignment, Publish, Sync, SyncFind, SyncInsert, SyncUpdate,
                history, bounds
  <1>5. CASE UNCHANGED vars
    BY <1>3, <1>5 DEF vars, Undisturbed
  <1>6. QED BY <1>1, <1>2, <1>3, <1>4, <1>5 DEF Next, Undisturbed

(* The whole, from what a step does to the one request at work.            *)
LEMMA AloneAssemble ==
  ASSUME NEW q \in Requests,
         \A r \in Requests \ {q} : ~AtWork(r)',
         \A v \in Usernames : (v = req'[q].user /\ AtWork(q)') \/ Settled(v)',
         Between(q)', RowsSaved'
  PROVE  AloneInv'
  <1>1. OneAtWork'
    BY DEF OneAtWork
  <1>2. OthersSettled'
    BY DEF OthersSettled
  <1>3. \A r \in Requests : Between(r)'
    BY RestBetween
  <1>4. QED BY <1>1, <1>2, <1>3 DEF AloneInv

-----------------------------------------------------------------------------
(* Each step of the one request at work                                    *)

(* Its checks have found the stores agreeing on the username.              *)
LEMMA ArriveAlone ==
  ASSUME IInv, AloneInv, \A r \in Requests : Published(r),
         [Next]_vars, Undisturbed', NEW q \in Requests, Arrive(q)
  PROVE  AloneInv'
  <1>1. /\ Undisturbed /\ \A r \in Requests : ~AtWork(r)
        /\ RowsSaved /\ OthersSettled
    BY UndisturbedBefore DEF AloneInv
  <1>2. \A u \in Usernames : Settled(u)
    BY <1>1 DEF OthersSettled
  <1>3. UNCHANGED stores /\ UNCHANGED <<sync, saved>> /\ pc[q] = "idle"
    BY DEF Arrive, Create, UpdateRole, Signup, Begin
  <1>k. \A r \in saved : req'[r] = req[r]
    BY <1>3, OneMoves DEF IInv, TypeOK, Saves
  <1>4. /\ \A u \in Usernames : Settled(u)' /\ Granted(u)' = Granted(u)
        /\ RowsSaved'
    BY <1>1, <1>2, <1>3, <1>k, SettledSame, GrantedSame DEF RowsSaved, stores
  <1>5. \A r \in Requests \ {q} : ~AtWork(r)'
    BY <1>1, OneMoves DEF AtWork, HandlerBusy, ListenerBusy
  <1>6. sync'[q] = "none"
    BY <1>3 DEF Published, IInv, Saves
  <1>7. Between(q)'
    <2>0. pc \in [Requests -> Pcs] /\ req \in [Requests -> Request \cup {Null}]
      BY DEF IInv, TypeOK
    <2>1. CASE Create(q) \/ Signup(q)
      <3>1. PICK request : /\ Begin(q, request, "createUser")
                           /\ request.user \in Usernames
                           /\ request.op \in {"create", "signup"}
                           /\ request.op = "signup" => request.role = SignupRole
                           /\ employees[request.user] = Null /\ request.row = Null
        <4>1. CASE Create(q)
          <5>1. PICK actor \in Managers, role \in Roles, u \in Usernames :
                   /\ employees[u] = Null
                   /\ Begin(q, [op |-> "create", user |-> u, role |-> role,
                                actor |-> actor, row |-> Null, old |-> Null],
                            "createUser")
            BY <4>1 DEF Create
          <5> DEFINE request == [op |-> "create", user |-> u, role |-> role,
                                 actor |-> actor, row |-> Null, old |-> Null]
          <5>2. request.user = u /\ request.op = "create" /\ request.row = Null
            OBVIOUS
          <5> HIDE DEF request
          <5>3. QED BY <5>1, <5>2 DEF request
        <4>2. CASE Signup(q)
          <5>1. PICK u \in Usernames :
                   /\ users[u] = NoAccount
                   /\ Begin(q, [op |-> "signup", user |-> u, role |-> SignupRole,
                                actor |-> Null, row |-> Null, old |-> Null],
                            "createUser")
            BY <4>2 DEF Signup
          <5> DEFINE request == [op |-> "signup", user |-> u, role |-> SignupRole,
                                 actor |-> Null, row |-> Null, old |-> Null]
          <5>2. /\ request.user = u /\ request.op = "signup"
                /\ request.role = SignupRole /\ request.row = Null
            OBVIOUS
          <5>3. employees[u] = Null
            BY <5>1 DEF IInv, OwnAccounts
          <5> HIDE DEF request
          <5>4. QED BY <5>1, <5>2, <5>3 DEF request
        <4>3. QED BY <2>1, <4>1, <4>2
      <3>2. pc'[q] = "createUser" /\ req'[q] = request
        BY <2>0, <3>1 DEF Begin, Goto
      <3>3. Settled(request.user)' /\ UNCHANGED employees
        BY <1>3, <1>4, <3>1 DEF stores
      <3>4. NewAccount(q)'
        BY <3>1, <3>2, <3>3 DEF NewAccount
      <3>5. OldAccount(q)' /\ Behind(q)'
        BY <1>6, <3>2 DEF OldAccount, Behind, ListenerBusy
      <3>6. QED BY <3>4, <3>5 DEF Between
    <2>2. CASE UpdateRole(q)
      <3>1. PICK actor \in Managers, role \in Roles, u \in Usernames :
               /\ employees[u] # Null
               /\ \/ RowsOf(u) = {}
                  \/ \E a \in RowsOf(u) :
                     /\ assignments[a].role # role
                     /\ Begin(q, [op |-> "updateRole", user |-> u, role |-> role,
                                  actor |-> actor, row |-> a,
                                  old |-> assignments[a].role], "removeRole")
        BY <2>2 DEF UpdateRole
      <3> DEFINE a == employees[u]
      <3>2. OneRow(u) /\ Shown(u)
        BY <1>2, <3>1 DEF Settled, Settles, OneRow, Shown
      <3>3. /\ assignments[a].role # role
            /\ Begin(q, [op |-> "updateRole", user |-> u, role |-> role,
                         actor |-> actor, row |-> a,
                         old |-> assignments[a].role], "removeRole")
        BY <3>1, <3>2 DEF OneRow
      <3>4. /\ pc'[q] = "removeRole"
            /\ req'[q] = [op |-> "updateRole", user |-> u, role |-> role,
                          actor |-> actor, row |-> a, old |-> assignments[a].role]
        BY <2>0, <3>3 DEF Begin, Goto
      <3>5. assignments[a] = [user |-> u, role |-> assignments[a].role]
        <4>1. a \in RowsOf(u)
          BY <3>2 DEF OneRow
        <4>2. QED BY <4>1 DEF RowsOf, IInv, TypeOK, Assignment
      <3>6. /\ RowsOf(u)' = RowsOf(u) /\ Granted(u)' = Granted(u)
            /\ UNCHANGED <<users, employees, assignments, adminUsers>>
        BY <1>3, <1>4, <3>1 DEF stores, RowsOf
      <3>7. OldAccount(q)'
        <4>1. GrantedShown(u)
          BY <3>2 DEF OneRow, Shown, GrantedShown, InKeycloak
        <4>2. GrantedShown(u)' /\ InKeycloak(u)' = InKeycloak(u)
          BY <3>6, <4>1 DEF GrantedShown, InKeycloak
        <4>3. QED BY <3>1, <3>2, <3>3, <3>4, <3>5, <3>6, <4>2 DEF OldAccount, OneRow
      <3>8. NewAccount(q)' /\ Behind(q)'
        BY <1>6, <3>4 DEF NewAccount, Behind, ListenerBusy
      <3>9. QED BY <3>7, <3>8 DEF Between
    <2>3. QED BY <2>1, <2>2 DEF Arrive
  <1>8. QED BY <1>4, <1>5, <1>7, AloneAssemble

(* What a handler, or a listener, may count on while it is at work alone.  *)
Alone(q) ==
    /\ Undisturbed /\ OneAtWork /\ RowsSaved /\ OthersSettled
    /\ Between(q) /\ Published(q) /\ Fits(q) /\ Holds(q) /\ Saves(q)

LEMMA AloneAtWork ==
  ASSUME IInv, AloneInv, Undisturbed, \A r \in Requests : Published(r),
         NEW q \in Requests
  PROVE  Alone(q)
  BY DEF Alone, AloneInv, IInv

(* Its steps are about the one username of its request.                    *)
LEMMA ActsElsewhere ==
  ASSUME IInv, NEW q \in Requests, Alone(q), Handle(q) \/ Sync(q)
  PROVE  Elsewhere(req[q].user) /\ UNCHANGED req /\ pc[q] # "idle" /\ AtWork(q)
  <1> DEFINE u == req[q].user
  <1>1. UNCHANGED req /\ AtWork(q)
    BY DEF Handle, CreateUser, SetPassword, RemoveRole, AssignRole, InsertEmployee,
           SaveAssignment, Publish, Sync, SyncFind, SyncInsert, SyncUpdate,
           AtWork, HandlerBusy, ListenerBusy
  <1>2. pc[q] # "idle"
    BY <1>1 DEF AtWork, HandlerBusy, ListenerBusy, Alone, Published
  <1>3. u \in Usernames
    BY <1>2, Working
  <1>4. \A v \in Usernames \ {u} : /\ users'[v] = users[v]
                                   /\ employees'[v] = employees[v]
                                   /\ adminUsers'[v] = adminUsers[v]
    <2>1. CASE Handle(q)
      BY <1>3, <2>1 DEF Handle, CreateUser, SetPassword, RemoveRole, AssignRole,
            InsertEmployee, SaveAssignment, Publish, stores, IInv, TypeOK
    <2>2. CASE Sync(q)
      BY <1>3, <2>2 DEF Sync, SyncFind, SyncInsert, SyncUpdate, stores, IInv, TypeOK
    <2>3. QED BY <2>1, <2>2
  <1>5. CASE SaveAssignment(q)
    <2> DEFINE b == IF req[q].row = Null THEN q ELSE req[q].row
    <2>1. assignments[b] = Null \/ assignments[b].user = u
      <3>1. CASE req[q].op = "updateRole"
        <4>1. req[q].row # Null /\ req[q].row \in RowsOf(u)
          BY <1>5, <3>1 DEF SaveAssignment, Alone, Between, OldAccount
        <4>2. QED BY <4>1 DEF RowsOf
      <3>2. CASE req[q].op # "updateRole"
        <4>1. q \notin saved
          BY <1>5 DEF SaveAssignment, Alone, Published
        <4>2. req[q].row = Null
          BY <1>5, <3>2 DEF SaveAssignment, HandlerBusy, Alone, Between, NewAccount
        <4>3. QED BY <4>1, <4>2 DEF Alone, RowsSaved
      <3>3. QED BY <3>1, <3>2
    <2>2. \/ UNCHANGED assignments
          \/ assignments' = [assignments EXCEPT ![b] = [user |-> u, role |-> SavedRole(q)]]
      BY <1>5 DEF SaveAssignment
    <2>3. \A a \in Requests : assignments'[a] # assignments[a] =>
             a = b /\ assignments'[a].user = u
      BY <2>2 DEF IInv, TypeOK
    <2>4. saved \subseteq saved' /\ \A r \in saved' \ saved : req[r].user = u
      BY <1>5 DEF SaveAssignment
    <2>5. QED BY <1>4, <1>1, <1>2, <2>1, <2>3, <2>4 DEF Elsewhere
  <1>6. CASE ~SaveAssignment(q)
    <2>1. UNCHANGED <<assignments, saved>>
      BY <1>6 DEF Handle, CreateUser, SetPassword, RemoveRole, AssignRole,
            InsertEmployee, Publish, Sync, SyncFind, SyncInsert, SyncUpdate, stores, history
    <2>2. QED BY <1>1, <1>2, <1>4, <2>1 DEF Elsewhere
  <1>7. QED BY <1>5, <1>6

(* So what such a step does is what it does to that username.              *)
LEMMA ActAssemble ==
  ASSUME IInv, NEW q \in Requests, Alone(q), Handle(q) \/ Sync(q),
         Between(q)', RowsSaved', AtWork(q)' \/ Settled(req[q].user)'
  PROVE  AloneInv'
  <1>1. Elsewhere(req[q].user) /\ UNCHANGED req /\ AtWork(q)
    BY ActsElsewhere
  <1>2. \A r \in Requests \ {q} : ~AtWork(r)
    BY <1>1 DEF Alone, OneAtWork
  <1>3. \A r \in Requests \ {q} : ~AtWork(r)'
    BY <1>2, OneMoves DEF AtWork, HandlerBusy, ListenerBusy
  <1>4. \A v \in Usernames : v # req[q].user => Settled(v)'
    BY <1>1, <1>2, SettledElsewhere DEF Alone, OthersSettled
  <1>5. QED BY <1>1, <1>3, <1>4, AloneAssemble

(* POST /users and PUT reset-password: an account without roles.           *)
LEMMA CreateUserAlone ==
  ASSUME IInv, NEW q \in Requests, Alone(q), CreateUser(q) \/ SetPassword(q)
  PROVE  AloneInv'
  <1> DEFINE u == req[q].user
  <1>0. /\ pc[q] \in {"createUser", "setPassword"} /\ u \in Usernames
        /\ req[q].op # "updateRole" /\ sync[q] = "none"
        /\ UNCHANGED <<employees, assignments, adminUsers, req, sync, saved>>
        /\ pc \in [Requests -> Pcs] /\ users \in [Usernames -> Account \cup {NoAccount}]
        /\ Handle(q) /\ pc[q] # "idle"
    BY Working DEF CreateUser, SetPassword, Handle, IInv, TypeOK, Fits, Alone,
                   Published, history
  <1>1. RowsSaved' /\ RowsOf(u)' = RowsOf(u)
    BY <1>0 DEF Alone, RowsSaved, RowsOf
  <1>2. CASE UNCHANGED users /\ Goto(q, "done")
    <2>1. pc'[q] = "done" /\ UNCHANGED stores
      BY <1>0, <1>2 DEF Goto, stores
    <2>2. Settled(u)
      BY <1>0, <1>2 DEF Alone, Between, NewAccount, CreateUser, SetPassword, Goto
    <2>3. Settled(u)'
      BY <1>0, <2>1, <2>2, SettledSame
    <2>4. ~AtWork(q)'
      BY <1>0, <2>1 DEF AtWork, HandlerBusy, ListenerBusy
    <2>5. QED BY <1>0, <1>1, <2>3, <2>4, RestBetween, ActAssemble
  <1>3. CASE ~(UNCHANGED users /\ Goto(q, "done"))
    <2>1. /\ pc'[q] \in {"setPassword", "assignRole"} /\ users'[u].roles = {}
      <3>1. CASE CreateUser(q)
        BY <1>0, <1>3, <3>1 DEF CreateUser, Goto
      <3>2. CASE SetPassword(q)
        <4>1. users[u].roles = {}
          BY <1>0, <3>2 DEF SetPassword, Alone, Between, NewAccount
        <4>2. users[u] \in Account
          BY <1>0, <3>2 DEF SetPassword, Alone, Holds
        <4>3. [users[u] EXCEPT !.password = TRUE].roles = users[u].roles
          BY <4>2 DEF Account
        <4>4. QED BY <1>0, <3>2, <4>1, <4>3 DEF SetPassword, Goto
      <3>3. QED BY <3>1, <3>2
    <2>2. employees[u] = Null /\ RowsOf(u) = {} /\ Granted(u)' = {}
      BY <1>0, GrantedSame DEF Alone, Between, NewAccount, Settled
    <2>3. HandlerBusy(q) /\ HandlerBusy(q)'
      BY <1>0, <2>1 DEF HandlerBusy
    <2>4. NewAccount(q)'
      BY <1>0, <1>1, <2>1, <2>2, <2>3 DEF Alone, Between, NewAccount
    <2>5. OldAccount(q)' /\ Behind(q)'
      BY <1>0, <2>1 DEF OldAccount, Behind, ListenerBusy
    <2>6. QED BY <1>0, <1>1, <2>3, <2>4, <2>5, ActAssemble DEF Between, AtWork
  <1>4. QED BY <1>2, <1>3

(* DELETE of the role the row shows, which is there the first time only.   *)
LEMMA RemoveRoleAlone ==
  ASSUME IInv, NEW q \in Requests, Alone(q), RemoveRole(q)
  PROVE  AloneInv'
  <1> DEFINE u == req[q].user
  <1>0. /\ pc[q] = "removeRole" /\ u \in Usernames
        /\ req[q].op = "updateRole" /\ sync[q] = "none"
        /\ UNCHANGED <<employees, assignments, adminUsers, req, sync, saved>>
        /\ pc \in [Requests -> Pcs] /\ users \in [Usernames -> Account \cup {NoAccount}]
        /\ Handle(q) /\ pc[q] # "idle"
    BY Working DEF RemoveRole, Handle, IInv, TypeOK, Fits, Alone, Published, history
  <1>1. RowsSaved' /\ RowsOf(u)' = RowsOf(u) /\ Granted(u)' = Granted(u)
    BY <1>0, GrantedSame DEF Alone, RowsSaved, RowsOf
  <1>2. /\ users[u] \in Account /\ users[u].roles = InKeycloak(u)
        /\ assignments[employees[u]].role = req[q].old /\ req[q].old \notin Granted(u)
    BY <1>0, AccountThere DEF Alone, Between, OldAccount
  <1>3. InKeycloak(u) \ {req[q].old} = Granted(u)
    BY <1>2 DEF InKeycloak
  <1>4. [users[u] EXCEPT !.roles = @ \ {req[q].old}].roles = Granted(u)
    BY <1>2, <1>3 DEF Account
  <1>5. users'[u].roles = Granted(u) /\ pc'[q] = "assignRole"
    BY <1>0, <1>4 DEF RemoveRole, Goto
  <1>6. OldAccount(q)'
    BY <1>0, <1>1, <1>5 DEF Alone, Between, OldAccount, GrantedShown
  <1>7. NewAccount(q)' /\ Behind(q)' /\ AtWork(q)'
    BY <1>0, <1>5 DEF NewAccount, Behind, ListenerBusy, AtWork, HandlerBusy
  <1>8. QED BY <1>0, <1>1, <1>6, <1>7, ActAssemble DEF Between

(* POST of the request's role.                                             *)
LEMMA AssignRoleAlone ==
  ASSUME IInv, NEW q \in Requests, Alone(q), AssignRole(q)
  PROVE  AloneInv'
  <1> DEFINE u == req[q].user
  <1>0. /\ pc[q] = "assignRole" /\ u \in Usernames /\ sync[q] = "none"
        /\ req[q].op \in {"create", "updateRole", "signup"}
        /\ UNCHANGED <<employees, assignments, adminUsers, req, sync, saved>>
        /\ pc \in [Requests -> Pcs] /\ users \in [Usernames -> Account \cup {NoAccount}]
        /\ Handle(q) /\ pc[q] # "idle" /\ HandlerBusy(q)
    BY Working DEF AssignRole, Handle, IInv, TypeOK, Alone, Published, history,
                   HandlerBusy
  <1>1. RowsSaved' /\ RowsOf(u)' = RowsOf(u) /\ Granted(u)' = Granted(u)
    BY <1>0, GrantedSame DEF Alone, RowsSaved, RowsOf
  <1>2. users[u] \in Account
    BY <1>0, AccountThere
  <1>3. /\ [users[u] EXCEPT !.roles = @ \cup {req[q].role}].roles
              = users[u].roles \cup {req[q].role}
        /\ [users[u] EXCEPT !.roles = @ \cup {req[q].role}].password = users[u].password
    BY <1>2 DEF Account
  <1>4. /\ users'[u].roles = users[u].roles \cup {req[q].role}
        /\ users'[u].password = users[u].password
        /\ pc'[q] = AfterAssign[req[q].op]
    BY <1>0, <1>3 DEF AssignRole, Goto
  <1>n. req[q].op # "updateRole" =>
           /\ users'[u].roles = {req[q].role}
           /\ employees[u] = Null /\ RowsOf(u) = {} /\ Granted(u) = {}
    BY <1>0, <1>4 DEF Alone, Between, NewAccount
  <1>5. CASE req[q].op = "create"
    <2>1. pc'[q] = "insertEmployee"
      BY <1>4, <1>5 DEF AfterAssign
    <2>2. NewAccount(q)'
      BY <1>0, <1>1, <1>n, <1>5, <2>1 DEF Alone, Between, NewAccount
    <2>3. OldAccount(q)' /\ Behind(q)' /\ AtWork(q)'
      BY <1>0, <2>1 DEF OldAccount, Behind, ListenerBusy, AtWork, HandlerBusy
    <2>4. QED BY <1>0, <1>1, <2>2, <2>3, ActAssemble DEF Between
  <1>6. CASE req[q].op = "updateRole"
    <2>1. pc'[q] = "saveAssignment"
      BY <1>4, <1>6 DEF AfterAssign
    <2>2. OldAccount(q)'
      BY <1>0, <1>1, <1>4, <1>6, <2>1 DEF Alone, Between, OldAccount, GrantedShown
    <2>3. NewAccount(q)' /\ Behind(q)' /\ AtWork(q)'
      BY <1>0, <1>6, <2>1 DEF NewAccount, Behind, ListenerBusy, AtWork, HandlerBusy
    <2>4. QED BY <1>0, <1>1, <2>2, <2>3, ActAssemble DEF Between
  <1>7. CASE req[q].op = "signup"
    <2>1. pc'[q] = "done"
      BY <1>4, <1>7 DEF AfterAssign
    <2>2. req[q].role = SignupRole /\ users[u].password
      BY <1>0, <1>7 DEF Alone, Between, NewAccount, Holds
    <2>3. Settled(u)'
      BY <1>0, <1>1, <1>4, <1>n, <1>7, <2>2 DEF Settled, Settles
    <2>4. ~AtWork(q)'
      BY <1>0, <2>1 DEF ListenerBusy, AtWork, HandlerBusy
    <2>5. QED BY <1>0, <1>1, <2>3, <2>4, RestBetween, ActAssemble
  <1>8. QED BY <1>0, <1>5, <1>6, <1>7

(* The INSERT of the employee, who has no assignment yet.                  *)
LEMMA InsertEmployeeAlone ==
  ASSUME IInv, NEW q \in Requests, Alone(q), InsertEmployee(q)
  PROVE  AloneInv'
  <1> DEFINE u == req[q].user
  <1>0. /\ pc[q] = "insertEmployee" /\ pc'[q] = "saveAssignment" /\ sync[q] = "none"
        /\ req[q].op = "create" /\ u \in Usernames
        /\ employees'[u] = q
        /\ UNCHANGED <<users, assignments, adminUsers, req, sync, saved>>
        /\ Handle(q) /\ HandlerBusy(q) /\ HandlerBusy(q)'
    BY Working DEF InsertEmployee, Handle, Goto, IInv, TypeOK, Fits, Alone, Published,
                   history, HandlerBusy
  <1>1. RowsSaved' /\ RowsOf(u)' = RowsOf(u) /\ Granted(u)' = Granted(u)
    BY <1>0, GrantedSame DEF Alone, RowsSaved, RowsOf
  <1>2. NewAccount(q)'
    BY <1>0, <1>1 DEF Alone, Between, NewAccount
  <1>3. OldAccount(q)' /\ Behind(q)'
    BY <1>0 DEF OldAccount, Behind, ListenerBusy
  <1>4. QED BY <1>0, <1>1, <1>2, <1>3, ActAssemble DEF Between, AtWork

(* The INSERT of an employee's first assignment.                           *)
LEMMA SaveNewAlone ==
  ASSUME IInv, NEW q \in Requests, Alone(q), SaveAssignment(q), req[q].op = "create"
  PROVE  Behind(q)' /\ RowsSaved' /\ pc'[q] = "publish"
  <1> DEFINE u == req[q].user
             row == [user |-> u, role |-> req[q].role]
  <1>0. /\ pc[q] = "saveAssignment" /\ sync[q] = "none" /\ pc[q] # "idle"
        /\ req[q].role \in Roles
        /\ UNCHANGED <<users, employees, adminUsers, req, sync>>
        /\ assignments \in [Requests -> Assignment \cup {Null}]
        /\ pc \in [Requests -> Pcs] /\ HandlerBusy(q) /\ u \in Usernames
    BY Working DEF SaveAssignment, IInv, TypeOK, Fits, Alone, Published, HandlerBusy
  <1>1. /\ users[u].roles = {req[q].role} /\ employees[u] = q
        /\ req[q].row = Null /\ RowsOf(u) = {} /\ Granted(u) = {}
    BY <1>0 DEF Alone, Between, NewAccount
  <1>2. SavedRole(q) = req[q].role /\ ~Duplicate(q)
    BY <1>1 DEF SavedRole, Duplicate
  <1>3. /\ assignments' = [assignments EXCEPT ![q] = row]
        /\ saved' = saved \cup {q} /\ pc'[q] = "publish"
    BY <1>0, <1>1, <1>2 DEF SaveAssignment, Goto
  <1>4. row # Null /\ row.user = u /\ row.role = req[q].role
    <2>1. row \in Assignment
      BY <1>0 DEF Assignment
    <2>2. QED BY <2>1, NullOutside
  <1> HIDE DEF row
  <1>5. /\ assignments'[q] = row
        /\ \A a \in Requests : a # q => assignments'[a] = assignments[a]
    BY <1>0, <1>3
  <1>6. RowsOf(u)' = {q}
    <2>1. \A a \in Requests : assignments'[a] # Null /\ assignments'[a].user = u <=> a = q
      BY <1>1, <1>4, <1>5 DEF RowsOf
    <2>2. QED BY <1>0, <2>1 DEF RowsOf
  <1>7. Granted(u)' = {}
    BY <1>0, <1>1, <1>3 DEF Granted
  <1>8. OneRow(u)'
    BY <1>0, <1>1, <1>4, <1>5, <1>6, <1>7 DEF OneRow, InKeycloak
  <1>9. req[q].role \notin Portal => Shown(u)'
    BY <1>0, <1>1 DEF Shown, Portal, BankRoles
  <1>10. RowsSaved'
    BY <1>3, <1>5 DEF Alone, RowsSaved
  <1>11. QED BY <1>0, <1>1, <1>3, <1>8, <1>9, <1>10 DEF Behind

(* The UPDATE of the one an employee has: its role stays what it was, and  *)
(* the request's is one more that Keycloak has.                            *)
LEMMA SaveOldAlone ==
  ASSUME IInv, NEW q \in Requests, Alone(q), SaveAssignment(q), req[q].op = "updateRole"
  PROVE  Behind(q)' /\ RowsSaved' /\ pc'[q] = "publish"
  <1> DEFINE u == req[q].user
             b == req[q].row
  <1>0. /\ pc[q] = "saveAssignment" /\ sync[q] = "none" /\ pc[q] # "idle"
        /\ req[q].role \in Roles /\ saved \subseteq Requests
        /\ UNCHANGED <<users, employees, adminUsers, req, sync>>
        /\ assignments \in [Requests -> Assignment \cup {Null}]
        /\ pc \in [Requests -> Pcs] /\ u \in Usernames
    BY Working DEF SaveAssignment, IInv, TypeOK, Fits, Alone, Published
  <1>1. /\ b # Null /\ b = employees[u] /\ RowsOf(u) = {b}
        /\ assignments[b] = [user |-> u, role |-> req[q].old]
        /\ req[q].old \notin Granted(u) /\ req[q].role # req[q].old
        /\ GrantedShown(u) /\ users[u].roles = Granted(u) \cup {req[q].role}
    BY <1>0 DEF Alone, Between, OldAccount
  <1>2. SavedRole(q) = req[q].old /\ ~Duplicate(q)
    BY <1>1 DEF SavedRole, Duplicate
  <1>3. /\ assignments' = [assignments EXCEPT ![b] = [user |-> u, role |-> req[q].old]]
        /\ saved' = saved \cup {q} /\ pc'[q] = "publish"
    BY <1>0, <1>1, <1>2 DEF SaveAssignment, Goto
  <1>4. assignments' = assignments
    BY <1>0, <1>1, <1>3
  <1>5. RowsOf(u)' = RowsOf(u)
    BY <1>0, <1>4 DEF RowsOf
  <1>6. Granted(u)' = Granted(u) \cup {req[q].role}
    BY <1>0, <1>3 DEF Granted
  <1>7. OneRow(u)'
    BY <1>0, <1>1, <1>4, <1>5, <1>6 DEF OneRow, InKeycloak
  <1>8. req[q].role \notin Portal => Shown(u)'
    BY <1>0, <1>1 DEF Shown, GrantedShown, Portal, BankRoles
  <1>9. RowsSaved'
    BY <1>3, <1>4 DEF Alone, RowsSaved
  <1>10. QED BY <1>0, <1>1, <1>3, <1>7, <1>8, <1>9 DEF Behind

(* The save of the assignment, which nothing refuses.                      *)
LEMMA SaveAssignmentAlone ==
  ASSUME IInv, NEW q \in Requests, Alone(q), SaveAssignment(q)
  PROVE  AloneInv'
  <1>1. req[q].op \in {"create", "updateRole"} /\ Handle(q) /\ UNCHANGED req
    BY Working DEF SaveAssignment, Handle, IInv, Fits
  <1>2. Behind(q)' /\ RowsSaved' /\ pc'[q] = "publish"
    BY <1>1, SaveNewAlone, SaveOldAlone
  <1>3. NewAccount(q)' /\ OldAccount(q)'
    BY <1>1, <1>2 DEF SaveAssignment, Alone, Between, NewAccount, OldAccount, HandlerBusy
  <1>4. AtWork(q)'
    BY <1>2 DEF AtWork, HandlerBusy
  <1>5. QED BY <1>1, <1>2, <1>3, <1>4, ActAssemble DEF Between

(* One row, shown where the portal needs it: as a request leaves it.       *)
LEMMA OneRowSettles ==
  ASSUME NEW u, OneRow(u), employees[u] # Null, Shown(u)
  PROVE  Settled(u)
  BY DEF OneRow, Shown, Settled, Settles

(* The event of a role the portal does not have ends the request.          *)
LEMMA PublishAlone ==
  ASSUME IInv, NEW q \in Requests, Alone(q), Publish(q)
  PROVE  AloneInv'
  <1> DEFINE u == req[q].user
  <1>0. /\ pc[q] = "publish" /\ pc'[q] = "done" /\ sync[q] = "none"
        /\ sync'[q] = IF req[q].role \in Portal THEN "find" ELSE "done"
        /\ UNCHANGED stores /\ UNCHANGED <<req, saved>> /\ Handle(q)
        /\ employees[u] # Null
    BY DEF Publish, Handle, Goto, IInv, TypeOK, Saves, Alone, Published, history
  <1>1. /\ OneRow(u) /\ req[q].role \in users[u].roles
        /\ req[q].role \notin Portal => Shown(u)
    BY <1>0 DEF Alone, Between, Behind
  <1>2. /\ RowsSaved' /\ RowsOf(u)' = RowsOf(u) /\ Granted(u)' = Granted(u)
        /\ UNCHANGED <<users, employees, assignments, adminUsers>>
    BY <1>0, GrantedSame DEF Alone, RowsSaved, RowsOf, stores
  <1>3. OneRow(u)'
    BY <1>0, <1>1, <1>2 DEF OneRow, InKeycloak
  <1>4. Between(q)'
    BY <1>0, <1>1, <1>2, <1>3
       DEF Between, NewAccount, OldAccount, Behind, HandlerBusy, Shown
  <1>5. AtWork(q)' \/ Settled(u)'
    <2>1. CASE req[q].role \in Portal
      BY <1>0, <2>1 DEF AtWork, ListenerBusy
    <2>2. CASE req[q].role \notin Portal
      <3>1. Settled(u)
        BY <1>0, <1>1, <2>2, OneRowSettles
      <3>2. QED BY <1>0, <3>1, SettledSame
    <2>3. QED BY <2>1, <2>2
  <1>6. QED BY <1>0, <1>2, <1>4, <1>5, ActAssemble

(* The listener finds the row or not, and nobody inserts one meanwhile.    *)
LEMMA SyncAlone ==
  ASSUME IInv, NEW q \in Requests, Alone(q), Sync(q)
  PROVE  AloneInv'
  <1> DEFINE u == req[q].user
  <1>0. /\ ListenerBusy(q) /\ pc[q] = "done" /\ pc'[q] = "done"
        /\ UNCHANGED <<users, employees, assignments, req, saved>>
        /\ sync \in [Requests -> Syncs]
        /\ adminUsers \in [Usernames -> Roles \cup {Null}]
    BY DEF Sync, SyncFind, SyncInsert, SyncUpdate, ListenerBusy, IInv, TypeOK, Alone,
           Published, stores, history
  <1>1. /\ u \in Usernames /\ employees[u] # Null /\ req[q].role \in Portal
    BY <1>0, Listening
  <1>2. OneRow(u) /\ req[q].role \in users[u].roles
    BY <1>0 DEF Alone, Between, Behind
  <1>3. RowsSaved' /\ RowsOf(u)' = RowsOf(u) /\ Granted(u)' = Granted(u)
    BY <1>0, GrantedSame DEF Alone, RowsSaved, RowsOf
  <1>r. OneRow(u)'
    BY <1>0, <1>2, <1>3 DEF OneRow, InKeycloak
  <1>4. CASE SyncFind(q)
    <2>1. /\ sync'[q] = (IF adminUsers[u] = Null THEN "insert" ELSE "update")
          /\ UNCHANGED adminUsers
      BY <1>0, <1>4 DEF SyncFind, stores
    <2>2. Between(q)'
      BY <1>0, <1>1, <1>2, <1>r, <2>1
         DEF Between, NewAccount, OldAccount, Behind, HandlerBusy
    <2>3. AtWork(q)'
      BY <2>1 DEF AtWork, ListenerBusy
    <2>4. QED BY <1>3, <2>2, <2>3, ActAssemble
  <1>5. CASE SyncInsert(q) \/ SyncUpdate(q)
    <2>1. sync'[q] = "done" /\ adminUsers'[u] = req[q].role
      BY <1>0, <1>1, <1>5 DEF SyncInsert, SyncUpdate, Alone, Between, Behind
    <2>2. ~AtWork(q)'
      BY <1>0, <2>1 DEF AtWork, HandlerBusy, ListenerBusy
    <2>3. Shown(u)'
      BY <1>0, <1>2, <2>1 DEF Shown
    <2>4. Settled(u)'
      BY <1>0, <1>1, <1>r, <2>3 DEF OneRow, Shown, Settled, Settles
    <2>5. QED BY <1>3, <2>2, <2>4, RestBetween, ActAssemble
  <1>6. QED BY <1>4, <1>5 DEF Sync

-----------------------------------------------------------------------------
(* The theorems                                                            *)

(* The invariant of requests that neither overlap nor fail.                *)
LEMMA AloneStep ==
  ASSUME IInv, MirrorInv, AloneInv, [Next]_vars
  PROVE  AloneInv'
  <1> SUFFICES ASSUME Undisturbed' PROVE AloneInv'
    BY DEF AloneInv
  <1>0. Undisturbed /\ \A r \in Requests : Published(r)
    BY UndisturbedBefore DEF MirrorInv
  <1>1. ASSUME NEW q \in Requests, Handle(q) \/ Sync(q) PROVE AloneInv'
    <2>1. Alone(q)
      BY <1>0, AloneAtWork
    <2>2. QED BY <1>1, <2>1, CreateUserAlone, RemoveRoleAlone, AssignRoleAlone,
              InsertEmployeeAlone, SaveAssignmentAlone, PublishAlone, SyncAlone DEF Handle
  <1>2. ASSUME NEW q \in Requests, Arrive(q) PROVE AloneInv'
    BY <1>0, <1>2, ArriveAlone
  <1>3. CASE UNCHANGED vars
    <2>1. /\ UNCHANGED <<users, employees, assignments, adminUsers, req, pc, sync, saved>>
          /\ \A u \in Usernames : RowsOf(u)' = RowsOf(u) /\ Granted(u)' = Granted(u)
      BY <1>3, GrantedSame DEF vars, RowsOf
    <2>2. \A r \in Requests : (AtWork(r)' <=> AtWork(r)) /\ (~AtWork(r) \/ pc[r] # "idle")
      BY <1>0, <2>1 DEF AtWork, HandlerBusy, ListenerBusy, Published
    <2>3. \A u \in Usernames : Settled(u) => Settled(u)'
      BY <2>1 DEF Settled, Settles, InKeycloak
    <2>4. OneAtWork' /\ RowsSaved' /\ OthersSettled'
      BY <1>0, <2>1, <2>2, <2>3 DEF AloneInv, OneAtWork, RowsSaved, OthersSettled
    <2>5. ASSUME NEW r \in Requests PROVE Between(r)'
      <3>1. CASE ~AtWork(r)
        BY <2>2, <3>1, RestBetween
      <3>2. CASE AtWork(r)
        <4>1. req[r].user \in Usernames /\ Between(r)
          BY <1>0, <2>2, <3>2, Working DEF AloneInv
        <4>2. NewAccount(r)'
          BY <2>1, <2>3, <4>1 DEF Between, NewAccount, HandlerBusy
        <4>3. OldAccount(r)'
          BY <2>1, <4>1 DEF Between, OldAccount, GrantedShown, InKeycloak
        <4>4. Behind(r)'
          BY <2>1, <4>1 DEF Between, Behind, ListenerBusy, OneRow, Shown, InKeycloak
        <4>5. QED BY <4>2, <4>3, <4>4 DEF Between
      <3>3. QED BY <3>1, <3>2
    <2>6. QED BY <2>4, <2>5 DEF AloneInv
  <1>4. QED BY <1>1, <1>2, <1>3, UndisturbedBefore

(* Handled one at a time and without failures, a request finds every       *)
(* username but its own as requests leave it, and on its own each store    *)
(* is where its handler is.                                                *)
LEMMA AloneInvariant == Spec => []AloneInv
  <1>1. Init => AloneInv
    <2> SUFFICES ASSUME Init PROVE AloneInv
      OBVIOUS
    <2>1. \A r \in Requests : ~AtWork(r) /\ Between(r)
      BY DEF Init, AtWork, HandlerBusy, ListenerBusy, Between, NewAccount, OldAccount,
             Behind
    <2>2. \A u \in Usernames : Settled(u)
      BY DEF Init, Settled, Settles, RowsOf, Granted
    <2>3. RowsSaved
      BY DEF Init, RowsSaved
    <2>4. QED BY <2>1, <2>2, <2>3 DEF AloneInv, OneAtWork, OthersSettled
  <1>2. IInv /\ MirrorInv /\ AloneInv /\ [Next]_vars => AloneInv'
    BY AloneStep
  <1>3. QED BY <1>1, <1>2, MirrorInvariant, Inductive, PTL DEF Spec

(* What creates, updates and sign-ups leave behind: the assignment of the  *)
(* create with its role, every role updateRole gave in Keycloak, and one   *)
(* of those Keycloak has in the read model.                                *)
THEOREM StoresAreSettled == Spec => []StoresSettle
  <1>1. AloneInv => StoresSettle
    BY DEF AloneInv, StoresSettle, OthersSettled, Settled, Quiet, AtWork
  <1>2. QED BY <1>1, AloneInvariant, PTL

=============================================================================
