------------------------------- MODULE Roles -------------------------------
(***************************************************************************)
(* Role administration: RolesService (create, update, mapPermissions, who  *)
(* may assign a role), PermissionsService.create, and the realm roles they *)
(* keep in Keycloak.  Handlers edit `rbac_role` (the rows of Editing, a    *)
(* row known by its unique name) and replace the delegations and the       *)
(* permissions of a role by deleting all and inserting the new ones.       *)
(*                                                                         *)
(* A request that is refused before its first write changes nothing and is *)
(* not an action.                                                          *)
(***************************************************************************)
EXTENDS Editing

CONSTANTS
    Descriptions,   \* of a role: texts
    Empty,          \* the empty one
    NoText,         \* a description that is null
    Admins,         \* bank admins a role can be delegated to
    Permissions,    \* permission codes
    NoRole          \* Keycloak has no realm role of this name

(* rbac_role; what is only shown is left out.                              *)
Role == [description : Descriptions \cup {NoText}, active : BOOLEAN, deleted : {FALSE}]

(* What a request brings besides the role: delegates, if it lists any, and *)
(* permissions; and the realm role's description updateRealmRole has read. *)
Dto == [lists       : BOOLEAN,
        delegates   : SUBSET Admins,
        permissions : SUBSET Permissions,
        existing    : Descriptions \cup {Null}]

(* rbac_role_permission and rbac_delegated_role: who granted what is left  *)
(* out.                                                                    *)
Mappings    == [Ids -> SUBSET Permissions]
Delegations == [Ids -> SUBSET Admins]

Ops == {"create", "update", "mapPermissions"}
Pcs == {"idle", "createRealmRole", "insertRole", "getRealmRole",
        "updateRealmRole", "reload", "write", "deleteDelegations", "insertDelegations",
        "deleteMappings", "insertMappings"}

ASSUME RolesAssumption ==
    /\ NoRow \notin Role /\ Empty \in Descriptions
    /\ {NoRole, NoText} \cap Descriptions = {}
    /\ Null \notin Ops \cup Ids \cup Dto \cup Descriptions \cup {NoText}

VARIABLES
    realm,          \* Keycloak's realm roles: their descriptions, by name
    permissions,    \* rbac_permission, all active
    delegations,    \* rbac_delegated_role: per role, whom it is delegated to
    mappings,       \* rbac_role_permission: per role, its permissions
    dto,            \* what each handler's request brings
    told,           \* history: per role, what its answered requests asked for,
                    \*   until some of them overlap or fail half-way
    failed          \* history: roles a request of which failed on its way

stores == <<realm, permissions, delegations, mappings>>
vars   == <<rows, pc, op, at, entity, cols, raced, realm, permissions,
            delegations, mappings, dto, told, failed>>

(* `text` is the last description that was not null.                       *)
Told == [row : Role \cup {NoRow}, text : Descriptions,
         delegates : SUBSET Admins, permissions : SUBSET Permissions]

Untold == [row |-> NoRow, text |-> Empty, delegates |-> {}, permissions |-> {}]

Init ==
    /\ EditingInit
    /\ realm = [n \in Ids |-> NoRole]
    /\ permissions = {}
    /\ delegations = [n \in Ids |-> {}]
    /\ mappings = [n \in Ids |-> {}]
    /\ dto = [h \in Handlers |-> Null]
    /\ told = [n \in Ids |-> Untold]
    /\ failed = {}

-----------------------------------------------------------------------------
(* Ends of a request                                                       *)

Refuse(h) == Finish(h) /\ dto' = [dto EXCEPT ![h] = Null]

(* History only.                                                           *)
Begun(n) == told' = IF n \in raced' THEN [told EXCEPT ![n] = Untold] ELSE told

(* The response leaves: what the request asked for was done.               *)
Answer(h) ==
    LET n == at[h]  d == dto[h] IN
    /\ Refuse(h)
    /\ told' = IF n \in raced \cup failed THEN told
               ELSE IF op[h] = "mapPermissions"
               THEN [told EXCEPT ![n].permissions = d.permissions]
               ELSE [told EXCEPT
                       ![n].row = entity[h],
                       ![n].text = IF entity[h].description = NoText THEN @
                                   ELSE entity[h].description,
                       ![n].delegates = IF d.lists THEN d.delegates ELSE @]

(* create and update go on with the delegations the request lists: create  *)
(* only when there are some.                                               *)
Delegates(h) ==
    dto[h].lists /\ (op[h] = "create" => dto[h].delegates # {})

GoesOn(h) ==
    IF Delegates(h)
    THEN Resume(h, "deleteDelegations") /\ UNCHANGED <<dto, told>>
    ELSE Answer(h)

-----------------------------------------------------------------------------
(* PermissionsService.create: the unique code lets one INSERT through.     *)
CreatePermission(p) ==
    /\ p \notin permissions
    /\ permissions' = permissions \cup {p}
    /\ UNCHANGED <<editing, realm, delegations, mappings, dto, told, failed>>

(* create: no row has the name.                                            *)
Create(h, n, desc, lists, delegates) ==
    /\ ~lists => delegates = {}
    /\ pc[h] = "idle" /\ rows[n] = NoRow
    /\ pc' = [pc EXCEPT ![h] = "createRealmRole"]
    /\ op' = [op EXCEPT ![h] = "create"]
    /\ at' = [at EXCEPT ![h] = n]
    /\ entity' = [entity EXCEPT ![h] = [description |-> desc, active |-> TRUE,
                                        deleted |-> FALSE]]
    /\ raced' = raced \cup {m \in {n} : Busy(m)}
    /\ dto' = [dto EXCEPT ![h] = [lists |-> lists, delegates |-> delegates,
                                  permissions |-> {}, existing |-> Null]]
    /\ UNCHANGED <<rows, cols, stores, failed>>
    /\ Begun(n)

(* POST /roles: Keycloak refuses a name it has, and the request fails.  It *)
(* is sent '' for a description that is missing or null, the row gets NULL.*)
CreateRealmRole_NotSent(h) ==
    /\ pc[h] = "createRealmRole"
    /\ Resume(h, "insertRole")
    /\ UNCHANGED <<rows, raced, stores, dto, told, failed>>
CreateRealmRole(h) ==
    /\ pc[h] = "createRealmRole"
    /\ IF realm[at[h]] = NoRole
       THEN /\ realm' = [realm EXCEPT ![at[h]] =
                  IF entity[h].description = NoText THEN Empty
                  ELSE entity[h].description]
            /\ Resume(h, "insertRole") /\ UNCHANGED dto
       ELSE Refuse(h) /\ UNCHANGED realm
    /\ UNCHANGED <<rows, raced, permissions, delegations, mappings, told, failed>>

(* roles.save() of the new role; the name is unique.                       *)
InsertRole(h) ==
    /\ pc[h] = "insertRole"
    /\ IF rows[at[h]] = NoRow
       THEN rows' = [rows EXCEPT ![at[h]] = entity[h]] /\ GoesOn(h)
       ELSE Refuse(h) /\ UNCHANGED <<rows, told>>
    /\ UNCHANGED <<raced, stores, failed>>

Update_Unmentioned(h, n, desc, active, lists, delegates) ==
    /\ ~lists => delegates = {}
    /\ rows[n] # NoRow
    /\ Begin(h, "update", n,
             [rows[n] EXCEPT !.description = desc,
                             !.active = IF active = Null THEN @ ELSE active],
             IF desc = Null THEN "reload" ELSE "getRealmRole")
    /\ dto' = [dto EXCEPT ![h] = [lists |-> lists, delegates |-> delegates,
                                  permissions |-> {}, existing |-> Null]]
    /\ UNCHANGED <<stores, failed>>
    /\ Begun(n)
(* update: what the request does not mention keeps the value read.         *)
Update(h, n, desc, active, lists, delegates) ==
    /\ ~lists => delegates = {}
    /\ rows[n] # NoRow
    /\ Begin(h, "update", n,
             [rows[n] EXCEPT !.description = IF desc = Null THEN @ ELSE desc,
                             !.active = IF active = Null THEN @ ELSE active],
             IF desc = Null THEN "reload" ELSE "getRealmRole")
    /\ dto' = [dto EXCEPT ![h] = [lists |-> lists, delegates |-> delegates,
                                  permissions |-> {}, existing |-> Null]]
    /\ UNCHANGED <<stores, failed>>
    /\ Begun(n)

(* updateRealmRole: GET of the realm role, ...                             *)
GetRealmRole(h) ==
    /\ pc[h] = "getRealmRole"
    /\ dto' = [dto EXCEPT ![h].existing = realm[at[h]]]
    /\ Resume(h, "updateRealmRole")
    /\ UNCHANGED <<rows, raced, stores, told, failed>>

(* ... then PUT, which sends back what was read when the request gives     *)
(* null, while the row becomes NULL.                                       *)
UpdateRealmRole_Emptied(h) ==
    /\ pc[h] = "updateRealmRole"
    /\ realm' = [realm EXCEPT ![at[h]] =
          IF entity[h].description = NoText THEN Empty ELSE entity[h].description]
    /\ Resume(h, "reload")
    /\ UNCHANGED <<rows, raced, permissions, delegations, mappings, dto, told, failed>>
UpdateRealmRole(h) ==
    /\ pc[h] = "updateRealmRole"
    /\ realm' = [realm EXCEPT ![at[h]] =
          IF entity[h].description = NoText THEN dto[h].existing
          ELSE entity[h].description]
    /\ Resume(h, "reload")
    /\ UNCHANGED <<rows, raced, permissions, delegations, mappings, dto, told, failed>>

(* roles.save() of the copy.                                               *)
SaveReload(h) ==
    LET changed == Diff(entity[h], rows[at[h]]) IN
    /\ pc[h] = "reload"
    /\ IF changed = {} THEN GoesOn(h)
       ELSE /\ pc' = [pc EXCEPT ![h] = "write"]
            /\ cols' = [cols EXCEPT ![h] = changed]
            /\ UNCHANGED <<op, at, entity, dto, told>>
    /\ UNCHANGED <<rows, raced, stores, failed>>

SaveWrite(h) ==
    /\ pc[h] = "write"
    /\ rows' = [rows EXCEPT ![at[h]] = Patch(@, entity[h], cols[h])]
    /\ GoesOn(h)
    /\ UNCHANGED <<raced, stores, failed>>

(* replaceDelegations.                                                     *)
DeleteDelegations(h) ==
    /\ pc[h] = "deleteDelegations"
    /\ delegations' = [delegations EXCEPT ![at[h]] = {}]
    /\ IF dto[h].delegates = {} THEN Answer(h)
       ELSE Resume(h, "insertDelegations") /\ UNCHANGED <<dto, told>>
    /\ UNCHANGED <<rows, raced, realm, permissions, mappings, failed>>

(* save() of several rows is one transaction: a pair that is there already *)
(* fails it as a whole.                                                    *)
InsertDelegations(h) ==
    /\ pc[h] = "insertDelegations"
    /\ IF delegations[at[h]] \cap dto[h].delegates = {}
       THEN /\ delegations' = [delegations EXCEPT ![at[h]] = @ \cup dto[h].delegates]
            /\ Answer(h)
       ELSE Refuse(h) /\ UNCHANGED <<delegations, told>>
    /\ UNCHANGED <<rows, raced, realm, permissions, mappings, failed>>

(* mapPermissions: every permission exists and is active, and is listed    *)
(* once.                                                                   *)
MapPermissions(h, n, ps) ==
    /\ ps \subseteq permissions
    /\ Begin(h, "mapPermissions", n, rows[n], "deleteMappings")
    /\ dto' = [dto EXCEPT ![h] = [lists |-> FALSE, delegates |-> {},
                                  permissions |-> ps, existing |-> Null]]
    /\ UNCHANGED <<stores, failed>>
    /\ Begun(n)

DeleteMappings_Skipped(h) ==
    /\ pc[h] = "deleteMappings"
    /\ Resume(h, "insertMappings")
    /\ UNCHANGED <<rows, raced, stores, dto, told, failed>>
DeleteMappings(h) ==
    /\ pc[h] = "deleteMappings"
    /\ mappings' = [mappings EXCEPT ![at[h]] = {}]
    /\ Resume(h, "insertMappings")
    /\ UNCHANGED <<rows, raced, realm, permissions, delegations, dto, told, failed>>

InsertMappings(h) ==
    /\ pc[h] = "insertMappings"
    /\ IF mappings[at[h]] \cap dto[h].permissions = {}
       THEN /\ mappings' = [mappings EXCEPT ![at[h]] = @ \cup dto[h].permissions]
            /\ Answer(h)
       ELSE Refuse(h) /\ UNCHANGED <<mappings, told>>
    /\ UNCHANGED <<rows, raced, realm, permissions, delegations, failed>>

(* A call rejects, or the process dies, before anything has changed.       *)
AwaitRejects(h) ==
    /\ pc[h] # "idle"
    /\ Refuse(h)
    /\ failed' = failed \cup {at[h]}
    /\ told' = [told EXCEPT ![at[h]] = Untold]
    /\ UNCHANGED <<rows, raced, stores>>

-----------------------------------------------------------------------------
Next ==
    \/ \E p \in Permissions : CreatePermission(p)
    \/ \E h \in Handlers, n \in Ids :
          \/ \E l \in BOOLEAN, a \in SUBSET Admins :
                \/ \E d \in Descriptions \cup {NoText} : Create(h, n, d, l, a)
                \/ \E d \in Descriptions \cup {NoText, Null}, x \in BOOLEAN \cup {Null} :
                      Update(h, n, d, x, l, a)
          \/ \E ps \in SUBSET Permissions : MapPermissions(h, n, ps)
    \/ \E h \in Handlers :
          \/ CreateRealmRole(h) \/ InsertRole(h)
          \/ GetRealmRole(h) \/ UpdateRealmRole(h) \/ SaveReload(h) \/ SaveWrite(h)
          \/ DeleteDelegations(h) \/ InsertDelegations(h)
          \/ DeleteMappings(h) \/ InsertMappings(h) \/ AwaitRejects(h)

Spec == Init /\ [][Next]_vars

-----------------------------------------------------------------------------
(* Every variable holds what its column, or its local, may hold.           *)
TypeOK ==
    /\ rows \in [Ids -> Role \cup {NoRow}]
    /\ pc \in [Handlers -> Pcs] /\ op \in [Handlers -> Ops \cup {Null}]
    /\ at \in [Handlers -> Ids \cup {Null}]
    /\ entity \in [Handlers -> Role \cup {NoRow}]
    /\ cols \in [Handlers -> SUBSET {"description", "active", "deleted"}]
    /\ raced \subseteq Ids /\ failed \subseteq Ids
    /\ realm \in [Ids -> Descriptions \cup {NoRole}]
    /\ permissions \subseteq Permissions
    /\ delegations \in Delegations /\ mappings \in Mappings
    /\ dto \in [Handlers -> Dto \cup {Null}]
    /\ told \in [Ids -> Told]

(* A create is at work on the role.                                        *)
Creating(n) == \E h \in Handlers : at[h] = n /\ op[h] = "create"

(* "creates the role in Keycloak, and persists it locally": a role row has *)
(* its realm role, and a realm role has its row as soon as no create is at *)
(* work on it, however creates of one name overlap; unless one of them     *)
(* failed, which leaves a realm role that makes Keycloak refuse the name.  *)
RealmMatchesRows ==
    \A n \in Ids :
        /\ rows[n] # NoRow => realm[n] # NoRole
        /\ realm[n] # NoRole /\ n \notin failed => rows[n] # NoRow \/ Creating(n)

(* assertCanAssignRole: who may assign a role, apart from super admins.    *)
MayAssign(n) == IF rows[n] # NoRow /\ rows[n].active THEN delegations[n] ELSE {}

(* The stores show what requests were answered.                            *)
AsTold(n) ==
    /\ rows[n] = told[n].row
    /\ rows[n] # NoRow =>
          /\ realm[n] = told[n].text
          /\ mappings[n] = told[n].permissions
          /\ MayAssign(n) = IF told[n].row.active THEN told[n].delegates ELSE {}

(* Updates and mappings "replace": once no request is at work on a role,   *)
(* its row, its permissions and who may assign it are what the last        *)
(* answered requests asked for, and the realm role has the last text they  *)
(* gave (null clears the row's, not Keycloak's), unless requests for the   *)
(* role overlapped or failed half-way.                                     *)
RolesAsTold == \A n \in Ids \ (raced \cup failed) : ~Busy(n) => AsTold(n)

=============================================================================
