---------------------------- MODULE AdminProofs ----------------------------
(***************************************************************************)
(* Theorems about what administrators work with.  About Roles: that a      *)
(* role's row and its realm role go together, and that what a role is and  *)
(* may do is what the administrator was told, for any number of roles,     *)
(* permissions and overlapping requests.  About Reports: that the reports  *)
(* agree, a PDF holds its rows and a sheet's letters are its columns, for  *)
(* every table of transactions.                                            *)
(***************************************************************************)
EXTENDS Roles, Reports, FiniteSetTheorems, SequenceTheorems, TLAPS

(* A handler's locals fit the await it stands at, and the role it works on *)
(* is there once it is inserted.                                           *)
Fits(h) ==
    /\ pc[h] = "idle" <=> at[h] = Null
    /\ pc[h] # "idle" =>
          /\ op[h] \in Ops /\ entity[h] \in Role /\ dto[h] \in Dto
          /\ pc[h] \in {"createRealmRole", "insertRole"} => op[h] = "create"
          /\ pc[h] \in {"getRealmRole", "updateRealmRole", "reload", "write"} =>
                op[h] = "update"
          /\ pc[h] = "updateRealmRole" => dto[h].existing \in Descriptions
          /\ pc[h] \in {"deleteMappings", "insertMappings"} <=> op[h] = "mapPermissions"
          /\ op[h] = "mapPermissions" => ~dto[h].lists
          /\ pc[h] \in {"deleteDelegations", "insertDelegations"} => dto[h].lists
          /\ pc[h] \notin {"createRealmRole", "insertRole"} => rows[at[h]] # NoRow
          /\ pc[h] = "insertRole" => realm[at[h]] # NoRole

(* A role row has its realm role, and a realm role nobody failed on has    *)
(* its row, or the handler that is about to insert it.                     *)
Inserting(n) == \E h \in Handlers : at[h] = n /\ pc[h] = "insertRole"

Paired(n) ==
    /\ rows[n] # NoRow => realm[n] # NoRole
    /\ realm[n] # NoRole /\ n \notin failed => rows[n] # NoRow \/ Inserting(n)

(* What the stores show of a role, and what was told of it: ...            *)
RowTold(n) ==
    /\ rows[n] = told[n].row
    /\ rows[n] = NoRow => told[n] = Untold

RealmTold(n) == realm[n] = IF rows[n] = NoRow THEN NoRole ELSE told[n].text

TextTold(n) ==
    rows[n] # NoRow /\ rows[n].description # NoText =>
        told[n].text = rows[n].description

(* The realm role has the row's description; null left it as it was.       *)
RealmShows(n, row) ==
    realm[n] = IF row.description = NoText THEN told[n].text ELSE row.description

DelegatesTold(n) == delegations[n] = told[n].delegates

MappingsTold(n) == mappings[n] = told[n].permissions

(* ... all of it when no request is at work on the role, ...               *)
Settled(n) ==
    /\ RowTold(n) /\ RealmTold(n) /\ TextTold(n)
    /\ DelegatesTold(n) /\ MappingsTold(n)

(* ... and all but what the one request that is has changed so far.        *)
Between(h) ==
    LET n == at[h] IN
    /\ pc[h] \in {"createRealmRole", "getRealmRole", "updateRealmRole",
                  "deleteMappings"} => Settled(n)
    /\ pc[h] = "updateRealmRole" => dto[h].existing = realm[n]
    /\ pc[h] = "createRealmRole" => rows[n] = NoRow
    /\ pc[h] \in {"insertRole", "reload", "write"} =>
          /\ RowTold(n) /\ DelegatesTold(n) /\ MappingsTold(n)
          /\ RealmShows(n, entity[h])
          /\ pc[h] = "insertRole" => rows[n] = NoRow
          /\ pc[h] = "write" => cols[h] = Diff(entity[h], rows[n])
    /\ pc[h] \in {"deleteDelegations", "insertDelegations"} =>
          /\ rows[n] = entity[h] /\ RealmShows(n, entity[h]) /\ MappingsTold(n)
          /\ pc[h] = "insertDelegations" => delegations[n] = {}
    /\ pc[h] = "insertMappings" =>
          /\ RowTold(n) /\ RealmTold(n) /\ TextTold(n) /\ DelegatesTold(n)
          /\ mappings[n] = {}

Clean(n) == n \notin raced \cup failed

RInv ==
    /\ TypeOK /\ Sole
    /\ \A h \in Handlers : Fits(h) /\ (pc[h] # "idle" /\ Clean(at[h]) => Between(h))
    /\ \A n \in Ids : Paired(n) /\ (Clean(n) /\ ~Busy(n) => Settled(n))

-----------------------------------------------------------------------------
(* A step of handler h that is about role n: what it leaves alone, ...     *)
About(h, n) ==
    /\ at[h] = n \/ (at[h] = Null /\ at'[h] = n)
    /\ at'[h] \in {n, Null}
    /\ pc' = [pc EXCEPT ![h] = pc'[h]] /\ op' = [op EXCEPT ![h] = op'[h]]
    /\ at' = [at EXCEPT ![h] = at'[h]] /\ entity' = [entity EXCEPT ![h] = entity'[h]]
    /\ cols' = [cols EXCEPT ![h] = cols'[h]] /\ dto' = [dto EXCEPT ![h] = dto'[h]]
    /\ rows' = [rows EXCEPT ![n] = rows'[n]] /\ realm' = [realm EXCEPT ![n] = realm'[n]]
    /\ delegations' = [delegations EXCEPT ![n] = delegations'[n]]
    /\ mappings' = [mappings EXCEPT ![n] = mappings'[n]]
    /\ told' = [told EXCEPT ![n] = told'[n]]
    /\ raced' \in {raced, raced \cup {n}} /\ failed' \in {failed, failed \cup {n}}
    /\ permissions' = permissions
    /\ rows[n] # NoRow => rows'[n] # NoRow
    /\ realm[n] # NoRole => realm'[n] # NoRole
    /\ at[h] = Null => n \in raced' \/ ~Busy(n)

(* ... and the types of what it may change.                                *)
Typed(h, n) ==
    /\ pc[h] \in Pcs /\ op[h] \in Ops \cup {Null} /\ entity[h] \in Role \cup {NoRow}
    /\ cols[h] \subseteq {"description", "active", "deleted"} /\ dto[h] \in Dto \cup {Null}
    /\ rows[n] \in Role \cup {NoRow} /\ realm[n] \in Descriptions \cup {NoRole}
    /\ delegations[n] \subseteq Admins /\ mappings[n] \subseteq Permissions
    /\ told[n] \in Told

LEMMA TypeAssemble ==
    ASSUME TypeOK, NEW h \in Handlers, NEW n \in Ids, About(h, n), Typed(h, n)'
    PROVE  TypeOK'
<1>1. /\ rows' \in [Ids -> Role \cup {NoRow}] /\ realm' \in [Ids -> Descriptions \cup {NoRole}]
      /\ told' \in [Ids -> Told]
  BY DEF TypeOK, About, Typed
<1>2. delegations' \in Delegations /\ mappings' \in Mappings
  BY DEF TypeOK, About, Typed, Delegations, Mappings
<1>3. /\ pc' \in [Handlers -> Pcs] /\ op' \in [Handlers -> Ops \cup {Null}]
      /\ at' \in [Handlers -> Ids \cup {Null}]
      /\ entity' \in [Handlers -> Role \cup {NoRow}]
  BY DEF TypeOK, About, Typed
<1>4. /\ cols' \in [Handlers -> SUBSET {"description", "active", "deleted"}]
      /\ dto' \in [Handlers -> Dto \cup {Null}]
  BY DEF TypeOK, About, Typed
<1>5. raced' \subseteq Ids /\ failed' \subseteq Ids /\ permissions' \subseteq Permissions
  BY DEF TypeOK, About
<1> QED
  BY <1>1, <1>2, <1>3, <1>4, <1>5 DEF TypeOK

(* A step keeps the invariant if it does for its handler and its role.     *)
LEMMA Assemble ==
    ASSUME RInv, NEW h \in Handlers, NEW n \in Ids, About(h, n), Typed(h, n)',
           Fits(h)', Paired(n)',
           pc'[h] # "idle" /\ Clean(n)' => Between(h)',
           pc'[h] = "idle" /\ Clean(n)' => Settled(n)'
    PROVE  RInv'
<1>1. TypeOK'
  BY TypeAssemble DEF RInv
<1>2. Null \notin Ids
  BY RolesAssumption
<1>3. ASSUME NEW g \in Handlers, g # h
      PROVE  /\ pc'[g] = pc[g] /\ op'[g] = op[g] /\ at'[g] = at[g]
             /\ entity'[g] = entity[g] /\ cols'[g] = cols[g] /\ dto'[g] = dto[g]
             /\ at[g] = n => n \in raced'
  <2>1. /\ pc'[g] = pc[g] /\ op'[g] = op[g] /\ at'[g] = at[g]
        /\ entity'[g] = entity[g] /\ cols'[g] = cols[g] /\ dto'[g] = dto[g]
    BY <1>3 DEF About, RInv, TypeOK
  <2>2. ASSUME at[g] = n PROVE n \in raced'
    <3>1. CASE at[h] = n
      BY <1>2, <1>3, <2>2, <3>1 DEF RInv, Sole, About
    <3>2. CASE at[h] = Null
      BY <2>2, <3>2 DEF About, Busy
    <3> QED
      BY <3>1, <3>2 DEF About
  <2> QED
    BY <2>1, <2>2
<1>4. Sole'
  <2> SUFFICES ASSUME NEW f \in Handlers, NEW g \in Handlers, at'[f] = at'[g],
                      at'[g] # Null, at'[g] \notin raced', f # g
               PROVE  FALSE
    BY DEF Sole
  <2>1. CASE f # h /\ g # h
    BY <1>3, <2>1 DEF RInv, Sole, About
  <2>2. CASE f = h \/ g = h
    BY <1>3, <2>2 DEF About
  <2> QED
    BY <2>1, <2>2
<1>5. ASSUME NEW m \in Ids, m # n
      PROVE  /\ rows'[m] = rows[m] /\ realm'[m] = realm[m] /\ told'[m] = told[m]
             /\ delegations'[m] = delegations[m] /\ mappings'[m] = mappings[m]
             /\ (m \in raced') <=> (m \in raced)
             /\ (m \in failed') <=> (m \in failed)
  BY <1>5 DEF About, RInv, TypeOK, Delegations, Mappings
<1>6. ASSUME NEW m \in Ids PROVE rows[m] # NoRow => rows'[m] # NoRow
  BY <1>5 DEF About
<1>7. ASSUME NEW m \in Ids PROVE realm[m] # NoRole => realm'[m] # NoRole
  BY <1>5 DEF About
<1>8. ASSUME NEW g \in Handlers PROVE Fits(g)'
  <2>1. CASE g = h
    BY <2>1
  <2>2. CASE g # h
    <3>1. Fits(g) /\ (pc[g] # "idle" => at[g] \in Ids)
      BY DEF RInv, TypeOK, Fits
    <3> QED
      BY <1>3, <1>6, <1>7, <2>2, <3>1 DEF Fits
  <2> QED
    BY <2>1, <2>2
<1>9. ASSUME NEW g \in Handlers, pc'[g] # "idle", Clean(at[g])'
      PROVE  Between(g)'
  <2>1. CASE g = h
    BY <1>8, <1>9, <2>1 DEF About, Fits
  <2>2. CASE g # h
    <3>1. at[g] \in Ids /\ at[g] # n
      BY <1>3, <1>9, <2>2 DEF RInv, TypeOK, Fits, Clean
    <3>2. Clean(at[g]) /\ Between(g)
      BY <1>3, <1>5, <1>9, <2>2, <3>1 DEF RInv, Clean
    <3> DEFINE m == at[g]
    <3>3. /\ pc'[g] = pc[g] /\ at'[g] = m /\ entity'[g] = entity[g] /\ cols'[g] = cols[g]
          /\ rows'[m] = rows[m] /\ realm'[m] = realm[m] /\ told'[m] = told[m]
          /\ delegations'[m] = delegations[m] /\ mappings'[m] = mappings[m]
          /\ dto'[g] = dto[g]
      BY <1>3, <1>5, <2>2, <3>1
    <3> QED
      BY <3>2, <3>3 DEF Between, Settled, RowTold, RealmTold, TextTold, RealmShows,
                        DelegatesTold, MappingsTold
  <2> QED
    BY <2>1, <2>2
<1>10. ASSUME NEW m \in Ids PROVE Paired(m)'
  <2>1. CASE m = n
    BY <2>1
  <2>2. CASE m # n
    <3>1. Paired(m)
      BY DEF RInv
    <3>2. ASSUME Inserting(m) PROVE Inserting(m)'
      <4>1. PICK g \in Handlers : at[g] = m /\ pc[g] = "insertRole"
        BY <3>2 DEF Inserting
      <4>2. g # h
        BY <1>2, <2>2, <4>1 DEF About
      <4> QED
        BY <1>3, <4>1, <4>2 DEF Inserting
    <3> QED
      BY <1>5, <2>2, <3>1, <3>2 DEF Paired
  <2> QED
    BY <2>1, <2>2
<1>11. ASSUME NEW m \in Ids, Clean(m)', ~Busy(m)'
       PROVE  Settled(m)'
  <2>1. CASE m = n
    <3>1. at'[h] = Null
      BY <1>11, <2>1 DEF About, Busy
    <3>2. pc'[h] = "idle"
      BY <1>8, <3>1 DEF Fits
    <3> QED
      BY <1>11, <2>1, <3>2
  <2>2. CASE m # n
    <3>1. ~Busy(m)
      BY <1>2, <1>3, <1>11, <2>2 DEF About, Busy
    <3>2. Clean(m)
      BY <1>5, <1>11, <2>2 DEF Clean
    <3>3. Settled(m)
      BY <3>1, <3>2 DEF RInv
    <3> QED
      BY <1>5, <2>2, <3>3
         DEF Settled, RowTold, RealmTold, TextTold, DelegatesTold, MappingsTold
  <2> QED
    BY <2>1, <2>2
<1> QED
  BY <1>1, <1>4, <1>8, <1>9, <1>10, <1>11 DEF RInv

-----------------------------------------------------------------------------
(* Before the first request.                                               *)
LEMMA InitHolds == Init => RInv
<1> SUFFICES ASSUME Init PROVE RInv
  OBVIOUS
<1>1. TypeOK
  BY RolesAssumption DEF Init, EditingInit, TypeOK, Pcs, Delegations, Mappings, Told, Untold
<1>2. Null \notin Ids
  BY RolesAssumption
<1> QED
  BY <1>1, <1>2
     DEF Init, EditingInit, RInv, Sole, Fits, Paired, Settled, RowTold, RealmTold,
         TextTold, DelegatesTold, MappingsTold, Untold

(* What a handler at work holds before it goes on.                         *)
LEMMA Working ==
    ASSUME RInv, NEW h \in Handlers, pc[h] # "idle"
    PROVE  /\ at[h] \in Ids /\ entity[h] \in Role /\ entity[h] # NoRow
           /\ entity[h].description \in Descriptions \cup {NoText}
           /\ dto[h] \in Dto /\ dto[h].delegates \subseteq Admins
           /\ dto[h].permissions \subseteq Permissions /\ dto[h].lists \in BOOLEAN
           /\ Fits(h) /\ Paired(at[h])
           /\ Clean(at[h]) => Between(h)
           /\ Typed(h, at[h]) /\ at[h] # Null
<1>1. at[h] \in Ids /\ Fits(h)
  BY DEF RInv, TypeOK, Fits
<1>2. entity[h] \in Role /\ dto[h] \in Dto
  BY <1>1 DEF Fits
<1>3. Typed(h, at[h])
  BY <1>1 DEF RInv, TypeOK, Typed, Delegations, Mappings
<1> QED
  BY <1>1, <1>2, <1>3, RolesAssumption DEF RInv, Role, Dto

(* A handler that changes role n and ends keeps the invariant if it leaves *)
(* the role settled.                                                       *)
LEMMA Ends ==
    ASSUME RInv, NEW h \in Handlers, pc[h] # "idle", NEW n, n = at[h], Refuse(h),
           rows' = [rows EXCEPT ![n] = rows'[n]], realm' = [realm EXCEPT ![n] = realm'[n]],
           delegations' = [delegations EXCEPT ![n] = delegations'[n]],
           mappings' = [mappings EXCEPT ![n] = mappings'[n]],
           told' = [told EXCEPT ![n] = told'[n]], raced' = raced,
           failed' \in {failed, failed \cup {n}}, permissions' = permissions,
           rows'[n] \in Role \cup {NoRow}, realm'[n] \in Descriptions \cup {NoRole},
           delegations'[n] \subseteq Admins, mappings'[n] \subseteq Permissions,
           told'[n] \in Told, rows[n] # NoRow => rows'[n] # NoRow,
           realm[n] # NoRole => realm'[n] # NoRole, Paired(n)',
           Clean(n)' => Settled(n)'
    PROVE  RInv'
<1>1. n \in Ids /\ n # Null
  BY Working
<1>2. /\ pc' = [pc EXCEPT ![h] = pc'[h]] /\ op' = [op EXCEPT ![h] = op'[h]]
      /\ at' = [at EXCEPT ![h] = at'[h]] /\ entity' = [entity EXCEPT ![h] = entity'[h]]
      /\ cols' = [cols EXCEPT ![h] = cols'[h]] /\ dto' = [dto EXCEPT ![h] = dto'[h]]
      /\ pc'[h] = "idle" /\ op'[h] = Null /\ at'[h] = Null /\ entity'[h] = NoRow
      /\ cols'[h] = {} /\ dto'[h] = Null
  BY DEF Refuse, Finish, RInv, TypeOK
<1>3. About(h, n)
  BY <1>1, <1>2 DEF About
<1>4. Typed(h, n)'
  BY <1>2 DEF Typed, Pcs
<1>5. Fits(h)'
  BY <1>2 DEF Fits
<1> QED
  BY <1>1, <1>2, <1>3, <1>4, <1>5, Assemble

(* One that changes the role and goes on keeps it if it holds what it will *)
(* need.                                                                   *)
LEMMA Goes ==
    ASSUME RInv, NEW h \in Handlers, pc[h] # "idle", NEW n, n = at[h],
           NEW p \in Pcs \ {"idle"}, NEW changed,
           pc' = [pc EXCEPT ![h] = p], cols' = [cols EXCEPT ![h] = changed],
           changed \subseteq {"description", "active", "deleted"},
           UNCHANGED <<op, at, entity, dto, told>>,
           rows' = [rows EXCEPT ![n] = rows'[n]], realm' = [realm EXCEPT ![n] = realm'[n]],
           delegations' = [delegations EXCEPT ![n] = delegations'[n]],
           mappings' = [mappings EXCEPT ![n] = mappings'[n]],
           raced' = raced, failed' = failed, permissions' = permissions,
           rows'[n] \in Role \cup {NoRow}, realm'[n] \in Descriptions \cup {NoRole},
           delegations'[n] \subseteq Admins, mappings'[n] \subseteq Permissions,
           rows[n] # NoRow => rows'[n] # NoRow,
           realm[n] # NoRole => realm'[n] # NoRole, Fits(h)', Paired(n)',
           Clean(n) => Between(h)'
    PROVE  RInv'
<1>1. n \in Ids /\ n # Null /\ Typed(h, n)
  BY Working
<1>2. /\ pc' = [pc EXCEPT ![h] = pc'[h]] /\ op' = [op EXCEPT ![h] = op'[h]]
      /\ at' = [at EXCEPT ![h] = at'[h]] /\ entity' = [entity EXCEPT ![h] = entity'[h]]
      /\ cols' = [cols EXCEPT ![h] = cols'[h]] /\ dto' = [dto EXCEPT ![h] = dto'[h]]
      /\ told' = [told EXCEPT ![n] = told'[n]]
      /\ pc'[h] = p /\ op'[h] = op[h] /\ at'[h] = n /\ entity'[h] = entity[h]
      /\ cols'[h] = changed /\ dto'[h] = dto[h] /\ told'[n] = told[n]
  BY <1>1 DEF RInv, TypeOK
<1>3. About(h, n)
  BY <1>1, <1>2 DEF About
<1>4. Typed(h, n)'
  BY <1>1, <1>2 DEF Typed
<1>5. Clean(n)' <=> Clean(n)
  BY DEF Clean
<1> QED
  BY <1>1, <1>2, <1>3, <1>4, <1>5, Assemble

(* A request that is let in finds the role settled, or finds another one.  *)
LEMMA Begins ==
    ASSUME RInv, NEW h \in Handlers, NEW n \in Ids, NEW o \in Ops,
           NEW p \in Pcs \ {"idle"}, NEW copy \in Role, NEW d \in Dto, pc[h] = "idle",
           pc' = [pc EXCEPT ![h] = p], op' = [op EXCEPT ![h] = o],
           at' = [at EXCEPT ![h] = n], entity' = [entity EXCEPT ![h] = copy],
           dto' = [dto EXCEPT ![h] = d], raced' = raced \cup {m \in {n} : Busy(m)},
           UNCHANGED <<rows, cols, stores, failed>>, Begun(n), Fits(h)',
           Clean(n)' /\ Settled(n) => Between(h)'
    PROVE  RInv'
<1>1. /\ pc' = [pc EXCEPT ![h] = pc'[h]] /\ op' = [op EXCEPT ![h] = op'[h]]
      /\ at' = [at EXCEPT ![h] = at'[h]] /\ entity' = [entity EXCEPT ![h] = entity'[h]]
      /\ cols' = [cols EXCEPT ![h] = cols'[h]] /\ dto' = [dto EXCEPT ![h] = dto'[h]]
      /\ rows' = [rows EXCEPT ![n] = rows'[n]] /\ realm' = [realm EXCEPT ![n] = realm'[n]]
      /\ delegations' = [delegations EXCEPT ![n] = delegations'[n]]
      /\ mappings' = [mappings EXCEPT ![n] = mappings'[n]]
      /\ pc'[h] = p /\ op'[h] = o /\ at'[h] = n /\ entity'[h] = copy
      /\ cols'[h] = cols[h] /\ dto'[h] = d
  BY DEF RInv, TypeOK, stores, Delegations, Mappings
<1>2. told' = [told EXCEPT ![n] = told'[n]] /\ told'[n] \in Told
  <2>1. Untold \in Told
    BY RolesAssumption DEF Untold, Told
  <2> QED
    BY <2>1 DEF Begun, RInv, TypeOK
<1>3. at[h] = Null
  BY DEF RInv, Fits
<1>4. About(h, n)
  BY <1>1, <1>2, <1>3 DEF About, stores
<1>5. Typed(h, n)'
  BY <1>1, <1>2 DEF Typed, RInv, TypeOK, stores, Delegations, Mappings
<1>6. Paired(n)'
  <2>1. Paired(n)
    BY DEF RInv
  <2>2. ASSUME Inserting(n) PROVE Inserting(n)'
    <3>1. PICK g \in Handlers : at[g] = n /\ pc[g] = "insertRole"
      BY <2>2 DEF Inserting
    <3>2. pc'[g] = pc[g] /\ at'[g] = at[g]
      BY <3>1 DEF RInv, TypeOK
    <3> QED
      BY <3>1, <3>2 DEF Inserting
  <2> QED
    BY <2>1, <2>2 DEF Paired, stores
<1>7. ASSUME Clean(n)' PROVE Settled(n)
  BY <1>7 DEF RInv, Clean
<1> QED
  BY <1>1, <1>4, <1>5, <1>6, <1>7, Assemble

-----------------------------------------------------------------------------
(* POST: nobody has the name, so nothing was told of it.                   *)
LEMMA CreateStep ==
    ASSUME RInv, NEW h \in Handlers, NEW n \in Ids, 
           NEW desc \in Descriptions \cup {NoText}, NEW l \in BOOLEAN,
           NEW a \in SUBSET Admins, Create(h, n, desc, l, a)
    PROVE  RInv'
<1> DEFINE copy == [description |-> desc, active |-> TRUE, deleted |-> FALSE]
           d == [lists |-> l, delegates |-> a, permissions |-> {}, existing |-> Null]
<1>1. copy \in Role /\ d \in Dto
  BY DEF Role, Dto
<1> HIDE DEF copy, d
<1>2. /\ pc[h] = "idle" /\ rows[n] = NoRow
      /\ pc' = [pc EXCEPT ![h] = "createRealmRole"] /\ op' = [op EXCEPT ![h] = "create"]
      /\ at' = [at EXCEPT ![h] = n] /\ entity' = [entity EXCEPT ![h] = copy]
      /\ dto' = [dto EXCEPT ![h] = d] /\ raced' = raced \cup {m \in {n} : Busy(m)}
      /\ UNCHANGED <<rows, cols, stores, failed>> /\ Begun(n)
  BY DEF Create, copy, d
<1>3. /\ pc'[h] = "createRealmRole" /\ op'[h] = "create" /\ at'[h] = n
      /\ entity'[h] = copy /\ dto'[h] = d
  BY <1>2 DEF RInv, TypeOK
<1>4. Fits(h)'
  BY <1>1, <1>3, RolesAssumption DEF Fits, Ops
<1>5. ASSUME Clean(n)', Settled(n) PROVE Between(h)'
  <2>1. Settled(n)'
    BY <1>2, <1>5
       DEF Clean, Begun, Settled, RowTold, RealmTold, TextTold, DelegatesTold,
           MappingsTold, stores
  <2> QED
    BY <1>2, <1>3, <2>1 DEF Between
<1> QED
  BY <1>1, <1>2, <1>4, <1>5, Begins DEF Ops, Pcs

(* PATCH: the copy of a role that is there.                                *)
LEMMA UpdateStep ==
    ASSUME RInv, NEW h \in Handlers, NEW n \in Ids, 
           NEW desc \in Descriptions \cup {NoText, Null}, NEW x \in BOOLEAN \cup {Null},
           NEW l \in BOOLEAN, NEW a \in SUBSET Admins,
           Update(h, n, desc, x, l, a)
    PROVE  RInv'
<1> DEFINE copy == [rows[n] EXCEPT !.description = IF desc = Null THEN @ ELSE desc,
                                   !.active = IF x = Null THEN @ ELSE x]
           d == [lists |-> l, delegates |-> a, permissions |-> {}, existing |-> Null]
           p == IF desc = Null THEN "reload" ELSE "getRealmRole"
<1>1. rows[n] \in Role /\ rows[n] # NoRow
  BY DEF Update, RInv, TypeOK
<1>2. copy \in Role /\ d \in Dto /\ p \in Pcs \ {"idle"}
  BY <1>1 DEF Role, Dto, Pcs
<1>3. p = "reload" => copy.description = rows[n].description
  BY <1>1 DEF Role
<1>4. p \in {"reload", "getRealmRole"}
  OBVIOUS
<1> HIDE DEF copy, d, p
<1>5. /\ pc[h] = "idle"
      /\ pc' = [pc EXCEPT ![h] = p] /\ op' = [op EXCEPT ![h] = "update"]
      /\ at' = [at EXCEPT ![h] = n] /\ entity' = [entity EXCEPT ![h] = copy]
      /\ dto' = [dto EXCEPT ![h] = d] /\ raced' = raced \cup {m \in {n} : Busy(m)}
      /\ UNCHANGED <<rows, cols, stores, failed>> /\ Begun(n)
  BY DEF Update, Begin, copy, d, p
<1>6. /\ pc'[h] = p /\ op'[h] = "update" /\ at'[h] = n
      /\ entity'[h] = copy /\ dto'[h] = d
  BY <1>5 DEF RInv, TypeOK
<1>7. Fits(h)'
  BY <1>1, <1>2, <1>4, <1>5, <1>6, RolesAssumption DEF Fits, Ops
<1>8. ASSUME Clean(n)', Settled(n) PROVE Between(h)'
  <2>1. Settled(n)'
    BY <1>5, <1>8
       DEF Clean, Begun, Settled, RowTold, RealmTold, TextTold, DelegatesTold,
           MappingsTold, stores
  <2>2. p = "reload" =>
            realm'[n] = IF copy.description = NoText THEN told'[n].text
                        ELSE copy.description
    BY <1>1, <1>3, <1>5, <2>1 DEF Settled, RealmTold, TextTold
  <2> QED
    BY <1>4, <1>6, <2>1, <2>2 DEF Between, Settled, RealmShows
<1> QED
  BY <1>2, <1>5, <1>7, <1>8, Begins DEF Ops

(* PUT of permissions.                                                     *)
LEMMA MapPermissionsStep ==
    ASSUME RInv, NEW h \in Handlers, NEW n \in Ids, NEW ps \in SUBSET Permissions,
           MapPermissions(h, n, ps)
    PROVE  RInv'
<1> DEFINE d == [lists |-> FALSE, delegates |-> {}, permissions |-> ps,
                 existing |-> Null]
<1>1. d \in Dto /\ ~d.lists
  BY DEF Dto
<1> HIDE DEF d
<1>2. /\ pc[h] = "idle" /\ rows[n] # NoRow
      /\ pc' = [pc EXCEPT ![h] = "deleteMappings"]
      /\ op' = [op EXCEPT ![h] = "mapPermissions"]
      /\ at' = [at EXCEPT ![h] = n] /\ entity' = [entity EXCEPT ![h] = rows[n]]
      /\ dto' = [dto EXCEPT ![h] = d] /\ raced' = raced \cup {m \in {n} : Busy(m)}
      /\ UNCHANGED <<rows, cols, stores, failed>> /\ Begun(n)
  BY DEF MapPermissions, Begin, d
<1>3. /\ pc'[h] = "deleteMappings" /\ op'[h] = "mapPermissions" /\ at'[h] = n
      /\ entity'[h] = rows[n] /\ dto'[h] = d /\ rows[n] \in Role
  BY <1>2 DEF RInv, TypeOK
<1>4. Fits(h)'
  BY <1>1, <1>2, <1>3, RolesAssumption DEF Fits, Ops
<1>5. ASSUME Clean(n)', Settled(n) PROVE Between(h)'
  <2>1. Settled(n)'
    BY <1>2, <1>5
       DEF Clean, Begun, Settled, RowTold, RealmTold, TextTold, DelegatesTold,
           MappingsTold, stores
  <2> QED
    BY <1>2, <1>3, <2>1 DEF Between
<1> QED
  BY <1>1, <1>2, <1>3, <1>4, <1>5, Begins DEF Ops, Pcs

-----------------------------------------------------------------------------
(* POST /roles of Keycloak.                                                *)
LEMMA CreateRealmRoleStep ==
    ASSUME RInv, NEW h \in Handlers, CreateRealmRole(h)
    PROVE  RInv'
<1>1. pc[h] = "createRealmRole" /\ pc[h] # "idle" /\ op[h] = "create"
  BY DEF CreateRealmRole, RInv, Fits
<1> PICK n \in Ids : n = at[h]
  BY <1>1, Working
<1> DEFINE new == IF entity[h].description = NoText THEN Empty ELSE entity[h].description
<1>2. /\ entity[h] \in Role /\ new \in Descriptions /\ new # NoRole
      /\ Fits(h) /\ Paired(n) /\ Typed(h, n) /\ entity[h] # NoRow
      /\ Clean(n) => Between(h)
  BY <1>1, Working, RolesAssumption
<1>3. /\ rows' = rows /\ raced' = raced /\ permissions' = permissions
      /\ delegations' = delegations /\ mappings' = mappings /\ told' = told /\ failed' = failed
  BY DEF CreateRealmRole
<1>4. /\ rows' = [rows EXCEPT ![n] = rows'[n]]
      /\ delegations' = [delegations EXCEPT ![n] = delegations'[n]]
      /\ mappings' = [mappings EXCEPT ![n] = mappings'[n]]
      /\ told' = [told EXCEPT ![n] = told'[n]]
      /\ rows'[n] \in Role \cup {NoRow} /\ delegations'[n] \subseteq Admins
      /\ mappings'[n] \subseteq Permissions /\ told'[n] \in Told
  BY <1>2, <1>3 DEF RInv, TypeOK, Delegations, Mappings, Typed
<1>5. CASE realm[n] = NoRole
  <2>1. /\ realm' = [realm EXCEPT ![n] = new] /\ UNCHANGED dto
        /\ pc' = [pc EXCEPT ![h] = "insertRole"] /\ cols' = [cols EXCEPT ![h] = {}]
        /\ UNCHANGED <<op, at, entity>>
    BY <1>5 DEF CreateRealmRole, Resume
  <2>2. /\ pc'[h] = "insertRole" /\ realm'[n] = new
        /\ realm' = [realm EXCEPT ![n] = realm'[n]]
    BY <1>2, <2>1 DEF RInv, TypeOK
  <2>3. Fits(h)'
    BY <1>1, <1>2, <2>1, <2>2 DEF Fits
  <2>4. Paired(n)'
    BY <1>2, <2>1, <2>2 DEF Paired, Inserting
  <2>5. ASSUME Clean(n) PROVE Between(h)'
    <3>1. Settled(n) /\ rows[n] = NoRow
      BY <1>1, <1>2, <2>5 DEF Between
    <3>2. told'[n].text = Empty
      BY <1>3, <3>1 DEF Settled, RowTold, Untold
    <3>3. RealmShows(n, entity[h])'
      BY <2>1, <2>2, <3>2 DEF RealmShows
    <3>4. RowTold(n)' /\ DelegatesTold(n)' /\ MappingsTold(n)'
      BY <1>3, <3>1 DEF Settled, RowTold, DelegatesTold, MappingsTold
    <3> QED
      BY <1>3, <2>1, <2>2, <3>1, <3>3, <3>4 DEF Between
  <2> HIDE DEF new
  <2>6. /\ Clean(n) => Between(h)'
        /\ realm'[n] \in Descriptions \cup {NoRole} /\ realm'[n] # NoRole
        /\ rows'[n] = rows[n] /\ {} \subseteq {"description", "active", "deleted"}
        /\ "insertRole" \in Pcs \ {"idle"}
    BY <1>2, <1>3, <2>2, <2>5 DEF Pcs
  <2> QED
    BY <1>1, <1>3, <1>4, <2>1, <2>2, <2>3, <2>4, <2>6, Goes
<1>6. CASE realm[n] # NoRole
  <2>1. Refuse(h) /\ UNCHANGED realm
    BY <1>6 DEF CreateRealmRole
  <2>2. ~Clean(n)
    BY <1>1, <1>2, <1>6 DEF Between, Settled, RealmTold
  <2>3. Paired(n)'
    <3>1. ASSUME Inserting(n) PROVE Inserting(n)'
      <4>1. PICK g \in Handlers : at[g] = n /\ pc[g] = "insertRole"
        BY <3>1 DEF Inserting
      <4>2. pc'[g] = pc[g] /\ at'[g] = at[g]
        BY <1>1, <2>1, <4>1 DEF Refuse, Finish, RInv, TypeOK
      <4> QED
        BY <4>1, <4>2 DEF Inserting
    <3> QED
      BY <1>2, <1>3, <2>1, <3>1 DEF Paired
  <2>4. realm' = [realm EXCEPT ![n] = realm'[n]] /\ realm'[n] \in Descriptions \cup {NoRole}
    BY <1>2, <2>1 DEF RInv, TypeOK
  <2>5. ~Clean(n)'
    BY <1>3, <2>2 DEF Clean
  <2> QED
    BY <1>1, <1>3, <1>4, <2>1, <2>3, <2>4, <2>5, Ends
<1> QED
  BY <1>5, <1>6

(* What an answer tells of a role nobody raced and nobody failed on.       *)
LEMMA AnswerTells ==
    ASSUME RInv, NEW h \in Handlers, pc[h] # "idle", NEW n, n = at[h], Answer(h)
    PROVE  /\ Refuse(h) /\ told' = [told EXCEPT ![n] = told'[n]] /\ told'[n] \in Told
           /\ Clean(n) /\ op[h] = "mapPermissions" =>
                told'[n] = [told[n] EXCEPT !.permissions = dto[h].permissions]
           /\ Clean(n) /\ op[h] # "mapPermissions" =>
                /\ told'[n].row = entity[h]
                /\ told'[n].text = IF entity[h].description = NoText THEN told[n].text
                                   ELSE entity[h].description
                /\ told'[n].delegates = IF dto[h].lists THEN dto[h].delegates
                                        ELSE told[n].delegates
                /\ told'[n].permissions = told[n].permissions
<1> DEFINE mapped == [told[n] EXCEPT !.permissions = dto[h].permissions]
           kept == [told[n] EXCEPT
               !.row = entity[h],
               !.text = IF entity[h].description = NoText THEN @
                        ELSE entity[h].description,
               !.delegates = IF dto[h].lists THEN dto[h].delegates ELSE @]
<1>1. /\ n \in Ids /\ told[n] \in Told /\ entity[h] \in Role
      /\ entity[h].description \in Descriptions \cup {NoText}
      /\ dto[h].delegates \subseteq Admins /\ dto[h].permissions \subseteq Permissions
      /\ told \in [Ids -> Told]
  BY Working DEF Typed, RInv, TypeOK
<1>2. mapped \in Told
  BY <1>1 DEF Told
<1>3. /\ kept \in Told
      /\ kept.row = entity[h] /\ kept.permissions = told[n].permissions
      /\ kept.text = IF entity[h].description = NoText THEN told[n].text
                     ELSE entity[h].description
      /\ kept.delegates = IF dto[h].lists THEN dto[h].delegates ELSE told[n].delegates
  BY <1>1 DEF Told
<1>4. /\ Refuse(h)
      /\ told' = IF ~Clean(n) THEN told
                 ELSE IF op[h] = "mapPermissions" THEN [told EXCEPT ![n] = mapped]
                 ELSE [told EXCEPT ![n] = kept]
  BY <1>1 DEF Answer, Clean, Told
<1> HIDE DEF mapped, kept
<1>5. /\ told' = [told EXCEPT ![n] = told'[n]] /\ told'[n] \in Told
      /\ Clean(n) /\ op[h] = "mapPermissions" => told'[n] = mapped
      /\ Clean(n) /\ op[h] # "mapPermissions" => told'[n] = kept
  BY <1>1, <1>2, <1>3, <1>4
<1> QED
  BY <1>3, <1>4, <1>5 DEF mapped

(* The realm role that shows the entity has the text told with it.         *)
LEMMA ShownIsTold ==
    ASSUME NEW h \in Handlers, NEW n \in Ids, RealmShows(n, entity[h]),
           rows'[n] = entity[h], rows'[n] # NoRow, realm'[n] = realm[n],
           told'[n].text = IF entity[h].description = NoText THEN told[n].text
                           ELSE entity[h].description
    PROVE  RealmTold(n)' /\ TextTold(n)'
  BY DEF RealmShows, RealmTold, TextTold

(* What create and update do once the row is saved: it is the entity,      *)
(* unless requests overlapped, and so is the realm role.                   *)
LEMMA GoesOnStep ==
    ASSUME RInv, NEW h \in Handlers, pc[h] \in {"insertRole", "reload", "write"},
           NEW n, n = at[h], NEW new \in Role, rows' = [rows EXCEPT ![n] = new],
           Clean(n) => new = entity[h], GoesOn(h), UNCHANGED <<raced, stores, failed>>
    PROVE  RInv'
<1>1. pc[h] # "idle"
  OBVIOUS
<1>2. /\ n \in Ids /\ entity[h] \in Role /\ entity[h] # NoRow /\ dto[h] \in Dto
      /\ dto[h].lists \in BOOLEAN
      /\ Fits(h) /\ Paired(n) /\ Typed(h, n)
      /\ Clean(n) => Between(h)
  BY <1>1, Working
<1>3. op[h] \in {"create", "update"} /\ op[h] # "mapPermissions" /\ new # NoRow
  BY <1>2, RolesAssumption DEF Fits
<1>4. realm[n] # NoRole
  BY <1>2 DEF Fits, Paired
<1>5. /\ rows'[n] = new /\ rows' = [rows EXCEPT ![n] = rows'[n]]
      /\ realm' = [realm EXCEPT ![n] = realm'[n]] /\ realm'[n] \in Descriptions \cup {NoRole}
      /\ delegations' = [delegations EXCEPT ![n] = delegations'[n]]
      /\ mappings' = [mappings EXCEPT ![n] = mappings'[n]]
      /\ delegations'[n] \subseteq Admins /\ mappings'[n] \subseteq Permissions
      /\ raced' = raced /\ failed' = failed /\ permissions' = permissions
      /\ realm' = realm /\ delegations' = delegations /\ mappings' = mappings
  BY <1>2 DEF RInv, TypeOK, Delegations, Mappings, Typed, stores
<1>6. Paired(n)'
  BY <1>3, <1>4, <1>5 DEF Paired
<1>7. Clean(n) => /\ rows'[n] = entity[h] /\ RowTold(n) /\ DelegatesTold(n) /\ MappingsTold(n)
                  /\ RealmShows(n, entity[h])
                  /\ pc[h] = "insertRole" => rows[n] = NoRow
  BY <1>2, <1>5 DEF Between
<1>8. Clean(n) <=> Clean(n)'
  BY <1>5 DEF Clean
<1>9. CASE Delegates(h)
  <2>1. /\ pc' = [pc EXCEPT ![h] = "deleteDelegations"] /\ cols' = [cols EXCEPT ![h] = {}]
        /\ UNCHANGED <<op, at, entity, dto, told>> /\ dto[h].lists
    BY <1>9 DEF GoesOn, Resume, Delegates
  <2>2. pc'[h] = "deleteDelegations"
    BY <2>1 DEF RInv, TypeOK
  <2>3. Fits(h)'
    BY <1>2, <1>3, <1>5, <2>1, <2>2 DEF Fits
  <2>4. Clean(n) => Between(h)'
    BY <1>2, <1>5, <1>7, <2>1, <2>2 DEF Between, RealmShows, MappingsTold
  <2>5. /\ "deleteDelegations" \in Pcs \ {"idle"}
        /\ rows'[n] \in Role \cup {NoRow} /\ (rows[n] # NoRow => rows'[n] # NoRow)
        /\ (realm[n] # NoRole => realm'[n] # NoRole)
    BY <1>3, <1>5 DEF Pcs
  <2> QED
    BY <1>1, <1>5, <1>6, <2>1, <2>3, <2>4, <2>5, Goes
<1>10. CASE ~Delegates(h)
  <2>1. Answer(h)
    BY <1>10 DEF GoesOn
  <2>2. Clean(n) => Settled(n)'
    <3> SUFFICES ASSUME Clean(n) PROVE Settled(n)'
      OBVIOUS
    <3>1. /\ told'[n].row = entity[h] /\ told'[n].permissions = told[n].permissions
          /\ told'[n].text = IF entity[h].description = NoText THEN told[n].text
                             ELSE entity[h].description
          /\ told'[n].delegates = IF dto[h].lists THEN dto[h].delegates
                                  ELSE told[n].delegates
      BY <1>1, <1>3, <2>1, AnswerTells
    <3>2. told'[n].delegates = told[n].delegates
      <4>1. CASE ~dto[h].lists
        BY <3>1, <4>1
      <4>2. CASE dto[h].lists
        <5>1. op[h] = "create" /\ dto[h].delegates = {}
          BY <1>3, <1>10, <4>2 DEF Delegates
        <5>2. pc[h] = "insertRole"
          BY <1>2, <5>1 DEF Fits
        <5>3. told[n].delegates = {}
          BY <1>7, <5>2 DEF RowTold, Untold
        <5> QED
          BY <3>1, <4>2, <5>1, <5>3
      <4> QED
        BY <1>2, <4>1, <4>2
    <3>3. RealmTold(n)' /\ TextTold(n)'
      BY <1>2, <1>5, <1>7, <3>1, ShownIsTold
    <3> QED
      BY <1>2, <1>5, <1>7, <3>1, <3>2, <3>3
         DEF Settled, RowTold, DelegatesTold, MappingsTold
  <2>3. Refuse(h) /\ told' = [told EXCEPT ![n] = told'[n]] /\ told'[n] \in Told
    BY <1>1, <2>1, AnswerTells
  <2>4. /\ rows'[n] \in Role \cup {NoRow} /\ (rows[n] # NoRow => rows'[n] # NoRow)
        /\ (realm[n] # NoRole => realm'[n] # NoRole) /\ (Clean(n)' => Settled(n)')
        /\ failed' \in {failed, failed \cup {n}}
    BY <1>3, <1>5, <1>8, <2>2
  <2> QED
    BY <1>1, <1>5, <1>6, <2>3, <2>4, Ends
<1> QED
  BY <1>9, <1>10

(* roles.save() of a new role: the unique name lets one request through.   *)
LEMMA InsertRoleStep ==
    ASSUME RInv, NEW h \in Handlers, InsertRole(h)
    PROVE  RInv'
<1>1. pc[h] = "insertRole" /\ pc[h] # "idle"
  BY DEF InsertRole
<1> PICK n \in Ids : n = at[h]
  BY <1>1, Working
<1>2. /\ entity[h] \in Role /\ Paired(n) /\ Typed(h, n)
      /\ Clean(n) => Between(h)
  BY <1>1, Working
<1>3. CASE rows[n] = NoRow
  BY <1>1, <1>2, <1>3, GoesOnStep DEF InsertRole
<1>4. CASE rows[n] # NoRow
  <2>1. Refuse(h) /\ UNCHANGED <<rows, told, raced, stores, failed>>
    BY <1>4 DEF InsertRole
  <2>2. ~Clean(n)'
    BY <1>1, <1>2, <1>4, <2>1 DEF Between, Clean
  <2>3. Paired(n)'
    BY <1>2, <1>4, <2>1 DEF Paired, stores
  <2>4. /\ rows' = [rows EXCEPT ![n] = rows'[n]] /\ realm' = [realm EXCEPT ![n] = realm'[n]]
        /\ delegations' = [delegations EXCEPT ![n] = delegations'[n]]
        /\ mappings' = [mappings EXCEPT ![n] = mappings'[n]]
        /\ told' = [told EXCEPT ![n] = told'[n]]
        /\ rows'[n] = rows[n] /\ realm'[n] = realm[n] /\ delegations'[n] = delegations[n]
        /\ mappings'[n] = mappings[n] /\ told'[n] = told[n]
        /\ raced' = raced /\ failed' = failed /\ permissions' = permissions
    BY <2>1 DEF RInv, TypeOK, Delegations, Mappings, stores
  <2> QED
    BY <1>1, <1>2, <2>1, <2>2, <2>3, <2>4, Ends DEF Typed
<1> QED
  BY <1>3, <1>4

(* updateRealmRole: the GET, ...                                           *)
LEMMA GetRealmRoleStep ==
    ASSUME RInv, NEW h \in Handlers, GetRealmRole(h)
    PROVE  RInv'
<1>1. pc[h] = "getRealmRole" /\ pc[h] # "idle"
  BY DEF GetRealmRole
<1> PICK n \in Ids : n = at[h]
  BY <1>1, Working
<1> DEFINE d == [dto[h] EXCEPT !.existing = realm[n]]
<1>2. /\ dto[h] \in Dto /\ Fits(h) /\ Paired(n) /\ Typed(h, n)
      /\ Clean(n) => Between(h)
  BY <1>1, Working
<1>3. rows[n] # NoRow /\ realm[n] \in Descriptions
  BY <1>1, <1>2 DEF Fits, Paired, Typed
<1>4. d \in Dto /\ d.existing = realm[n] /\ d.lists = dto[h].lists
  BY <1>2, <1>3 DEF Dto
<1>5. dto' = [dto EXCEPT ![h] = d]
  BY <1>2 DEF GetRealmRole, Dto
<1> HIDE DEF d
<1>6. /\ pc' = [pc EXCEPT ![h] = "updateRealmRole"] /\ cols' = [cols EXCEPT ![h] = {}]
      /\ UNCHANGED <<op, at, entity, rows, raced, realm, permissions, delegations,
                     mappings, told, failed>>
  BY DEF GetRealmRole, Resume, stores
<1>7. /\ pc'[h] = "updateRealmRole" /\ cols'[h] = {} /\ dto'[h] = d
      /\ pc' = [pc EXCEPT ![h] = pc'[h]] /\ op' = [op EXCEPT ![h] = op'[h]]
      /\ at' = [at EXCEPT ![h] = at'[h]] /\ entity' = [entity EXCEPT ![h] = entity'[h]]
      /\ cols' = [cols EXCEPT ![h] = cols'[h]] /\ dto' = [dto EXCEPT ![h] = dto'[h]]
      /\ rows' = [rows EXCEPT ![n] = rows'[n]] /\ realm' = [realm EXCEPT ![n] = realm'[n]]
      /\ delegations' = [delegations EXCEPT ![n] = delegations'[n]]
      /\ mappings' = [mappings EXCEPT ![n] = mappings'[n]]
      /\ told' = [told EXCEPT ![n] = told'[n]]
  BY <1>5, <1>6 DEF RInv, TypeOK, Delegations, Mappings
<1>8. About(h, n) /\ Typed(h, n)'
  BY <1>1, <1>2, <1>4, <1>6, <1>7, Working DEF About, Typed, Pcs
<1>9. Fits(h)'
  BY <1>1, <1>2, <1>3, <1>4, <1>6, <1>7 DEF Fits
<1>10. Paired(n)'
  BY <1>2, <1>3, <1>6 DEF Paired
<1>11. ASSUME Clean(n)' PROVE Between(h)'
  <2>1. Settled(n)
    BY <1>1, <1>2, <1>6, <1>11 DEF Between, Clean
  <2>2. Settled(n)'
    BY <1>6, <2>1 DEF Settled, RowTold, RealmTold, TextTold, DelegatesTold, MappingsTold
  <2> QED
    BY <1>4, <1>6, <1>7, <2>2 DEF Between
<1> QED
  BY <1>7, <1>8, <1>9, <1>10, <1>11, Assemble

(* ... and the PUT.                                                        *)
LEMMA UpdateRealmRoleStep ==
    ASSUME RInv, NEW h \in Handlers, UpdateRealmRole(h)
    PROVE  RInv'
<1>1. pc[h] = "updateRealmRole" /\ pc[h] # "idle"
  BY DEF UpdateRealmRole
<1> PICK n \in Ids : n = at[h]
  BY <1>1, Working
<1> DEFINE new == IF entity[h].description = NoText THEN dto[h].existing
                  ELSE entity[h].description
<1>2. /\ entity[h] \in Role /\ entity[h].description \in Descriptions \cup {NoText}
      /\ entity[h] # NoRow /\ Fits(h) /\ Paired(n) /\ Typed(h, n)
      /\ Clean(n) => Between(h)
  BY <1>1, Working
<1>3. new \in Descriptions /\ new # NoRole
  BY <1>1, <1>2, RolesAssumption DEF Fits
<1>4. /\ realm' = [realm EXCEPT ![n] = new]
      /\ pc' = [pc EXCEPT ![h] = "reload"] /\ cols' = [cols EXCEPT ![h] = {}]
      /\ UNCHANGED <<op, at, entity, dto, told, rows, raced, permissions, delegations,
                     mappings, failed>>
  BY DEF UpdateRealmRole, Resume
<1>5. /\ pc'[h] = "reload" /\ realm'[n] = new
      /\ realm' = [realm EXCEPT ![n] = realm'[n]] /\ rows' = [rows EXCEPT ![n] = rows'[n]]
      /\ delegations' = [delegations EXCEPT ![n] = delegations'[n]]
      /\ mappings' = [mappings EXCEPT ![n] = mappings'[n]]
  BY <1>4 DEF RInv, TypeOK, Delegations, Mappings
<1>6. Fits(h)' /\ rows[n] # NoRow
  BY <1>1, <1>2, <1>4, <1>5 DEF Fits
<1>7. Paired(n)'
  BY <1>3, <1>4, <1>5, <1>6 DEF Paired
<1>8. ASSUME Clean(n) PROVE Between(h)'
  <2>1. Settled(n) /\ dto[h].existing = realm[n]
    BY <1>1, <1>2, <1>8 DEF Between
  <2>2. RealmShows(n, entity[h])'
    BY <1>4, <1>5, <1>6, <2>1 DEF Settled, RealmTold, RealmShows
  <2>3. RowTold(n)' /\ DelegatesTold(n)' /\ MappingsTold(n)'
    BY <1>4, <2>1 DEF Settled, RowTold, DelegatesTold, MappingsTold
  <2> QED
    BY <1>4, <1>5, <2>2, <2>3 DEF Between
<1> QED
  BY <1>1, <1>2, <1>3, <1>4, <1>5, <1>6, <1>7, <1>8, Goes DEF Pcs, Typed

(* A role whose columns all agree is the role.                             *)
LEMMA NoDiff ==
    ASSUME NEW copy \in Role, NEW row \in Role, Diff(copy, row) = {}
    PROVE  copy = row
<1>1. DOMAIN row = {"description", "active", "deleted"}
  BY DEF Role
<1>2. /\ copy.description = row.description /\ copy.active = row.active
      /\ copy.deleted = row.deleted
  BY <1>1 DEF Diff
<1> QED
  BY <1>2 DEF Role

(* An UPDATE of what differs makes the row the entity.                     *)
LEMMA PatchRole ==
    ASSUME NEW copy \in Role, NEW row \in Role, NEW columns
    PROVE  /\ Patch(row, copy, columns) \in Role
           /\ Patch(row, copy, Diff(copy, row)) = copy
<1> DEFINE new == Patch(row, copy, Diff(copy, row))
<1>1. DOMAIN row = {"description", "active", "deleted"}
  BY DEF Role
<1>2. \A c : Patch(row, copy, c) \in Role
  BY DEF Patch, Role
<1>3. /\ new.description = copy.description /\ new.active = copy.active
      /\ new.deleted = copy.deleted
  BY <1>1 DEF Patch, Diff
<1>4. new \in Role
  BY <1>2
<1> HIDE DEF new
<1>5. new = copy
  BY <1>3, <1>4 DEF Role
<1> QED
  BY <1>2, <1>5 DEF new

(* The second read of save().                                              *)
LEMMA SaveReloadStep ==
    ASSUME RInv, NEW h \in Handlers, SaveReload(h)
    PROVE  RInv'
<1>1. pc[h] = "reload" /\ pc[h] # "idle"
  BY DEF SaveReload
<1> PICK n \in Ids : n = at[h]
  BY <1>1, Working
<1>2. /\ entity[h] \in Role /\ entity[h] # NoRow /\ Fits(h) /\ Paired(n) /\ Typed(h, n)
      /\ Clean(n) => Between(h)
  BY <1>1, Working
<1>3. rows[n] \in Role /\ rows[n] # NoRow
  BY <1>1, <1>2 DEF Fits, Typed
<1>4. UNCHANGED <<rows, raced, stores, failed>> /\ rows' = [rows EXCEPT ![n] = rows[n]]
  BY DEF SaveReload, RInv, TypeOK
<1>5. CASE Diff(entity[h], rows[n]) = {}
  <2>1. entity[h] = rows[n]
    BY <1>2, <1>3, <1>5, NoDiff
  <2>2. GoesOn(h)
    BY <1>5 DEF SaveReload
  <2> QED
    BY <1>1, <1>3, <1>4, <2>1, <2>2, GoesOnStep
<1>6. CASE Diff(entity[h], rows[n]) # {}
  <2> DEFINE changed == Diff(entity[h], rows[n])
  <2>1. changed \subseteq {"description", "active", "deleted"}
    BY <1>3 DEF Diff, Role
  <2>2. /\ pc' = [pc EXCEPT ![h] = "write"] /\ cols' = [cols EXCEPT ![h] = changed]
        /\ UNCHANGED <<op, at, entity, dto, told>>
    BY <1>6 DEF SaveReload
  <2>3. /\ pc'[h] = "write" /\ cols'[h] = changed
        /\ realm' = [realm EXCEPT ![n] = realm'[n]] /\ rows' = [rows EXCEPT ![n] = rows'[n]]
        /\ delegations' = [delegations EXCEPT ![n] = delegations'[n]]
        /\ mappings' = [mappings EXCEPT ![n] = mappings'[n]]
        /\ realm' = realm /\ delegations' = delegations /\ mappings' = mappings
        /\ raced' = raced /\ failed' = failed /\ permissions' = permissions
    BY <1>4, <2>2 DEF RInv, TypeOK, Delegations, Mappings, stores
  <2>4. Fits(h)'
    BY <1>1, <1>2, <1>3, <1>4, <2>2, <2>3 DEF Fits
  <2>5. Paired(n)'
    BY <1>2, <1>3, <1>4, <2>3 DEF Paired
  <2>6. Clean(n) => Between(h)'
    BY <1>1, <1>2, <1>4, <2>2, <2>3
       DEF Between, RowTold, RealmShows, DelegatesTold, MappingsTold
  <2> HIDE DEF changed
  <2> QED
    BY <1>1, <1>2, <1>4, <2>1, <2>2, <2>3, <2>4, <2>5, <2>6, Goes DEF Pcs, Typed
<1> QED
  BY <1>5, <1>6

(* Its UPDATE.                                                             *)
LEMMA SaveWriteStep ==
    ASSUME RInv, NEW h \in Handlers, SaveWrite(h)
    PROVE  RInv'
<1>1. pc[h] = "write" /\ pc[h] # "idle"
  BY DEF SaveWrite
<1> PICK n \in Ids : n = at[h]
  BY <1>1, Working
<1> DEFINE new == Patch(rows[n], entity[h], cols[h])
<1>2. /\ entity[h] \in Role /\ Fits(h) /\ Typed(h, n)
      /\ Clean(n) => Between(h)
  BY <1>1, Working
<1>3. rows[n] \in Role
  BY <1>1, <1>2 DEF Fits, Typed
<1>4. new \in Role /\ (Clean(n) => new = entity[h])
  BY <1>1, <1>2, <1>3, PatchRole DEF Between
<1>5. rows' = [rows EXCEPT ![n] = new] /\ GoesOn(h) /\ UNCHANGED <<raced, stores, failed>>
  BY DEF SaveWrite
<1> HIDE DEF new
<1> QED
  BY <1>1, <1>4, <1>5, GoesOnStep

-----------------------------------------------------------------------------
(* A handler that replaces delegations or permissions leaves the row and   *)
(* the realm role alone, which are both there.                             *)
LEMMA Replaces ==
    ASSUME RInv, NEW h \in Handlers, NEW n, n = at[h],
           pc[h] \notin {"idle", "createRealmRole", "insertRole"},
           UNCHANGED <<rows, raced, realm, permissions, failed>>
    PROVE  /\ rows' = [rows EXCEPT ![n] = rows'[n]] /\ rows'[n] = rows[n]
           /\ realm' = [realm EXCEPT ![n] = realm'[n]] /\ realm'[n] = realm[n]
           /\ rows'[n] \in Role /\ realm'[n] \in Descriptions
           /\ rows'[n] # NoRow /\ realm'[n] # NoRole
           /\ raced' = raced /\ failed' = failed /\ permissions' = permissions
           /\ Paired(n)'
           /\ Clean(n)' <=> Clean(n)
<1>1. n \in Ids /\ Fits(h) /\ Paired(n) /\ Typed(h, n)
  BY Working
<1>2. rows[n] # NoRow /\ realm[n] # NoRole
  BY <1>1 DEF Fits, Paired
<1>3. /\ rows' = [rows EXCEPT ![n] = rows'[n]] /\ realm' = [realm EXCEPT ![n] = realm'[n]]
      /\ rows'[n] \in Role /\ realm'[n] \in Descriptions
  BY <1>1, <1>2 DEF RInv, TypeOK, Typed
<1> QED
  BY <1>2, <1>3 DEF Paired, Clean

(* Going on to p.                                                          *)
LEMMA Resumes ==
    ASSUME RInv, NEW h \in Handlers, NEW p \in Pcs \ {"idle"}, Resume(h, p)
    PROVE  /\ pc' = [pc EXCEPT ![h] = p] /\ cols' = [cols EXCEPT ![h] = {}]
           /\ UNCHANGED <<op, at, entity>> /\ pc'[h] = p
  BY DEF Resume, RInv, TypeOK

(* replaceDelegations: the delete, ...                                     *)
LEMMA DeleteDelegationsStep ==
    ASSUME RInv, NEW h \in Handlers, DeleteDelegations(h)
    PROVE  RInv'
<1>1. pc[h] = "deleteDelegations" /\ pc[h] # "idle"
  BY DEF DeleteDelegations
<1> PICK n \in Ids : n = at[h]
  BY <1>1, Working
<1>2. /\ entity[h] # NoRow /\ Fits(h) /\ Typed(h, n)
      /\ Clean(n) => Between(h)
  BY <1>1, Working
<1>3. dto[h].lists /\ op[h] # "mapPermissions"
  BY <1>1, <1>2 DEF Fits
<1>4. /\ UNCHANGED <<rows, raced, realm, permissions, mappings, failed>>
      /\ delegations'[n] = {} /\ delegations' = [delegations EXCEPT ![n] = delegations'[n]]
      /\ mappings' = [mappings EXCEPT ![n] = mappings'[n]]
      /\ delegations'[n] \subseteq Admins /\ mappings'[n] \subseteq Permissions
  BY <1>2 DEF DeleteDelegations, RInv, TypeOK, Delegations, Mappings, Typed
<1>5. Clean(n) => rows[n] = entity[h] /\ RealmShows(n, entity[h]) /\ MappingsTold(n)
  BY <1>1, <1>2 DEF Between
<1>6. CASE dto[h].delegates = {}
  <2>1. Answer(h)
    BY <1>6 DEF DeleteDelegations
  <2>2. /\ Refuse(h) /\ told' = [told EXCEPT ![n] = told'[n]] /\ told'[n] \in Told
        /\ Clean(n) => /\ told'[n].row = entity[h] /\ told'[n].delegates = {}
                       /\ told'[n].permissions = told[n].permissions
                       /\ told'[n].text = IF entity[h].description = NoText
                                         THEN told[n].text ELSE entity[h].description
    BY <1>1, <1>3, <1>6, <2>1, AnswerTells
  <2>3. rows'[n] = rows[n] /\ rows'[n] # NoRow /\ realm'[n] = realm[n]
    BY <1>1, <1>4, Replaces
  <2>4. Clean(n) => RealmTold(n)' /\ TextTold(n)'
    BY <1>5, <2>2, <2>3, ShownIsTold
  <2>5. Clean(n) => Settled(n)'
    BY <1>2, <1>4, <1>5, <2>2, <2>3, <2>4
       DEF Settled, RowTold, DelegatesTold, MappingsTold
  <2> QED
    BY <1>1, <1>4, <2>2, <2>5, Replaces, Ends
<1>7. CASE dto[h].delegates # {}
  <2>1. Resume(h, "insertDelegations") /\ UNCHANGED <<dto, told>>
        /\ "insertDelegations" \in Pcs \ {"idle"}
    BY <1>7 DEF DeleteDelegations, Pcs
  <2>2. /\ pc' = [pc EXCEPT ![h] = "insertDelegations"] /\ cols' = [cols EXCEPT ![h] = {}]
        /\ UNCHANGED <<op, at, entity>> /\ pc'[h] = "insertDelegations"
    BY <2>1, Resumes
  <2>3. Fits(h)'
    BY <1>1, <1>2, <1>4, <2>1, <2>2 DEF Fits
  <2>4. Clean(n) => Between(h)'
    BY <1>4, <1>5, <2>1, <2>2 DEF Between, RealmShows, MappingsTold
  <2> QED
    BY <1>1, <1>4, <2>1, <2>2, <2>3, <2>4, Replaces, Goes
<1> QED
  BY <1>6, <1>7

(* ... and the insert, which a pair that is there already fails.           *)
LEMMA InsertDelegationsStep ==
    ASSUME RInv, NEW h \in Handlers, InsertDelegations(h)
    PROVE  RInv'
<1>1. pc[h] = "insertDelegations" /\ pc[h] # "idle"
  BY DEF InsertDelegations
<1> PICK n \in Ids : n = at[h]
  BY <1>1, Working
<1>2. /\ entity[h] # NoRow /\ Fits(h) /\ Typed(h, n) /\ dto[h].delegates \subseteq Admins
      /\ Clean(n) => Between(h)
  BY <1>1, Working
<1>3. dto[h].lists /\ op[h] # "mapPermissions"
  BY <1>1, <1>2 DEF Fits
<1>4. /\ UNCHANGED <<rows, raced, realm, permissions, mappings, failed>>
      /\ mappings' = [mappings EXCEPT ![n] = mappings'[n]]
      /\ mappings'[n] \subseteq Permissions
  BY <1>2 DEF InsertDelegations, RInv, TypeOK, Mappings, Typed
<1>5. Clean(n) => /\ rows[n] = entity[h] /\ RealmShows(n, entity[h]) /\ MappingsTold(n)
                  /\ delegations[n] = {}
  BY <1>1, <1>2 DEF Between
<1>6. CASE delegations[n] \cap dto[h].delegates = {}
  <2>1. Answer(h) /\ delegations' = [delegations EXCEPT ![n] = @ \cup dto[h].delegates]
    BY <1>6 DEF InsertDelegations
  <2>2. /\ Refuse(h) /\ told' = [told EXCEPT ![n] = told'[n]] /\ told'[n] \in Told
        /\ Clean(n) => /\ told'[n].row = entity[h]
                       /\ told'[n].delegates = dto[h].delegates
                       /\ told'[n].permissions = told[n].permissions
                       /\ told'[n].text = IF entity[h].description = NoText
                                         THEN told[n].text ELSE entity[h].description
    <3>1. /\ Refuse(h) /\ told' = [told EXCEPT ![n] = told'[n]] /\ told'[n] \in Told
          /\ Clean(n) /\ op[h] # "mapPermissions" =>
                /\ told'[n].row = entity[h]
                /\ told'[n].text = IF entity[h].description = NoText THEN told[n].text
                                   ELSE entity[h].description
                /\ told'[n].delegates = IF dto[h].lists THEN dto[h].delegates
                                        ELSE told[n].delegates
                /\ told'[n].permissions = told[n].permissions
      BY <1>1, <2>1, AnswerTells
    <3> QED
      BY <1>3, <3>1
  <2>3. /\ delegations'[n] = delegations[n] \cup dto[h].delegates
        /\ delegations' = [delegations EXCEPT ![n] = delegations'[n]]
        /\ delegations'[n] \subseteq Admins
    BY <1>2, <2>1 DEF RInv, TypeOK, Delegations, Typed
  <2>4. rows'[n] = rows[n] /\ rows'[n] # NoRow /\ realm'[n] = realm[n]
    BY <1>1, <1>4, Replaces
  <2>5. Clean(n) => RealmTold(n)' /\ TextTold(n)'
    BY <1>5, <2>2, <2>4, ShownIsTold
  <2>6. Clean(n) => Settled(n)'
    BY <1>2, <1>4, <1>5, <2>2, <2>3, <2>4, <2>5
       DEF Settled, RowTold, DelegatesTold, MappingsTold
  <2> QED
    BY <1>1, <1>4, <2>2, <2>3, <2>6, Replaces, Ends
<1>7. CASE delegations[n] \cap dto[h].delegates # {}
  <2>1. Refuse(h) /\ UNCHANGED <<delegations, told>> /\ ~Clean(n)
    BY <1>5, <1>7 DEF InsertDelegations
  <2>2. /\ delegations' = [delegations EXCEPT ![n] = delegations'[n]]
        /\ told' = [told EXCEPT ![n] = told'[n]]
        /\ delegations'[n] \subseteq Admins /\ told'[n] \in Told
    BY <1>2, <2>1 DEF RInv, TypeOK, Delegations, Typed
  <2> QED
    BY <1>1, <1>4, <2>1, <2>2, Replaces, Ends
<1> QED
  BY <1>6, <1>7

(* mapPermissions: the delete, ...                                         *)
LEMMA DeleteMappingsStep ==
    ASSUME RInv, NEW h \in Handlers, DeleteMappings(h)
    PROVE  RInv'
<1>1. pc[h] = "deleteMappings" /\ pc[h] # "idle"
  BY DEF DeleteMappings
<1> PICK n \in Ids : n = at[h]
  BY <1>1, Working
<1>2. /\ Fits(h) /\ Typed(h, n)
      /\ Clean(n) => Between(h)
  BY <1>1, Working
<1>3. /\ UNCHANGED <<rows, raced, realm, permissions, delegations, dto, told, failed>>
      /\ mappings'[n] = {} /\ mappings' = [mappings EXCEPT ![n] = mappings'[n]]
      /\ delegations' = [delegations EXCEPT ![n] = delegations'[n]]
      /\ delegations'[n] \subseteq Admins /\ mappings'[n] \subseteq Permissions
  BY <1>2 DEF DeleteMappings, RInv, TypeOK, Delegations, Mappings, Typed
<1>4. Resume(h, "insertMappings") /\ "insertMappings" \in Pcs \ {"idle"}
  BY DEF DeleteMappings, Pcs
<1>5. /\ pc' = [pc EXCEPT ![h] = "insertMappings"] /\ cols' = [cols EXCEPT ![h] = {}]
      /\ UNCHANGED <<op, at, entity>> /\ pc'[h] = "insertMappings"
  BY <1>4, Resumes
<1>6. Fits(h)'
  BY <1>1, <1>2, <1>3, <1>5 DEF Fits
<1>7. Clean(n) => Between(h)'
  BY <1>1, <1>2, <1>3, <1>5 DEF Between, Settled, RowTold, RealmTold, TextTold, DelegatesTold
<1> QED
  BY <1>1, <1>3, <1>4, <1>5, <1>6, <1>7, Replaces, Goes

(* ... and the insert.                                                     *)
LEMMA InsertMappingsStep ==
    ASSUME RInv, NEW h \in Handlers, InsertMappings(h)
    PROVE  RInv'
<1>1. pc[h] = "insertMappings" /\ pc[h] # "idle"
  BY DEF InsertMappings
<1> PICK n \in Ids : n = at[h]
  BY <1>1, Working
<1>2. /\ Fits(h) /\ Typed(h, n) /\ dto[h].permissions \subseteq Permissions
      /\ Clean(n) => Between(h)
  BY <1>1, Working
<1>3. ~dto[h].lists /\ op[h] = "mapPermissions"
  BY <1>1, <1>2 DEF Fits
<1>4. /\ UNCHANGED <<rows, raced, realm, permissions, delegations, failed>>
      /\ delegations' = [delegations EXCEPT ![n] = delegations'[n]]
      /\ delegations'[n] \subseteq Admins
  BY <1>2 DEF InsertMappings, RInv, TypeOK, Delegations, Typed
<1>5. Clean(n) => /\ RowTold(n) /\ RealmTold(n) /\ TextTold(n) /\ DelegatesTold(n)
                  /\ mappings[n] = {}
  BY <1>1, <1>2 DEF Between
<1>6. CASE mappings[n] \cap dto[h].permissions = {}
  <2>1. Answer(h) /\ mappings' = [mappings EXCEPT ![n] = @ \cup dto[h].permissions]
    BY <1>6 DEF InsertMappings
  <2>2. /\ Refuse(h) /\ told' = [told EXCEPT ![n] = told'[n]] /\ told'[n] \in Told
        /\ Clean(n) => /\ told'[n].row = told[n].row /\ told'[n].text = told[n].text
                       /\ told'[n].delegates = told[n].delegates
                       /\ told'[n].permissions = dto[h].permissions
    <3>1. told[n] \in Told /\ Answer(h)
      BY <1>2, <2>1 DEF Typed
    <3>2. /\ Refuse(h) /\ told' = [told EXCEPT ![n] = told'[n]] /\ told'[n] \in Told
          /\ Clean(n) => told'[n] = [told[n] EXCEPT !.permissions = dto[h].permissions]
      BY <1>1, <1>3, <3>1, AnswerTells
    <3> QED
      BY <3>1, <3>2 DEF Told
  <2>3. /\ mappings'[n] = mappings[n] \cup dto[h].permissions
        /\ mappings' = [mappings EXCEPT ![n] = mappings'[n]]
        /\ mappings'[n] \subseteq Permissions
    BY <1>2, <2>1 DEF RInv, TypeOK, Mappings, Typed
  <2>4. rows'[n] # NoRow
    BY <1>1, <1>4, Replaces
  <2>5. Clean(n) => Settled(n)'
    BY <1>4, <1>5, <2>2, <2>3, <2>4
       DEF Settled, RowTold, RealmTold, TextTold, DelegatesTold, MappingsTold
  <2> QED
    BY <1>1, <1>4, <2>2, <2>3, <2>5, Replaces, Ends
<1>7. CASE mappings[n] \cap dto[h].permissions # {}
  <2>1. Refuse(h) /\ UNCHANGED <<mappings, told>> /\ ~Clean(n)
    BY <1>5, <1>7 DEF InsertMappings
  <2>2. /\ mappings' = [mappings EXCEPT ![n] = mappings'[n]]
        /\ told' = [told EXCEPT ![n] = told'[n]]
        /\ mappings'[n] \subseteq Permissions /\ told'[n] \in Told
    BY <1>2, <2>1 DEF RInv, TypeOK, Mappings, Typed
  <2> QED
    BY <1>1, <1>4, <2>1, <2>2, Replaces, Ends
<1> QED
  BY <1>6, <1>7

-----------------------------------------------------------------------------
(* An await that rejects: whatever is missing, nothing is promised.        *)
LEMMA AwaitRejectsStep ==
    ASSUME RInv, NEW h \in Handlers, AwaitRejects(h)
    PROVE  RInv'
<1>1. /\ pc[h] # "idle" /\ Refuse(h) /\ failed' = failed \cup {at[h]}
      /\ UNCHANGED <<rows, raced, stores>>
  BY DEF AwaitRejects
<1> PICK n \in Ids : n = at[h]
  BY <1>1, Working
<1>2. Paired(n) /\ Typed(h, n)
  BY <1>1, Working
<1>3. /\ rows' = [rows EXCEPT ![n] = rows'[n]] /\ realm' = [realm EXCEPT ![n] = realm'[n]]
      /\ delegations' = [delegations EXCEPT ![n] = delegations'[n]]
      /\ mappings' = [mappings EXCEPT ![n] = mappings'[n]]
      /\ rows'[n] = rows[n] /\ realm'[n] = realm[n] /\ delegations'[n] = delegations[n]
      /\ mappings'[n] = mappings[n] /\ permissions' = permissions /\ raced' = raced
  BY <1>1 DEF RInv, TypeOK, Delegations, Mappings, stores
<1>4. told' = [told EXCEPT ![n] = told'[n]] /\ told'[n] \in Told
  <2>1. Untold \in Told
    BY RolesAssumption DEF Untold, Told
  <2> QED
    BY <2>1 DEF AwaitRejects, RInv, TypeOK
<1>5. Paired(n)' /\ ~Clean(n)'
  BY <1>1, <1>2, <1>3 DEF Paired, Clean
<1> QED
  BY <1>1, <1>2, <1>3, <1>4, <1>5, Ends DEF Typed

(* A step that leaves the roles alone.                                     *)
LEMMA RolesAlone ==
    ASSUME RInv, UNCHANGED <<editing, realm, delegations, mappings, dto, told, failed>>,
           permissions' \subseteq Permissions
    PROVE  RInv'
<1>1. TypeOK'
  BY DEF RInv, TypeOK, editing
<1>2. Sole'
  BY DEF RInv, Sole, editing
<1>3. ASSUME NEW h \in Handlers
      PROVE  Fits(h)' /\ (pc'[h] # "idle" /\ Clean(at[h])' => Between(h)')
  <2>1. Fits(h) /\ (pc[h] # "idle" /\ Clean(at[h]) => Between(h))
    BY DEF RInv
  <2> QED
    BY <2>1 DEF Fits, Clean, Between, Settled, RowTold, RealmTold, TextTold, RealmShows,
                DelegatesTold, MappingsTold, editing
<1>4. ASSUME NEW n \in Ids
      PROVE  Paired(n)' /\ (Clean(n)' /\ ~Busy(n)' => Settled(n)')
  <2>1. Paired(n) /\ (Clean(n) /\ ~Busy(n) => Settled(n))
    BY DEF RInv
  <2> QED
    BY <2>1 DEF Paired, Inserting, Clean, Busy, Settled, RowTold, RealmTold, TextTold,
                DelegatesTold, MappingsTold, editing
<1> QED
  BY <1>1, <1>2, <1>3, <1>4 DEF RInv

LEMMA StepHolds == RInv /\ [Next]_vars => RInv'
<1> SUFFICES ASSUME RInv, [Next]_vars PROVE RInv'
  OBVIOUS
<1>1. ASSUME NEW p \in Permissions, CreatePermission(p) PROVE RInv'
  BY <1>1, RolesAlone DEF CreatePermission, RInv, TypeOK
<1>2. ASSUME NEW h \in Handlers, NEW n \in Ids, NEW l \in BOOLEAN, NEW a \in SUBSET Admins,
             \/ \E d \in Descriptions \cup {NoText} : Create(h, n, d, l, a)
             \/ \E d \in Descriptions \cup {NoText, Null}, x \in BOOLEAN \cup {Null} :
                   Update(h, n, d, x, l, a)
      PROVE  RInv'
  BY <1>2, CreateStep, UpdateStep
<1>3. ASSUME NEW h \in Handlers, NEW n \in Ids, NEW ps \in SUBSET Permissions,
             MapPermissions(h, n, ps)
      PROVE  RInv'
  BY <1>3, MapPermissionsStep
<1>4. ASSUME NEW h \in Handlers,
             \/ CreateRealmRole(h) \/ InsertRole(h)
             \/ GetRealmRole(h) \/ UpdateRealmRole(h) \/ SaveReload(h) \/ SaveWrite(h)
             \/ DeleteDelegations(h) \/ InsertDelegations(h)
             \/ DeleteMappings(h) \/ InsertMappings(h) \/ AwaitRejects(h)
      PROVE  RInv'
  BY <1>4, CreateRealmRoleStep, InsertRoleStep, GetRealmRoleStep, UpdateRealmRoleStep,
     SaveReloadStep, SaveWriteStep, DeleteDelegationsStep, InsertDelegationsStep, DeleteMappingsStep,
     InsertMappingsStep, AwaitRejectsStep
<1>5. ASSUME UNCHANGED vars PROVE RInv'
  BY <1>5, RolesAlone DEF vars, editing, RInv, TypeOK
<1> QED
  BY <1>1, <1>2, <1>3, <1>4, <1>5 DEF Next

(* What RolesService relies on holds in every reachable state.             *)
THEOREM Inductive == Spec => []RInv
  BY InitHolds, StepHolds, PTL DEF Spec

(* Every column of the role tables, and every local of a handler of        *)
(* RolesService, holds what it may hold.                                   *)
THEOREM TypesCorrect == Spec => []TypeOK
<1>1. RInv => TypeOK
  BY DEF RInv
<1> QED
  BY <1>1, Inductive, PTL

(* "creates the role in Keycloak, and persists it locally": however        *)
(* RolesService.create is called, and whatever fails, a role row has its   *)
(* realm role; a realm role has its row once no create is at work on it,   *)
(* unless a request for it failed.                                         *)
THEOREM RealmIsPaired == Spec => []RealmMatchesRows
<1>1. RInv => RealmMatchesRows
  <2> SUFFICES ASSUME RInv, NEW n \in Ids
               PROVE  /\ rows[n] # NoRow => realm[n] # NoRole
                      /\ realm[n] # NoRole /\ n \notin failed =>
                            rows[n] # NoRow \/ Creating(n)
    BY DEF RealmMatchesRows
  <2>1. Paired(n)
    BY DEF RInv
  <2>2. Inserting(n) => Creating(n)
    BY DEF RInv, Fits, Inserting, Creating
  <2> QED
    BY <2>1, <2>2 DEF Paired
<1> QED
  BY <1>1, Inductive, PTL

(* Updates and mappings "replace": once no request is at work on a role,   *)
(* its row, its permissions and who may assign it are what RolesService    *)
(* last answered, and the realm role has the last text it was given (null  *)
(* clears the row's, not Keycloak's), unless requests for the role         *)
(* overlapped or failed half-way.                                          *)
THEOREM StoresAreAsTold == Spec => []RolesAsTold
<1>1. RInv => RolesAsTold
  <2> SUFFICES ASSUME RInv, NEW n \in Ids, Clean(n), ~Busy(n)
               PROVE  AsTold(n)
    BY DEF RolesAsTold, Clean
  <2>1. Settled(n)
    BY DEF RInv
  <2> QED
    BY <2>1 DEF Settled, RowTold, RealmTold, DelegatesTold, MappingsTold, AsTold, MayAssign
<1> QED
  BY <1>1, Inductive, PTL

-----------------------------------------------------------------------------
(* Reports.  The library's induction theorems take operators; these take   *)
(* sets, which the provers can instantiate.                                *)

(* Every set of numbers has a least one: the finite subsets of Nat are     *)
(* well-founded, and 0..x is one of them.                                  *)
LEMMA Least ==
    ASSUME NEW T \in SUBSET Nat, T # {}
    PROVE  \E x \in T : \A y \in T : x <= y
<1> DEFINE R == StrictSubsetOrdering(Nat)
           Below(x) == 0..x
           W == {Below(x) : x \in T}
<1>1. IsWellFoundedOn(R, FiniteSubsetsOf(Nat))
  BY FS_StrictSubsetOrderingWellFounded
<1>2. W \subseteq FiniteSubsetsOf(Nat) /\ W # {}
  <2>1. ASSUME NEW x \in T PROVE Below(x) \in FiniteSubsetsOf(Nat)
    <3>1. IsFiniteSet(Below(x))
      BY FS_Interval
    <3>2. Below(x) \subseteq Nat
      OBVIOUS
    <3> QED
      BY <3>1, <3>2 DEF FiniteSubsetsOf
  <2> HIDE DEF Below
  <2> QED
    BY <2>1
<1>3. PICK w \in W : \A v \in W : ~(<<v, w>> \in R)
  <2> HIDE DEF R, W
  <2> QED
    BY <1>1, <1>2, WFMin
<1>4. PICK x \in T : w = Below(x)
  BY <1>3
<1>5. ASSUME NEW y \in T, y < x PROVE FALSE
  <2>1. Below(y) \subseteq Below(x) /\ x \notin Below(y) /\ x \in Below(x)
    BY <1>5
  <2>2. Below(y) \in SUBSET Nat /\ Below(x) \in SUBSET Nat
    OBVIOUS
  <2>3. Below(y) # Below(x)
    BY <2>1
  <2>4. <<Below(y), Below(x)>> \in R
    <3> HIDE DEF Below
    <3> QED
      BY <2>1, <2>2, <2>3 DEF StrictSubsetOrdering
  <2>5. Below(y) \in W
    OBVIOUS
  <2> QED
    <3> HIDE DEF Below, W, R
    <3> QED
      BY <1>3, <1>4, <2>4, <2>5
<1> QED
  <2>1. \A y \in T : x <= y
    BY <1>5
  <2> QED
    BY <2>1

(* Induction on the natural numbers over a set P, which the provers can    *)
(* instantiate where a predicate cannot be: the least number outside of P  *)
(* is no successor.                                                        *)
LEMMA NaturalNumbers ==
    ASSUME NEW P, 0 \in P, \A n \in Nat : n \in P => n + 1 \in P
    PROVE  Nat \subseteq P
<1> SUFFICES ASSUME Nat \ P # {} PROVE FALSE
  OBVIOUS
<1>1. PICK x \in Nat \ P : \A y \in Nat \ P : x <= y
  BY Least
<1>2. x # 0 /\ x - 1 \in Nat /\ ~(x <= x - 1)
  BY <1>1
<1>3. x - 1 \in P
  BY <1>1, <1>2
<1>4. (x - 1) + 1 = x
  BY <1>1
<1> QED
  BY <1>1, <1>2, <1>3, <1>4

(* What x holds of follows from what less[x] does, and rank goes down.      *)
Descends(S, rank, less) ==
    /\ rank \in [S -> Nat] /\ less \in [S -> S]
    /\ \A x \in S : rank[x] # 0 => rank[less[x]] < rank[x]

(* Induction along less, whose ranks descend to 0.                         *)
LEMMA RankInduction ==
    ASSUME NEW S, NEW rank, NEW less, Descends(S, rank, less), NEW P,
           \A x \in S : rank[x] = 0 \/ less[x] \in P => x \in P
    PROVE  S \subseteq P
<1> DEFINE Q == {k \in Nat : \A x \in S : rank[x] <= k => x \in P}
<1>1. 0 \in Q
  BY DEF Descends
<1>2. ASSUME NEW k \in Nat, k \in Q PROVE k + 1 \in Q
  <2> SUFFICES ASSUME NEW x \in S, rank[x] <= k + 1 PROVE x \in P
    BY <1>2
  <2>1. CASE rank[x] = 0
    BY <2>1
  <2>2. CASE rank[x] # 0
    <3>1. less[x] \in S /\ rank[less[x]] \in Nat /\ rank[x] \in Nat /\ rank[less[x]] < rank[x]
      BY <2>2 DEF Descends
    <3>2. rank[less[x]] <= k
      BY <3>1
    <3> QED
      BY <1>2, <3>1, <3>2
  <2> QED
    BY <2>1, <2>2
<1>3. Nat \subseteq Q
  <2> HIDE DEF Q
  <2> QED
    BY <1>1, <1>2, NaturalNumbers
<1>4. ASSUME NEW x \in S PROVE x \in P
  <2>1. rank[x] \in Nat
    BY DEF Descends
  <2>2. rank[x] \in Q
    BY <1>3, <2>1
  <2> QED
    BY <2>1, <2>2
<1> QED
  BY <1>4

(* A function of S defined by recursion along less.                        *)
Recursive(f, S, rank, less, base, G) ==
    \A x \in S : f[x] = IF rank[x] = 0 THEN base ELSE G[<<x, f[less[x]]>>]

(* Such a recursion has a function: one is right up to each rank, and any  *)
(* two that are agree there.                                               *)
LEMMA Recursion ==
    ASSUME NEW S, NEW rank, NEW less, Descends(S, rank, less),
           NEW V, NEW base \in V, NEW G \in [S \X V -> V]
    PROVE  \E f \in [S -> V] : Recursive(f, S, rank, less, base, G)
<1> DEFINE Eq(f, x) == f[x] = IF rank[x] = 0 THEN base ELSE G[<<x, f[less[x]]>>]
           Up(f, k) == \A x \in S : rank[x] <= k => Eq(f, x)
           Q == {k \in Nat : \E f \in [S -> V] : Up(f, k)}
<1>1. 0 \in Q
  <2>1. Up([x \in S |-> base], 0)
    BY DEF Descends
  <2>2. [x \in S |-> base] \in [S -> V]
    OBVIOUS
  <2> QED
    BY <2>1, <2>2
<1>2. ASSUME NEW k \in Nat, k \in Q PROVE k + 1 \in Q
  <2>1. PICK f \in [S -> V] : Up(f, k)
    BY <1>2
  <2> DEFINE g == [x \in S |-> IF rank[x] = 0 THEN base ELSE G[<<x, f[less[x]]>>]]
  <2>2. g \in [S -> V]
    BY DEF Descends
  <2>3. ASSUME NEW x \in S, rank[x] <= k + 1, rank[x] # 0 PROVE g[less[x]] = f[less[x]]
    <3>1. less[x] \in S /\ rank[less[x]] \in Nat /\ rank[x] \in Nat /\ rank[less[x]] < rank[x]
      BY <2>3 DEF Descends
    <3>2. rank[less[x]] <= k
      BY <3>1, <2>3
    <3>3. Eq(f, less[x])
      BY <2>1, <3>1, <3>2
    <3> QED
      BY <3>1, <3>3
  <2>4. Up(g, k + 1)
    BY <2>3
  <2> HIDE DEF g
  <2> QED
    BY <2>2, <2>4
<1>3. Nat \subseteq Q
  <2> HIDE DEF Q
  <2> QED
    BY <1>1, <1>2, NaturalNumbers
<1>4. ASSUME NEW f, NEW g, NEW k \in Nat, Up(f, k), Up(g, k), NEW x \in S, rank[x] <= k
      PROVE  f[x] = g[x]
  <2> DEFINE P == {y \in S : rank[y] <= k => f[y] = g[y]}
  <2>1. ASSUME NEW y \in S, rank[y] = 0 \/ less[y] \in P PROVE y \in P
    <3> SUFFICES ASSUME rank[y] <= k PROVE f[y] = g[y]
      OBVIOUS
    <3>1. Eq(f, y) /\ Eq(g, y)
      BY <1>4
    <3>2. CASE rank[y] = 0
      BY <3>1, <3>2
    <3>3. CASE rank[y] # 0
      <4>1. rank[less[y]] <= k
        <5>1. less[y] \in S /\ rank[less[y]] \in Nat /\ rank[y] \in Nat /\ rank[less[y]] < rank[y]
          BY <3>3 DEF Descends
        <5> QED
          BY <5>1
      <4> QED
        BY <2>1, <3>1, <3>3, <4>1
    <3> QED
      BY <3>2, <3>3
  <2>2. S \subseteq P
    <3> HIDE DEF P
    <3> QED
      BY <2>1, RankInduction
  <2> QED
    BY <1>4, <2>2
<1> DEFINE C(k) == CHOOSE f \in [S -> V] : Up(f, k)
           F == [x \in S |-> C(rank[x])[x]]
<1>5. ASSUME NEW k \in Nat PROVE C(k) \in [S -> V] /\ Up(C(k), k)
  <2>1. \E f \in [S -> V] : Up(f, k)
    BY <1>3
  <2> HIDE DEF Up
  <2> QED
    BY <2>1
<1>6. ASSUME NEW x \in S PROVE C(rank[x]) \in [S -> V]
  <2>1. rank[x] \in Nat
    BY DEF Descends
  <2> HIDE DEF C
  <2> QED
    BY <2>1, <1>5
<1>7. F \in [S -> V]
  <2> HIDE DEF C
  <2> QED
    BY <1>6
<1>8. ASSUME NEW x \in S PROVE Eq(F, x)
  <2>1. rank[x] \in Nat /\ less[x] \in S /\ rank[less[x]] \in Nat
    BY DEF Descends
  <2>2. Eq(C(rank[x]), x)
    <3> HIDE DEF C, Eq
    <3> QED
      BY <1>5, <2>1
  <2>3. ASSUME rank[x] # 0 PROVE C(rank[x])[less[x]] = C(rank[less[x]])[less[x]]
    <3>1. rank[less[x]] < rank[x]
      BY <2>3 DEF Descends
    <3>2. Up(C(rank[x]), rank[less[x]])
      <4>1. Up(C(rank[x]), rank[x])
        <5> HIDE DEF C, Up
        <5> QED
          BY <1>5, <2>1
      <4>2. ASSUME NEW y \in S, rank[y] <= rank[less[x]] PROVE Eq(C(rank[x]), y)
        <5>1. rank[y] \in Nat
          BY DEF Descends
        <5>2. rank[y] <= rank[x]
          BY <5>1, <4>2, <3>1, <2>1
        <5> HIDE DEF C, Eq
        <5> QED
          BY <5>2, <4>1
      <4> HIDE DEF C, Eq
      <4> QED
        BY <4>2
    <3>3. Up(C(rank[less[x]]), rank[less[x]]) /\ rank[less[x]] <= rank[less[x]]
      <4> HIDE DEF C, Up
      <4> QED
        BY <1>5, <2>1
    <3> HIDE DEF C, Up
    <3> QED
      BY <1>4, <2>1, <3>2, <3>3
  <2>4. F[x] = C(rank[x])[x] /\ F[less[x]] = C(rank[less[x]])[less[x]]
    <3> HIDE DEF C
    <3> QED
      BY <2>1
  <2> HIDE DEF C, F
  <2> QED
    BY <2>2, <2>3, <2>4
<1> HIDE DEF F
<1> QED
  BY <1>7, <1>8 DEF Recursive
-----------------------------------------------------------------------------
(* Max of some of the first n indices is the greatest of them.             *)
LEMMA MaxOf ==
    ASSUME NEW n \in Nat, NEW t \in SUBSET (1..n), t # {}
    PROVE  Max(t) \in t /\ \A x \in t : x <= Max(t)
<1> DEFINE U == {n - x : x \in t}
<1>1. U \in SUBSET Nat /\ U # {}
  <2>1. ASSUME NEW x \in t PROVE n - x \in Nat
    BY x \in 1..n
  <2> QED
    BY <2>1
<1>2. PICK u \in U : \A v \in U : u <= v
  <2> HIDE DEF U
  <2> QED
    BY <1>1, Least
<1>3. PICK m \in t : u = n - m
  BY <1>2
<1>4. ASSUME NEW x \in t PROVE m >= x
  <2>1. u <= n - x
    BY <1>2
  <2> QED
    BY <2>1, <1>3
<1>5. Max(t) \in t /\ \A x \in t : Max(t) >= x
  BY <1>4 DEF Max
<1>6. ASSUME NEW x \in t PROVE x <= Max(t)
  <2>1. x \in Int /\ Max(t) \in Int /\ Max(t) >= x
    <3>1. Max(t) \in 1..n /\ x \in 1..n
      BY <1>5
    <3> QED
      BY <3>1, <1>5
  <2> QED
    BY <2>1
<1> QED
  BY <1>5, <1>6

(* The last of the first n + 1 indices is n + 1, and leaves the first n.   *)
LEMMA MaxOfInterval ==
    ASSUME NEW n \in Nat
    PROVE  Max(1..(n + 1)) = n + 1 /\ (1..(n + 1)) \ {n + 1} = 1..n
<1>1. n + 1 \in 1..(n + 1) /\ n + 1 \in Nat /\ 1..(n + 1) \in SUBSET (1..(n + 1))
  OBVIOUS
<1>2. Max(1..(n + 1)) \in 1..(n + 1) /\ n + 1 <= Max(1..(n + 1))
  BY <1>1, MaxOf
<1>3. (1..(n + 1)) \ {n + 1} = 1..n
  OBVIOUS
<1> QED
  BY <1>2, <1>3

(* How many indices or keys each part of D has.                            *)
Sizes(D) == [t \in SUBSET D |-> Cardinality(t)]

(* Taking one element out of a part of D descends to the empty one.        *)
LEMMA SubsetsDescend ==
    ASSUME NEW D, IsFiniteSet(D), NEW less \in [SUBSET D -> SUBSET D],
           \A t \in SUBSET D : t # {} => \E x \in t : less[t] = t \ {x}
    PROVE  /\ Descends(SUBSET D, Sizes(D), less)
           /\ \A t \in SUBSET D : Sizes(D)[t] = 0 <=> t = {}
<1>1. ASSUME NEW t \in SUBSET D
      PROVE  /\ Cardinality(t) \in Nat
             /\ Cardinality(t) = 0 <=> t = {}
             /\ t # {} => Cardinality(less[t]) < Cardinality(t)
  <2>1. IsFiniteSet(t)
    BY FS_Subset
  <2>2. Cardinality(t) \in Nat
    BY <2>1, FS_CardinalityType
  <2>3. Cardinality(t) = 0 <=> t = {}
    BY <2>1, FS_EmptySet
  <2>4. ASSUME t # {} PROVE Cardinality(less[t]) < Cardinality(t)
    <3>1. PICK x \in t : less[t] = t \ {x}
      BY <2>4
    <3>2. Cardinality(t \ {x}) = Cardinality(t) - 1
      BY <2>1, FS_RemoveElement
    <3> QED
      BY <3>1, <3>2, <2>2
  <2> QED
    BY <2>1, <2>2, <2>3, <2>4
<1> QED
  BY <1>1 DEF Descends, Sizes

(* What an element makes of what came before it, and ...                   *)
Steps(V, E) == [V \X E -> V]

(* ... f, what each part of s comes to, folded from base on by G.            *)
IsFold(f, V, G, base, s) ==
    /\ f \in [SUBSET DOMAIN s -> V]
    /\ f = [t \in SUBSET DOMAIN s |->
               IF t = {} THEN base ELSE G[<<f[t \ {Max(t)}], s[Max(t)]>>]]

(* So does taking out the last index, as FoldLeft does.                    *)
LEMMA ListsDescend ==
    ASSUME NEW n \in Nat
    PROVE  LET less == [t \in SUBSET (1..n) |-> t \ {Max(t)}] IN
           /\ Descends(SUBSET (1..n), Sizes(1..n), less)
           /\ \A t \in SUBSET (1..n) : Sizes(1..n)[t] = 0 <=> t = {}
<1> DEFINE less == [t \in SUBSET (1..n) |-> t \ {Max(t)}]
<1>1. less \in [SUBSET (1..n) -> SUBSET (1..n)]
  OBVIOUS
<1>2. \A t \in SUBSET (1..n) : t # {} => \E x \in t : less[t] = t \ {x}
  BY MaxOf
<1>3. IsFiniteSet(1..n)
  BY FS_Interval
<1> HIDE DEF less
<1>4. /\ Descends(SUBSET (1..n), Sizes(1..n), less)
      /\ \A t \in SUBSET (1..n) : Sizes(1..n)[t] = 0 <=> t = {}
  BY <1>1, <1>2, <1>3, SubsetsDescend
<1> QED
  BY <1>4 DEF less

(* Every list has a fold.                                                  *)
LEMMA FoldExists ==
    ASSUME NEW E, NEW V, NEW base \in V, NEW G \in Steps(V, E), NEW s \in Seq(E)
    PROVE  \E f : IsFold(f, V, G, base, s)
<1> DEFINE n == Len(s)
           S == SUBSET (1..n)
           less == [t \in S |-> t \ {Max(t)}]
           H == [p \in S \X V |-> IF p[1] = {} THEN base ELSE G[<<p[2], s[Max(p[1])]>>]]
<1>1. n \in Nat /\ DOMAIN s = 1..n /\ \A i \in 1..n : s[i] \in E
  OBVIOUS
<1> HIDE DEF n
<1>2. Descends(S, Sizes(1..n), less) /\ \A t \in S : Sizes(1..n)[t] = 0 <=> t = {}
  BY <1>1, ListsDescend
<1>3. H \in [S \X V -> V]
  <2> SUFFICES ASSUME NEW t \in S, NEW v \in V, t # {} PROVE G[<<v, s[Max(t)]>>] \in V
    BY DEF Steps
  <2>1. Max(t) \in 1..n
    BY <1>1, MaxOf
  <2> QED
    BY <1>1, <2>1 DEF Steps
<1>4. PICK f \in [S -> V] : \A t \in S :
          f[t] = IF Sizes(1..n)[t] = 0 THEN base ELSE H[<<t, f[less[t]]>>]
  <2> DEFINE rank == Sizes(1..n)
  <2>1. Descends(S, rank, less)
    BY <1>2
  <2> HIDE DEF S, H, less, rank
  <2>2. \E f \in [S -> V] : Recursive(f, S, rank, less, base, H)
    BY <2>1, <1>3, Recursion
  <2> QED
    BY <2>2 DEF rank, Recursive
<1>5. ASSUME NEW t \in S
      PROVE  f[t] = IF t = {} THEN base ELSE G[<<f[t \ {Max(t)}], s[Max(t)]>>]
  <2>1. less[t] = t \ {Max(t)} /\ less[t] \in S /\ f[less[t]] \in V
    OBVIOUS
  <2>2. H[<<t, f[less[t]]>>] = IF t = {} THEN base ELSE G[<<f[less[t]], s[Max(t)]>>]
    <3> HIDE DEF less
    <3> QED
      BY <2>1
  <2>3. f[t] = IF Sizes(1..n)[t] = 0 THEN base ELSE H[<<t, f[less[t]]>>]
    BY <1>4
  <2>4. Sizes(1..n)[t] = 0 <=> t = {}
    BY <1>2
  <2> HIDE DEF H, less, S
  <2> QED
    BY <2>1, <2>2, <2>3, <2>4
<1>6. f = [t \in S |-> IF t = {} THEN base ELSE G[<<f[t \ {Max(t)}], s[Max(t)]>>]]
  BY <1>5
<1> QED
  BY <1>1, <1>6 DEF IsFold

(* g folds s where what it comes to is in V.                               *)
Folds(g, V, G, base, s) ==
    \A t \in SUBSET DOMAIN s :
        IF t = {} THEN g[t] = base
        ELSE g[t \ {Max(t)}] \in V => g[t] = G[<<g[t \ {Max(t)}], s[Max(t)]>>]

(* What folds s as IsFold does is that fold.                               *)
LEMMA FoldUnique ==
    ASSUME NEW E, NEW V, NEW base, NEW G, NEW s \in Seq(E),
           NEW f, IsFold(f, V, G, base, s), NEW g, Folds(g, V, G, base, s)
    PROVE  \A t \in SUBSET DOMAIN s : g[t] = f[t]
<1> DEFINE n == Len(s)
           S == SUBSET (1..n)
           less == [t \in S |-> t \ {Max(t)}]
           P == {t \in S : g[t] = f[t]}
<1>1. n \in Nat /\ DOMAIN s = 1..n
  OBVIOUS
<1> HIDE DEF n
<1>2. Descends(S, Sizes(1..n), less) /\ \A t \in S : Sizes(1..n)[t] = 0 <=> t = {}
  BY <1>1, ListsDescend
<1>3. ASSUME NEW t \in S, t = {} \/ less[t] \in P PROVE t \in P
  <2>1. f[t] = IF t = {} THEN base ELSE G[<<f[t \ {Max(t)}], s[Max(t)]>>]
    BY <1>1 DEF IsFold
  <2>2. IF t = {} THEN g[t] = base
        ELSE g[t \ {Max(t)}] \in V => g[t] = G[<<g[t \ {Max(t)}], s[Max(t)]>>]
    BY <1>1 DEF Folds
  <2>3. less[t] = t \ {Max(t)} /\ f[t \ {Max(t)}] \in V
    BY <1>1 DEF IsFold
  <2> QED
    BY <1>3, <2>1, <2>2, <2>3
<1>4. S \subseteq P
  <2> HIDE DEF P, S, less
  <2> QED
    BY <1>2, <1>3, RankInduction
<1> QED
  BY <1>1, <1>4

(* One element more is one step more.                                      *)
LEMMA FoldSteps ==
    ASSUME NEW E, NEW V, NEW base \in V, NEW G \in Steps(V, E), NEW s \in Seq(E), NEW e \in E,
           NEW f, IsFold(f, V, G, base, s),
           NEW g, IsFold(g, V, G, base, Append(s, e))
    PROVE  g[DOMAIN Append(s, e)] = G[<<f[DOMAIN s], e>>]
<1> DEFINE n == Len(s) a == Append(s, e)
<1>1. /\ n \in Nat /\ DOMAIN s = 1..n /\ DOMAIN a = 1..(n + 1)
      /\ a[n + 1] = e /\ \A i \in 1..n : a[i] = s[i]
  OBVIOUS
<1> HIDE DEF n, a
<1>2. ASSUME NEW t \in SUBSET (1..n)
      PROVE  g[t] = IF t = {} THEN base ELSE G[<<g[t \ {Max(t)}], s[Max(t)]>>]
  <2>1. t \in SUBSET (1..(n + 1))
    BY <1>1
  <2>2. g[t] = IF t = {} THEN base ELSE G[<<g[t \ {Max(t)}], a[Max(t)]>>]
    BY <1>1, <2>1 DEF IsFold, a
  <2>3. t # {} => Max(t) \in 1..n
    BY <1>1, MaxOf
  <2> QED
    BY <1>1, <2>2, <2>3
<1>3. g[1..n] = f[1..n]
  <2>1. Folds(g, V, G, base, s)
    BY <1>1, <1>2 DEF Folds
  <2>2. \A t \in SUBSET DOMAIN s : g[t] = f[t]
    BY <2>1, FoldUnique
  <2> QED
    BY <1>1, <2>2
<1>4. 1..(n + 1) # {} /\ Max(1..(n + 1)) = n + 1 /\ (1..(n + 1)) \ {n + 1} = 1..n
  <2>1. n + 1 \in 1..(n + 1)
    BY <1>1
  <2> QED
    BY <1>1, <2>1, MaxOfInterval
<1>5. g[1..(n + 1)] = G[<<g[1..n], a[n + 1]>>]
  <2>1. g[1..(n + 1)] = IF 1..(n + 1) = {} THEN base
            ELSE G[<<g[(1..(n + 1)) \ {Max(1..(n + 1))}], a[Max(1..(n + 1))]>>]
    <3>1. DOMAIN Append(s, e) = 1..(n + 1) /\ 1..(n + 1) \in SUBSET (1..(n + 1))
      BY <1>1 DEF a
    <3> HIDE DEF a
    <3> QED
      BY <3>1 DEF IsFold, a
  <2> QED
    BY <2>1, <1>4
<1> QED
  BY <1>1, <1>3, <1>5 DEF a
(* Induction on lists over a set P, an element appended at a time.         *)
LEMMA ListInduction ==
    ASSUME NEW E, NEW P, <<>> \in P,
           \A s \in Seq(E), e \in E : s \in P => Append(s, e) \in P
    PROVE  Seq(E) \subseteq P
<1> DEFINE Q == {n \in Nat : \A s \in Seq(E) : Len(s) = n => s \in P}
<1>1. 0 \in Q
  <2> SUFFICES ASSUME NEW s \in Seq(E), Len(s) = 0 PROVE s \in P
    OBVIOUS
  <2>1. s = <<>>
    BY EmptySeq
  <2> QED
    BY <2>1
<1>2. ASSUME NEW n \in Nat, n \in Q PROVE n + 1 \in Q
  <2> SUFFICES ASSUME NEW s \in Seq(E), Len(s) = n + 1 PROVE s \in P
    OBVIOUS
  <2>1. s # <<>>
    BY EmptySeq
  <2>2. PICK u \in Seq(E), e \in E : s = Append(u, e)
    BY <2>1, SequenceEmptyOrAppend
  <2>3. Len(u) \in Nat /\ Len(s) = Len(u) + 1
    BY <2>2, AppendProperties
  <2>4. Len(u) = n
    BY <2>3
  <2> QED
    BY <1>2, <2>2, <2>4
<1>3. Nat \subseteq Q
  <2> HIDE DEF Q
  <2> QED
    BY <1>1, <1>2, NaturalNumbers
<1>4. ASSUME NEW s \in Seq(E) PROVE s \in P
  <2>1. Len(s) \in Nat
    OBVIOUS
  <2>2. Len(s) \in Q
    BY <1>3, <2>1
  <2> QED
    BY <2>2
<1> QED
  BY <1>4

(* What all of s comes to.                                                 *)
FoldOf(V, G, base, s) == (CHOOSE f : IsFold(f, V, G, base, s))[DOMAIN s]

(* What FoldOf is of the empty list, and of a list with one element more.  *)
LEMMA FoldOfSteps ==
    ASSUME NEW E, NEW V, NEW base \in V, NEW G \in Steps(V, E)
    PROVE  /\ FoldOf(V, G, base, <<>>) = base
           /\ \A s \in Seq(E) :
                 /\ FoldOf(V, G, base, s) \in V
                 /\ \A e \in E : FoldOf(V, G, base, Append(s, e)) = G[<<FoldOf(V, G, base, s), e>>]
<1> DEFINE F(s) == CHOOSE f : IsFold(f, V, G, base, s)
<1>1. ASSUME NEW s \in Seq(E) PROVE IsFold(F(s), V, G, base, s)
  <2>1. \E f : IsFold(f, V, G, base, s)
    BY FoldExists
  <2> QED
    BY <2>1
<1>2. \A s : FoldOf(V, G, base, s) = F(s)[DOMAIN s]
  BY DEF FoldOf
<1> HIDE DEF F
<1>3. FoldOf(V, G, base, <<>>) = base
  <2>1. IsFold(F(<<>>), V, G, base, <<>>) /\ DOMAIN <<>> = {}
    <3>1. <<>> \in Seq(E)
      BY EmptySeq
    <3>2. DOMAIN <<>> = {}
      OBVIOUS
    <3> QED
      BY <1>1, <3>1, <3>2
  <2>2. F(<<>>)[{}] = base
    BY <2>1 DEF IsFold
  <2> QED
    BY <1>2, <2>1, <2>2
<1>4. ASSUME NEW s \in Seq(E)
      PROVE  /\ FoldOf(V, G, base, s) \in V
             /\ \A e \in E : FoldOf(V, G, base, Append(s, e)) = G[<<FoldOf(V, G, base, s), e>>]
  <2>1. FoldOf(V, G, base, s) \in V
    <3>1. F(s) \in [SUBSET DOMAIN s -> V]
      BY <1>1 DEF IsFold
    <3> QED
      BY <1>2, <3>1
  <2>2. ASSUME NEW e \in E
        PROVE  FoldOf(V, G, base, Append(s, e)) = G[<<FoldOf(V, G, base, s), e>>]
    <3>1. Append(s, e) \in Seq(E)
      OBVIOUS
    <3>2. IsFold(F(s), V, G, base, s) /\ IsFold(F(Append(s, e)), V, G, base, Append(s, e))
      BY <1>1, <3>1
    <3>3. F(Append(s, e))[DOMAIN Append(s, e)] = G[<<F(s)[DOMAIN s], e>>]
      BY <3>2, FoldSteps
    <3> QED
      BY <1>2, <3>3
  <2> QED
    BY <2>1, <2>2
<1> QED
  BY <1>3, <1>4

(* Any g that folds s comes to the same.                                   *)
LEMMA FoldOfIs ==
    ASSUME NEW E, NEW V, NEW base \in V, NEW G \in Steps(V, E), NEW s \in Seq(E),
           NEW g, Folds(g, V, G, base, s)
    PROVE  g[DOMAIN s] = FoldOf(V, G, base, s)
<1>1. PICK f : f = CHOOSE k : IsFold(k, V, G, base, s)
  OBVIOUS
<1>2. IsFold(f, V, G, base, s)
  BY <1>1, FoldExists
<1>3. g[DOMAIN s] = f[DOMAIN s]
  <2>1. \A t \in SUBSET DOMAIN s : g[t] = f[t]
    BY <1>2, FoldUnique
  <2> QED
    BY <2>1
<1> QED
  BY <1>1, <1>3 DEF FoldOf

-----------------------------------------------------------------------------
(* The amounts that add up, kept apart from the numbers the provers reason *)
(* about.                                                                  *)
Amounts == Int

(* What one more transaction adds to a sum.                                *)
AddAmount == [p \in Amounts \X Transactions |-> p[1] + p[2].amount]

(* It is a step from amount to amount.                                     *)
LEMMA AddsAmount == AddAmount \in Steps(Amounts, Transactions) /\ 0 \in Amounts
  BY DEF AddAmount, Transactions, Steps, Amounts

(* Sum, which FoldLeft defines by a choice of its own, is the fold of      *)
(* AddAmount.                                                              *)
LEMMA SumIs ==
    ASSUME NEW s \in Seq(Transactions)
    PROVE  Sum(s) = FoldOf(Amounts, AddAmount, 0, s)
<1>1. AddAmount \in Steps(Amounts, Transactions) /\ 0 \in Amounts
  BY AddsAmount
<1>2. PICK f : IsFold(f, Amounts, AddAmount, 0, s)
  BY <1>1, FoldExists
<1>3. DOMAIN s = 1..Len(s) /\ Len(s) \in Nat /\ \A i \in DOMAIN s : s[i] \in Transactions
  OBVIOUS
<1>4. \A t \in SUBSET DOMAIN s : t # {} => Max(t) \in DOMAIN s /\ s[Max(t)] \in Transactions
  BY <1>3, MaxOf
<1>5. f = [t \in SUBSET DOMAIN s |-> IF t = {} THEN 0 ELSE f[t \ {Max(t)}] + s[Max(t)].amount]
  BY <1>2, <1>4 DEF IsFold, AddAmount
<1>6. PICK g : /\ g = [t \in SUBSET DOMAIN s |->
                          IF t = {} THEN 0 ELSE g[t \ {Max(t)}] + s[Max(t)].amount]
               /\ Sum(s) = g[DOMAIN s]
  BY <1>5 DEF Sum, FoldLeft, MapThenFoldSet
<1>7. Folds(g, Amounts, AddAmount, 0, s)
  BY <1>4, <1>6 DEF Folds, AddAmount
<1>8. g[DOMAIN s] = FoldOf(Amounts, AddAmount, 0, s)
  BY <1>1, <1>7, FoldOfIs
<1> QED
  BY <1>6, <1>8

(* The sum of no transactions is 0, and one more adds its amount.          *)
LEMMA SumSteps ==
    /\ Sum(<<>>) = 0
    /\ \A s \in Seq(Transactions) :
          /\ Sum(s) \in Int
          /\ \A t \in Transactions : Sum(Append(s, t)) = Sum(s) + t.amount
<1> DEFINE F(s) == FoldOf(Amounts, AddAmount, 0, s)
<1>1. AddAmount \in Steps(Amounts, Transactions) /\ 0 \in Amounts
  BY AddsAmount
<1>2. /\ F(<<>>) = 0
      /\ \A s \in Seq(Transactions) :
            /\ F(s) \in Amounts
            /\ \A t \in Transactions : F(Append(s, t)) = AddAmount[<<F(s), t>>]
  BY <1>1, FoldOfSteps
<1>3. <<>> \in Seq(Transactions) /\ \A s \in Seq(Transactions) : Sum(s) = F(s)
  BY SumIs, EmptySeq
<1>4. ASSUME NEW s \in Seq(Transactions), NEW t \in Transactions
      PROVE  Sum(s) \in Int /\ Sum(Append(s, t)) = Sum(s) + t.amount
  <2>1. Append(s, t) \in Seq(Transactions)
    OBVIOUS
  <2> HIDE DEF F
  <2>2. F(s) \in Int /\ F(Append(s, t)) = AddAmount[<<F(s), t>>]
    BY <1>2 DEF Amounts
  <2>3. AddAmount[<<F(s), t>>] = F(s) + t.amount
    BY <2>2 DEF AddAmount, Amounts
  <2> QED
    BY <1>3, <2>1, <2>2, <2>3
<1>5. \A s \in Seq(Transactions) : Sum(s) \in Int
  BY <1>2, <1>3 DEF Amounts
<1> HIDE DEF F
<1> QED
  BY <1>2, <1>3, <1>4, <1>5

-----------------------------------------------------------------------------
(* What a report lists.                                                    *)
Lists == Seq(Transactions)

(* One more transaction is kept when it is in S.                           *)
KeepIn(S) == [p \in Lists \X Transactions |-> IF p[2] \in S THEN Append(p[1], p[2]) ELSE p[1]]

(* It is a step from list to list.                                         *)
LEMMA KeepsIn == \A S : KeepIn(S) \in Steps(Lists, Transactions) /\ <<>> \in Lists
  BY DEF KeepIn, Steps, Lists

(* Kept is the fold of KeepIn.                                             *)
LEMMA KeptIs ==
    ASSUME NEW S, NEW s \in Seq(Transactions)
    PROVE  Kept(s, S) = FoldOf(Lists, KeepIn(S), <<>>, s)
<1>1. KeepIn(S) \in Steps(Lists, Transactions) /\ <<>> \in Lists
  BY KeepsIn
<1>2. PICK f : IsFold(f, Lists, KeepIn(S), <<>>, s)
  BY <1>1, FoldExists
<1>3. DOMAIN s = 1..Len(s) /\ Len(s) \in Nat /\ \A i \in DOMAIN s : s[i] \in Transactions
  OBVIOUS
<1>4. \A t \in SUBSET DOMAIN s : t # {} => Max(t) \in DOMAIN s /\ s[Max(t)] \in Transactions
  BY <1>3, MaxOf
<1>5. f = [t \in SUBSET DOMAIN s |->
              IF t = {} THEN <<>>
              ELSE IF s[Max(t)] \in S THEN Append(f[t \ {Max(t)}], s[Max(t)])
                   ELSE f[t \ {Max(t)}]]
  BY <1>2, <1>4 DEF IsFold, KeepIn
<1>6. PICK g : /\ g = [t \in SUBSET DOMAIN s |->
                          IF t = {} THEN <<>>
                          ELSE IF s[Max(t)] \in S THEN Append(g[t \ {Max(t)}], s[Max(t)])
                               ELSE g[t \ {Max(t)}]]
               /\ Kept(s, S) = g[DOMAIN s]
  BY <1>5 DEF Kept, FoldLeft, MapThenFoldSet
<1>7. Folds(g, Lists, KeepIn(S), <<>>, s)
  BY <1>4, <1>6 DEF Folds, KeepIn
<1>8. g[DOMAIN s] = FoldOf(Lists, KeepIn(S), <<>>, s)
  BY <1>1, <1>7, FoldOfIs
<1> QED
  BY <1>6, <1>8

(* Of no transactions none are kept, and one more is when it is in S.      *)
LEMMA KeptSteps ==
    ASSUME NEW S
    PROVE  /\ Kept(<<>>, S) = <<>>
           /\ \A s \in Seq(Transactions) :
                 /\ Kept(s, S) \in Seq(Transactions)
                 /\ \A t \in Transactions :
                       Kept(Append(s, t), S) =
                          IF t \in S THEN Append(Kept(s, S), t) ELSE Kept(s, S)
<1> DEFINE F(s) == FoldOf(Lists, KeepIn(S), <<>>, s)
<1>1. KeepIn(S) \in Steps(Lists, Transactions) /\ <<>> \in Lists
  BY KeepsIn
<1>2. /\ F(<<>>) = <<>>
      /\ \A s \in Seq(Transactions) :
            /\ F(s) \in Lists
            /\ \A t \in Transactions : F(Append(s, t)) = KeepIn(S)[<<F(s), t>>]
  BY <1>1, FoldOfSteps
<1>3. <<>> \in Seq(Transactions) /\ \A s \in Seq(Transactions) : Kept(s, S) = F(s)
  BY KeptIs, EmptySeq
<1>4. ASSUME NEW s \in Seq(Transactions), NEW t \in Transactions
      PROVE  Kept(Append(s, t), S) = IF t \in S THEN Append(Kept(s, S), t) ELSE Kept(s, S)
  <2>1. Append(s, t) \in Seq(Transactions)
    OBVIOUS
  <2> HIDE DEF F
  <2>2. F(s) \in Lists /\ F(Append(s, t)) = KeepIn(S)[<<F(s), t>>]
    BY <1>2
  <2>3. KeepIn(S)[<<F(s), t>>] = IF t \in S THEN Append(F(s), t) ELSE F(s)
    BY <2>2 DEF KeepIn
  <2> QED
    BY <1>3, <2>1, <2>2, <2>3
<1>5. \A s \in Seq(Transactions) : Kept(s, S) \in Seq(Transactions)
  BY <1>2, <1>3 DEF Lists
<1> HIDE DEF F
<1> QED
  BY <1>2, <1>3, <1>4, <1>5

-----------------------------------------------------------------------------
(* The letters A to Z.                                                     *)
Digits   == 1..26
(* The numbers that letters stand for.                                     *)
Numerals == Nat

(* What one more letter makes of a number.                                 *)
AddDigit == [p \in Numerals \X Digits |-> 26 * p[1] + p[2]]

(* It is a step from number to number.                                     *)
LEMMA AddsDigit == AddDigit \in Steps(Numerals, Digits) /\ 0 \in Numerals
  BY DEF AddDigit, Steps, Numerals, Digits

(* Number is the fold of AddDigit.                                         *)
LEMMA NumberIs ==
    ASSUME NEW s \in Seq(Digits)
    PROVE  Number(s) = FoldOf(Numerals, AddDigit, 0, s)
<1>1. AddDigit \in Steps(Numerals, Digits) /\ 0 \in Numerals
  BY AddsDigit
<1>2. PICK f : IsFold(f, Numerals, AddDigit, 0, s)
  BY <1>1, FoldExists
<1>3. DOMAIN s = 1..Len(s) /\ Len(s) \in Nat /\ \A i \in DOMAIN s : s[i] \in Digits
  OBVIOUS
<1>4. \A t \in SUBSET DOMAIN s : t # {} => Max(t) \in DOMAIN s /\ s[Max(t)] \in Digits
  BY <1>3, MaxOf
<1>5. f = [t \in SUBSET DOMAIN s |-> IF t = {} THEN 0 ELSE 26 * f[t \ {Max(t)}] + s[Max(t)]]
  BY <1>2, <1>4 DEF IsFold, AddDigit
<1>6. PICK g : /\ g = [t \in SUBSET DOMAIN s |->
                          IF t = {} THEN 0 ELSE 26 * g[t \ {Max(t)}] + s[Max(t)]]
               /\ Number(s) = g[DOMAIN s]
  BY <1>5 DEF Number, FoldLeft, MapThenFoldSet
<1>7. Folds(g, Numerals, AddDigit, 0, s)
  BY <1>4, <1>6 DEF Folds, AddDigit
<1>8. g[DOMAIN s] = FoldOf(Numerals, AddDigit, 0, s)
  BY <1>1, <1>7, FoldOfIs
<1> QED
  BY <1>6, <1>8

(* No letters stand for 0, and one more adds its digit to 26 times the     *)
(* number.                                                                 *)
LEMMA NumberSteps ==
    /\ Number(<<>>) = 0
    /\ \A s \in Seq(Digits) :
          /\ Number(s) \in Nat
          /\ \A d \in Digits : Number(Append(s, d)) = 26 * Number(s) + d
<1> DEFINE F(s) == FoldOf(Numerals, AddDigit, 0, s)
<1>1. AddDigit \in Steps(Numerals, Digits) /\ 0 \in Numerals
  BY AddsDigit
<1>2. /\ F(<<>>) = 0
      /\ \A s \in Seq(Digits) :
            /\ F(s) \in Numerals
            /\ \A d \in Digits : F(Append(s, d)) = AddDigit[<<F(s), d>>]
  BY <1>1, FoldOfSteps
<1>3. <<>> \in Seq(Digits) /\ \A s \in Seq(Digits) : Number(s) = F(s)
  BY NumberIs, EmptySeq
<1>4. ASSUME NEW s \in Seq(Digits), NEW d \in Digits
      PROVE  Number(Append(s, d)) = 26 * Number(s) + d
  <2>1. Append(s, d) \in Seq(Digits)
    OBVIOUS
  <2> HIDE DEF F
  <2>2. F(s) \in Numerals /\ F(Append(s, d)) = AddDigit[<<F(s), d>>]
    BY <1>2
  <2>3. AddDigit[<<F(s), d>>] = 26 * F(s) + d
    BY <2>2 DEF AddDigit
  <2> QED
    BY <1>3, <2>1, <2>2, <2>3
<1>5. \A s \in Seq(Digits) : Number(s) \in Nat
  BY <1>2, <1>3 DEF Numerals
<1> HIDE DEF F
<1> QED
  BY <1>2, <1>3, <1>4, <1>5

(* A step of getColumnLetter: a smaller column is left, and a letter.      *)
LEMMA Quotient ==
    ASSUME NEW n \in Nat, n # 0
    PROVE  /\ (n - 1) \div 26 \in Nat /\ (n - 1) \div 26 < n
           /\ 1 + ((n - 1) % 26) \in 1..26
           /\ n = 26 * ((n - 1) \div 26) + (1 + ((n - 1) % 26))
<1>1. n - 1 \in Nat
  OBVIOUS
<1> DEFINE m == n - 1 q == m \div 26 r == m % 26
<1>2. q \in Int /\ r \in 0..25 /\ m = 26 * q + r
  BY <1>1
<1> HIDE DEF m, q, r
<1>3. m \in Nat /\ m + 1 = n
  BY <1>1 DEF m
<1>4. q \in Nat /\ q <= m
  BY <1>2, <1>3
<1> QED
  BY <1>2, <1>3, <1>4 DEF m, q, r

(* The letters of a column are those of the smaller one and a last letter. *)
LEMMA LettersSteps ==
    ASSUME NEW n \in Nat
    PROVE  /\ Letters(n) \in Seq(Digits)
           /\ n = 0 => Letters(n) = <<>>
           /\ n # 0 => Letters(n) = Append(Letters((n - 1) \div 26), 1 + ((n - 1) % 26))
<1> DEFINE V == Seq(Digits)
           N == Nat
           rank == [k \in N |-> k]
           less == [k \in N |-> IF k = 0 THEN 0 ELSE (k - 1) \div 26]
           G == [p \in N \X V |-> IF p[1] = 0 THEN <<>> ELSE Append(p[2], 1 + ((p[1] - 1) % 26))]
           Def(f) == [k \in Nat |-> IF k = 0 THEN <<>>
                                    ELSE Append(f[(k - 1) \div 26], 1 + ((k - 1) % 26))]
<1>1. Descends(N, rank, less)
  BY Quotient DEF Descends
<1>2. <<>> \in V /\ G \in [N \X V -> V]
  <2> SUFFICES ASSUME NEW k \in Nat, NEW v \in V, k # 0
               PROVE  Append(v, 1 + ((k - 1) % 26)) \in V
    OBVIOUS
  <2>1. 1 + ((k - 1) % 26) \in Digits
    BY Quotient DEF Digits
  <2> QED
    BY <2>1
<1>3. PICK f \in [N -> V] : Recursive(f, N, rank, less, <<>>, G)
  <2> HIDE DEF V, N, rank, less, G
  <2> QED
    BY <1>1, <1>2, Recursion
<1>4. f = Def(f)
  <2>1. ASSUME NEW k \in Nat
        PROVE  f[k] = IF k = 0 THEN <<>> ELSE Append(f[(k - 1) \div 26], 1 + ((k - 1) % 26))
    <3>1. f[k] = IF rank[k] = 0 THEN <<>> ELSE G[<<k, f[less[k]]>>]
      BY <1>3 DEF Recursive
    <3>2. k # 0 => less[k] = (k - 1) \div 26 /\ less[k] \in Nat /\ f[less[k]] \in V
      BY Quotient
    <3> QED
      BY <3>1, <3>2
  <2> QED
    BY <2>1
<1>5. PICK g : g = Def(g) /\ \A k \in Nat : Letters(k) = g[k]
  <2>1. PICK g : g = CHOOSE h : h = Def(h)
    OBVIOUS
  <2>2. g = Def(g)
    BY <1>4, <2>1
  <2>3. ASSUME NEW k \in Nat PROVE Letters(k) = g[k]
    BY <2>1, Zenon DEF Letters
  <2> QED
    BY <2>2, <2>3
<1>6. ASSUME NEW k \in Nat
      PROVE  g[k] = IF k = 0 THEN <<>> ELSE Append(g[(k - 1) \div 26], 1 + ((k - 1) % 26))
  BY <1>5
<1> HIDE DEF Def
<1> DEFINE P == {k \in N : g[k] \in V}
<1>7. ASSUME NEW k \in N, rank[k] = 0 \/ less[k] \in P PROVE k \in P
  <2>1. k \in Nat /\ (k # 0 => g[(k - 1) \div 26] \in V)
    BY <1>7
  <2>2. k # 0 => 1 + ((k - 1) % 26) \in Digits
    BY Quotient DEF Digits
  <2>3. g[k] = IF k = 0 THEN <<>> ELSE Append(g[(k - 1) \div 26], 1 + ((k - 1) % 26))
    BY <1>6, <2>1
  <2>4. CASE k = 0
    BY <2>3, <2>4, EmptySeq
  <2>5. CASE k # 0
    <3>1. Append(g[(k - 1) \div 26], 1 + ((k - 1) % 26)) \in V
      BY <2>1, <2>2, <2>5, AppendProperties
    <3> QED
      BY <2>3, <2>5, <3>1
  <2> QED
    BY <2>4, <2>5
<1>8. N \subseteq P
  <2> HIDE DEF N, P, rank, less
  <2> QED
    BY <1>1, <1>7, RankInduction
<1>9. n # 0 => (n - 1) \div 26 \in Nat
  BY Quotient
<1> QED
  BY <1>5, <1>6, <1>8, <1>9

(* The letters of a column, read as digits 1 to 26, are its number.        *)
LEMMA NumberOfLetters ==
    ASSUME NEW n \in Nat
    PROVE  Number(Letters(n)) = n
<1> DEFINE N == Nat
           rank == [k \in N |-> k]
           less == [k \in N |-> IF k = 0 THEN 0 ELSE (k - 1) \div 26]
           P == {k \in N : Number(Letters(k)) = k}
<1>1. Descends(N, rank, less)
  BY Quotient DEF Descends
<1>2. ASSUME NEW k \in N, rank[k] = 0 \/ less[k] \in P PROVE k \in P
  <2>1. CASE k = 0
    BY <2>1, LettersSteps, NumberSteps
  <2>2. CASE k # 0
    <3> DEFINE q == (k - 1) \div 26 d == 1 + ((k - 1) % 26)
    <3>1. q \in Nat /\ d \in Digits /\ k = 26 * q + d
      BY <2>2, Quotient DEF Digits
    <3>2. Number(Letters(q)) = q
      BY <1>2, <2>2
    <3>3. Letters(q) \in Seq(Digits) /\ Letters(k) = Append(Letters(q), d)
      BY <2>2, <3>1, LettersSteps
    <3> HIDE DEF q, d
    <3>4. Number(Letters(k)) = 26 * Number(Letters(q)) + d
      BY <3>1, <3>3, NumberSteps
    <3> QED
      BY <3>1, <3>2, <3>4
  <2> QED
    BY <2>1, <2>2
<1>3. N \subseteq P
  <2> HIDE DEF N, P, rank, less
  <2> QED
    BY <1>1, <1>2, RankInduction
<1> QED
  BY <1>3

-----------------------------------------------------------------------------
(* The groups of the Map in getBranchWise and getChannelWise, and ...      *)
Group == [count : Nat, amount : Int]

(* ... such a Map.                                                         *)
Groups == UNION {[D -> Group] : D \in SUBSET STRING}

(* c is g with one more transaction of a name, in its group or a new one.   *)
Joins(c, g, name, amount) ==
    /\ DOMAIN c = DOMAIN g \cup {name}
    /\ \A x \in DOMAIN g \ {name} : c[x] = g[x]
    /\ c[name] = [count  |-> (IF name \in DOMAIN g THEN g[name].count ELSE 0) + 1,
                  amount |-> (IF name \in DOMAIN g THEN g[name].amount ELSE 0) + amount]

(* Counting a transaction changes its own group only.                      *)
LEMMA CountedIs ==
    ASSUME NEW g \in Groups, NEW name \in STRING, NEW amount \in Amounts
    PROVE  /\ Counted(g, name, amount) \in Groups
           /\ Joins(Counted(g, name, amount), g, name, amount)
<1> DEFINE c == Counted(g, name, amount)
           D == DOMAIN g \cup {name}
           new == IF name \in DOMAIN g
                  THEN [count |-> g[name].count + 1, amount |-> g[name].amount + amount]
                  ELSE [count |-> 1, amount |-> amount]
<1>1. DOMAIN g \in SUBSET STRING /\ g \in [DOMAIN g -> Group]
  BY DEF Groups
<1>2. c = [x \in D |-> IF x = name THEN new ELSE g[x]]
  <2>1. CASE name \in DOMAIN g
    <3>1. /\ c = [g EXCEPT ![name].count = @ + 1, ![name].amount = @ + amount]
          /\ D = DOMAIN g /\ g[name] \in Group
      BY <1>1, <2>1 DEF Counted
    <3>2. DOMAIN c = D /\ c[name] = new /\ \A x \in D \ {name} : c[x] = g[x]
      BY <1>1, <2>1, <3>1 DEF Group
    <3>3. c = [x \in D |-> c[x]]
      BY <2>1, <3>1
    <3> HIDE DEF c, new, D
    <3> QED
      BY <3>2, <3>3
  <2>2. CASE name \notin DOMAIN g
    <3>1. c = [x \in D |-> IF x = name THEN [count |-> 1, amount |-> amount] ELSE g[x]]
      BY <2>2 DEF Counted
    <3> QED
      BY <2>2, <3>1
  <2> QED
    BY <2>1, <2>2
<1>3. new \in Group
  BY <1>1 DEF Group, Amounts
<1>4. c \in [D -> Group] /\ D \in SUBSET STRING
  BY <1>1, <1>2, <1>3
<1>5. new = [count  |-> (IF name \in DOMAIN g THEN g[name].count ELSE 0) + 1,
             amount |-> (IF name \in DOMAIN g THEN g[name].amount ELSE 0) + amount]
  BY DEF Amounts
<1> HIDE DEF c, new
<1>6. c \in Groups
  BY <1>4 DEF Groups
<1> QED
  BY <1>2, <1>4, <1>5, <1>6 DEF c, Joins

(* The recursion of Grouped has a function, for every list.                *)
LEMMA GroupedExists ==
    ASSUME NEW s \in Seq(Transactions), NEW f \in {"branch", "channel"}
    PROVE  \E h : /\ h = [i \in 0..Len(s) |->
                            IF i = 0 THEN <<>> ELSE Counted(h[i - 1], s[i][f], s[i].amount)]
                  /\ h \in [0..Len(s) -> Groups] /\ Grouped(s, f) = h[Len(s)]
<1> DEFINE n == Len(s)
           S == 0..n
           rank == [i \in S |-> i]
           less == [i \in S |-> IF i = 0 THEN 0 ELSE i - 1]
           G == [p \in S \X Groups |->
                    IF p[1] = 0 THEN <<>> ELSE Counted(p[2], s[p[1]][f], s[p[1]].amount)]
           Def(h) == [i \in 0..Len(s) |->
                        IF i = 0 THEN <<>> ELSE Counted(h[i - 1], s[i][f], s[i].amount)]
<1>1. /\ n \in Nat
      /\ \A i \in 1..n : s[i][f] \in STRING /\ s[i].amount \in Amounts
  <2>1. n \in Nat /\ \A i \in 1..n : s[i] \in Transactions
    OBVIOUS
  <2> QED
    BY <2>1 DEF Transactions, Amounts
<1> HIDE DEF n
<1>2. <<>> \in Groups
  <2>1. <<>> \in [{} -> Group] /\ {} \in SUBSET STRING
    OBVIOUS
  <2> QED
    BY <2>1 DEF Groups
<1>3. Descends(S, rank, less)
  BY <1>1 DEF Descends
<1>4. G \in [S \X Groups -> Groups]
  <2> SUFFICES ASSUME NEW i \in S, NEW g \in Groups, i # 0
               PROVE  Counted(g, s[i][f], s[i].amount) \in Groups
    BY <1>2
  <2>1. i \in 1..n
    BY <1>1
  <2> QED
    BY <1>1, <2>1, CountedIs
<1>5. PICK h \in [S -> Groups] : Recursive(h, S, rank, less, <<>>, G)
  <2> HIDE DEF S, rank, less, G
  <2> QED
    BY <1>2, <1>3, <1>4, Recursion
<1>6. h = Def(h)
  <2>1. ASSUME NEW i \in S
        PROVE  h[i] = IF i = 0 THEN <<>> ELSE Counted(h[i - 1], s[i][f], s[i].amount)
    <3>1. h[i] = IF rank[i] = 0 THEN <<>> ELSE G[<<i, h[less[i]]>>]
      BY <1>5 DEF Recursive
    <3>2. i # 0 => less[i] = i - 1 /\ less[i] \in S /\ h[less[i]] \in Groups
      BY <1>1
    <3> QED
      BY <3>1, <3>2
  <2> QED
    BY <2>1 DEF n
<1>7. PICK k : k = Def(k) /\ Grouped(s, f) = k[Len(s)]
  <2>1. PICK k : k = CHOOSE h1 : h1 = Def(h1)
    OBVIOUS
  <2>2. k = Def(k)
    BY <1>6, <2>1
  <2>3. Grouped(s, f) = k[Len(s)]
    BY <2>1, Zenon DEF Grouped
  <2> QED
    BY <2>2, <2>3
<1>8. ASSUME NEW i \in S
      PROVE  k[i] = IF i = 0 THEN <<>> ELSE Counted(k[i - 1], s[i][f], s[i].amount)
  BY <1>7 DEF n
<1> DEFINE P == {i \in S : k[i] \in Groups}
<1>9. ASSUME NEW i \in S, rank[i] = 0 \/ less[i] \in P PROVE i \in P
  <2>1. i # 0 => k[i - 1] \in Groups /\ i \in 1..n
    BY <1>1, <1>9
  <2>2. i # 0 => Counted(k[i - 1], s[i][f], s[i].amount) \in Groups
    BY <1>1, <2>1, CountedIs
  <2> QED
    BY <1>2, <1>8, <2>2
<1>10. S \subseteq P
  <2> HIDE DEF S, P, rank, less
  <2> QED
    BY <1>3, <1>9, RankInduction
<1>11. k \in [0..Len(s) -> Groups]
  BY <1>7, <1>10 DEF n
<1> QED
  BY <1>7, <1>11

(* No transactions have no groups, and one more is counted in its group.   *)
LEMMA GroupedSteps ==
    ASSUME NEW f \in {"branch", "channel"}
    PROVE  /\ Grouped(<<>>, f) = <<>>
           /\ \A s \in Seq(Transactions) :
                 /\ Grouped(s, f) \in Groups
                 /\ \A t \in Transactions :
                       Grouped(Append(s, t), f) = Counted(Grouped(s, f), t[f], t.amount)
<1>1. Grouped(<<>>, f) = <<>>
  <2> DEFINE e == <<>>
  <2>1. e \in Seq(Transactions) /\ Len(e) = 0
    BY EmptySeq
  <2> HIDE DEF e
  <2>2. PICK h : /\ h = [i \in 0..Len(e) |->
                            IF i = 0 THEN <<>> ELSE Counted(h[i - 1], e[i][f], e[i].amount)]
                 /\ Grouped(e, f) = h[Len(e)]
    BY <2>1, GroupedExists
  <2>3. Grouped(e, f) = <<>>
    BY <2>1, <2>2
  <2> QED
    BY <2>3 DEF e
<1>2. ASSUME NEW s \in Seq(Transactions) PROVE Grouped(s, f) \in Groups
  <2>1. PICK h : h \in [0..Len(s) -> Groups] /\ Grouped(s, f) = h[Len(s)]
    BY GroupedExists
  <2>2. Len(s) \in 0..Len(s)
    OBVIOUS
  <2> QED
    BY <2>1, <2>2
<1>3. ASSUME NEW s \in Seq(Transactions), NEW t \in Transactions
      PROVE  Grouped(Append(s, t), f) = Counted(Grouped(s, f), t[f], t.amount)
  <2> DEFINE n == Len(s) a == Append(s, t)
  <2>1. /\ n \in Nat /\ a \in Seq(Transactions) /\ Len(a) = n + 1
        /\ a[n + 1] = t /\ \A i \in 1..n : a[i] = s[i]
    BY AppendProperties
  <2>2. PICK h : /\ h = [i \in 0..Len(s) |->
                            IF i = 0 THEN <<>> ELSE Counted(h[i - 1], s[i][f], s[i].amount)]
                 /\ Grouped(s, f) = h[Len(s)]
    BY GroupedExists
  <2> HIDE DEF a
  <2>3. PICK k : /\ k = [i \in 0..Len(a) |->
                            IF i = 0 THEN <<>> ELSE Counted(k[i - 1], a[i][f], a[i].amount)]
                 /\ Grouped(a, f) = k[Len(a)]
    BY <2>1, GroupedExists
  <2> HIDE DEF n
  <2>4. ASSUME NEW i \in 0..n
        PROVE  /\ h[i] = IF i = 0 THEN <<>> ELSE Counted(h[i - 1], s[i][f], s[i].amount)
               /\ k[i] = IF i = 0 THEN <<>> ELSE Counted(k[i - 1], s[i][f], s[i].amount)
    <3>1. h[i] = IF i = 0 THEN <<>> ELSE Counted(h[i - 1], s[i][f], s[i].amount)
      BY <2>2 DEF n
    <3>2. i \in 0..Len(a) /\ (i # 0 => i \in 1..n)
      BY <2>1
    <3>3. k[i] = IF i = 0 THEN <<>> ELSE Counted(k[i - 1], a[i][f], a[i].amount)
      BY <2>3, <3>2
    <3> QED
      BY <2>1, <3>1, <3>2, <3>3
  <2> DEFINE S == 0..n
             rank == [i \in S |-> i]
             less == [i \in S |-> IF i = 0 THEN 0 ELSE i - 1]
             P == {i \in S : h[i] = k[i]}
  <2>5. Descends(S, rank, less)
    BY <2>1 DEF Descends
  <2>6. ASSUME NEW i \in S, rank[i] = 0 \/ less[i] \in P PROVE i \in P
    <3>1. i # 0 => h[i - 1] = k[i - 1]
      BY <2>6
    <3> QED
      BY <2>4, <3>1
  <2>7. S \subseteq P
    <3> HIDE DEF S, P, rank, less
    <3> QED
      BY <2>5, <2>6, RankInduction
  <2>8. h[n] = k[n]
    BY <2>1, <2>7
  <2>9. k[n + 1] = Counted(k[n], t[f], t.amount)
    <3>1. n + 1 \in 0..Len(a) /\ n + 1 # 0 /\ (n + 1) - 1 = n
      BY <2>1
    <3>2. k[n + 1] = Counted(k[(n + 1) - 1], a[n + 1][f], a[n + 1].amount)
      BY <2>3, <3>1
    <3> QED
      BY <2>1, <3>1, <3>2
  <2> QED
    BY <2>1, <2>2, <2>3, <2>8, <2>9 DEF n, a
<1> QED
  BY <1>1, <1>2, <1>3

-----------------------------------------------------------------------------
(* The element that the folds over sets take first.                        *)
AnyOf(T) == CHOOSE x \in T : TRUE

(* f adds up the weights of each part of D, in the order CHOOSE takes.     *)
IsTotal(f, w, D) ==
    /\ f \in [SUBSET D -> Int] /\ \A x \in D : w[x] \in Int
    /\ \A T \in SUBSET D : f[T] = IF T = {} THEN 0 ELSE f[T \ {AnyOf(T)}] + w[AnyOf(T)]

(* Taking it out descends to the empty set.                                *)
LEMMA PartsDescend ==
    ASSUME NEW D, IsFiniteSet(D)
    PROVE  LET less == [T \in SUBSET D |-> T \ {AnyOf(T)}] IN
           /\ Descends(SUBSET D, Sizes(D), less)
           /\ \A T \in SUBSET D : Sizes(D)[T] = 0 <=> T = {}
<1> DEFINE less == [T \in SUBSET D |-> T \ {AnyOf(T)}]
<1>1. less \in [SUBSET D -> SUBSET D]
  OBVIOUS
<1>2. \A T \in SUBSET D : T # {} => \E x \in T : less[T] = T \ {x}
  BY DEF AnyOf
<1> HIDE DEF less
<1>3. /\ Descends(SUBSET D, Sizes(D), less)
      /\ \A T \in SUBSET D : Sizes(D)[T] = 0 <=> T = {}
  BY <1>1, <1>2, SubsetsDescend
<1> QED
  BY <1>3 DEF less

(* Every finite set has a total.                                           *)
LEMMA TotalExists ==
    ASSUME NEW D, IsFiniteSet(D), NEW w, \A x \in D : w[x] \in Int
    PROVE  \E f : IsTotal(f, w, D)
<1> DEFINE S == SUBSET D
           V == Int
           rank == Sizes(D)
           less == [T \in S |-> T \ {AnyOf(T)}]
           G == [p \in S \X V |-> IF p[1] = {} THEN 0 ELSE p[2] + w[AnyOf(p[1])]]
<1>1. Descends(S, rank, less) /\ \A T \in S : rank[T] = 0 <=> T = {}
  BY PartsDescend
<1>2. \A T \in S : T # {} => AnyOf(T) \in T /\ w[AnyOf(T)] \in Int
  BY DEF AnyOf
<1>3. 0 \in V /\ G \in [S \X V -> V]
  BY <1>2
<1>4. PICK f \in [S -> V] : Recursive(f, S, rank, less, 0, G)
  <2> HIDE DEF S, V, rank, less, G
  <2> QED
    BY <1>1, <1>3, Recursion
<1>5. ASSUME NEW T \in S PROVE f[T] = IF T = {} THEN 0 ELSE f[T \ {AnyOf(T)}] + w[AnyOf(T)]
  <2>1. f[T] = IF rank[T] = 0 THEN 0 ELSE G[<<T, f[less[T]]>>]
    BY <1>4 DEF Recursive
  <2>2. less[T] = T \ {AnyOf(T)} /\ less[T] \in S /\ f[less[T]] \in V
    OBVIOUS
  <2>3. G[<<T, f[less[T]]>>] = IF T = {} THEN 0 ELSE f[less[T]] + w[AnyOf(T)]
    <3> HIDE DEF less
    <3> QED
      BY <2>2
  <2>4. rank[T] = 0 <=> T = {}
    BY <1>1
  <2> HIDE DEF G, less, rank
  <2> QED
    BY <2>1, <2>2, <2>3, <2>4
<1> QED
  BY <1>5 DEF IsTotal

(* Totals agree on a set that both weigh alike.                            *)
LEMMA TotalsAgree ==
    ASSUME NEW D, NEW f, NEW w, IsTotal(f, w, D),
           NEW E, NEW g, NEW v, IsTotal(g, v, E),
           NEW T, IsFiniteSet(T), T \subseteq D, T \subseteq E, \A x \in T : w[x] = v[x]
    PROVE  f[T] = g[T]
<1> DEFINE S == SUBSET T
           rank == Sizes(T)
           less == [U \in S |-> U \ {AnyOf(U)}]
           P == {U \in S : f[U] = g[U]}
<1>1. Descends(S, rank, less) /\ \A U \in S : rank[U] = 0 <=> U = {}
  BY PartsDescend
<1>2. ASSUME NEW U \in S, U = {} \/ less[U] \in P PROVE U \in P
  <2>1. /\ f[U] = IF U = {} THEN 0 ELSE f[U \ {AnyOf(U)}] + w[AnyOf(U)]
        /\ g[U] = IF U = {} THEN 0 ELSE g[U \ {AnyOf(U)}] + v[AnyOf(U)]
    BY DEF IsTotal
  <2>2. U # {} => AnyOf(U) \in T
    BY DEF AnyOf
  <2> QED
    BY <1>2, <2>1, <2>2
<1>3. S \subseteq P
  <2>1. \A U \in S : rank[U] = 0 \/ less[U] \in P => U \in P
    BY <1>1, <1>2
  <2> HIDE DEF S, P, rank, less
  <2> QED
    BY <1>1, <2>1, RankInduction
<1> QED
  BY <1>3

(* AnyOf element may be taken out first.                                     *)
Takes(f, w, D) == \A T \in SUBSET D : \A x \in T : f[T] = f[T \ {x}] + w[x]

(* By induction on the size of the set: two elements may be swapped.       *)
LEMMA TotalTakes ==
    ASSUME NEW D, IsFiniteSet(D), NEW f, NEW w, IsTotal(f, w, D)
    PROVE  Takes(f, w, D)
<1> DEFINE Q == {k \in Nat : \A T \in SUBSET D : Cardinality(T) = k =>
                                 \A x \in T : f[T] = f[T \ {x}] + w[x]}
<1>1. \A T \in SUBSET D : IsFiniteSet(T) /\ Cardinality(T) \in Nat
  BY FS_Subset, FS_CardinalityType
<1>2. 0 \in Q
  BY <1>1, FS_EmptySet
<1>3. ASSUME NEW k \in Nat, k \in Q PROVE k + 1 \in Q
  <2> SUFFICES ASSUME NEW T \in SUBSET D, Cardinality(T) = k + 1, NEW x \in T
               PROVE  f[T] = f[T \ {x}] + w[x]
    BY <1>3
  <2> DEFINE y == AnyOf(T)
  <2>1. y \in T /\ f[T] = f[T \ {y}] + w[y]
    BY DEF IsTotal, AnyOf
  <2> HIDE DEF y
  <2>2. CASE x = y
    BY <2>1, <2>2
  <2>3. CASE x # y
    <3>1. \A z \in T : T \ {z} \in SUBSET D /\ Cardinality(T \ {z}) = k
      <4> SUFFICES ASSUME NEW z \in T PROVE Cardinality(T \ {z}) = k
        OBVIOUS
      <4>1. Cardinality(T \ {z}) = Cardinality(T) - 1
        BY <1>1, FS_RemoveElement
      <4> QED
        BY <4>1
    <3>2. f[T \ {y}] = f[(T \ {y}) \ {x}] + w[x]
      BY <1>3, <2>1, <2>3, <3>1
    <3>3. f[T \ {x}] = f[(T \ {x}) \ {y}] + w[y]
      BY <1>3, <2>1, <2>3, <3>1
    <3>4. (T \ {y}) \ {x} = (T \ {x}) \ {y} /\ (T \ {x}) \ {y} \in SUBSET D
      OBVIOUS
    <3>5. f[(T \ {x}) \ {y}] \in Int /\ w[x] \in Int /\ w[y] \in Int
      BY <2>1, <3>4 DEF IsTotal
    <3> DEFINE p == f[(T \ {x}) \ {y}] q == f[T \ {x}]
    <3>6. f[T] = (p + w[x]) + w[y] /\ q = p + w[y]
      BY <2>1, <3>2, <3>3, <3>4
    <3> HIDE DEF p, q
    <3>7. f[T] = q + w[x]
      BY <3>5, <3>6 DEF p
    <3> QED
      BY <3>7 DEF q
  <2> QED
    BY <2>2, <2>3
<1>4. Nat \subseteq Q
  <2> HIDE DEF Q
  <2> QED
    BY <1>2, <1>3, NaturalNumbers
<1> QED
  BY <1>1, <1>4 DEF Takes

(* The weights v are those of D, but that n is there and weighs a more.      *)
Raises(v, w, D, n, a) ==
    /\ \A x \in D \ {n} : v[x] = w[x]
    /\ v[n] = (IF n \in D THEN w[n] ELSE 0) + a

(* A key that weighs a more, or is new and weighs a, adds a to the total.  *)
LEMMA TotalAdds ==
    ASSUME NEW D, IsFiniteSet(D), NEW n, NEW a \in Amounts,
           NEW f, NEW w, IsTotal(f, w, D), NEW g, NEW v, IsTotal(g, v, D \cup {n}),
           Raises(v, w, D, n, a)
    PROVE  g[D \cup {n}] = f[D] + a
<1> DEFINE E == D \cup {n} R == D \ {n}
<1>1. /\ IsFiniteSet(E) /\ IsFiniteSet(R)
      /\ R \in SUBSET D /\ R \in SUBSET E /\ E \ {n} = R /\ n \in E
  BY FS_AddElement, FS_RemoveElement
<1>2. g[E] = g[E \ {n}] + v[n]
  <2>1. IsTotal(g, v, E) /\ IsFiniteSet(E) /\ E \in SUBSET E /\ n \in E
    BY <1>1
  <2> HIDE DEF E
  <2>2. Takes(g, v, E)
    BY <2>1, TotalTakes
  <2> QED
    BY <2>1, <2>2 DEF Takes
<1>3. g[R] = f[R]
  <2>1. \A x \in R : w[x] = v[x]
    BY DEF Raises
  <2>2. IsTotal(g, v, E) /\ R \subseteq D /\ R \subseteq E /\ IsFiniteSet(R)
    BY <1>1
  <2> HIDE DEF E, R
  <2>3. f[R] = g[R]
    BY <2>1, <2>2, TotalsAgree
  <2> QED
    BY <2>3
<1>4. f[R] \in Int
  BY DEF IsTotal
<1>5. g[E] = f[R] + v[n]
  BY <1>1, <1>2, <1>3
<1> HIDE DEF E, R
<1>6. CASE n \in D
  <2>1. f[D] = f[R] + w[n]
    BY <1>6, TotalTakes DEF R, Takes
  <2>2. w[n] \in Int
    BY <1>6 DEF IsTotal
  <2>3. v[n] = w[n] + a
    BY <1>6 DEF Raises
  <2>4. g[E] = f[D] + a
    BY <1>4, <1>5, <2>1, <2>2, <2>3 DEF Amounts
  <2> QED
    BY <2>4 DEF E
<1>7. CASE n \notin D
  <2>1. R = D
    BY <1>7 DEF R
  <2>2. v[n] = a
    BY <1>7 DEF Amounts, Raises
  <2>3. g[E] = f[D] + a
    BY <1>5, <2>1, <2>2
  <2> QED
    BY <2>3 DEF E
<1> QED
  BY <1>6, <1>7

(* What descends as a total does is that total.                            *)
LEMMA TotalUnique ==
    ASSUME NEW D, IsFiniteSet(D), NEW f, NEW w, IsTotal(f, w, D), NEW k,
           \A T \in SUBSET D : k[T] = IF T = {} THEN 0 ELSE k[T \ {AnyOf(T)}] + w[AnyOf(T)]
    PROVE  k[D] = f[D]
<1> DEFINE S == SUBSET D
           rank == Sizes(D)
           less == [T \in S |-> T \ {AnyOf(T)}]
           P == {T \in S : k[T] = f[T]}
<1>1. Descends(S, rank, less) /\ \A T \in S : rank[T] = 0 <=> T = {}
  BY PartsDescend
<1>2. ASSUME NEW T \in S, T = {} \/ less[T] \in P PROVE T \in P
  <2>1. f[T] = IF T = {} THEN 0 ELSE f[T \ {AnyOf(T)}] + w[AnyOf(T)]
    BY DEF IsTotal
  <2>2. T # {} => f[T \ {AnyOf(T)}] = k[T \ {AnyOf(T)}]
    BY <1>2
  <2> QED
    BY <2>1, <2>2
<1>3. S \subseteq P
  <2>1. \A T \in S : rank[T] = 0 \/ less[T] \in P => T \in P
    BY <1>1, <1>2
  <2> HIDE DEF S, P, rank, less
  <2> QED
    BY <1>1, <2>1, RankInduction
<1> QED
  BY <1>3

(* What AddUp says the counts of all groups come to, and ...               *)
CountTotal(groups)  == FoldFunction(LAMBDA g, sum : sum + g.count, 0, groups)
(* ... what it says their amounts do.                                      *)
AmountTotal(groups) == FoldFunction(LAMBDA g, sum : sum + g.amount, 0, groups)

(* What each group weighs: its count, or ...                               *)
Counts(groups)  == [x \in DOMAIN groups |-> groups[x].count]
(* ... its amount.                                                         *)
Sums(groups) == [x \in DOMAIN groups |-> groups[x].amount]

(* FoldFunction, which chooses a function of its own, is the total of the  *)
(* counts, and ...                                                         *)
LEMMA CountTotalIs ==
    ASSUME NEW groups \in Groups, IsFiniteSet(DOMAIN groups),
           NEW f, IsTotal(f, Counts(groups), DOMAIN groups)
    PROVE  CountTotal(groups) = f[DOMAIN groups]
<1> DEFINE D == DOMAIN groups
<1>1. f = [T \in SUBSET D |-> IF T = {} THEN 0
                              ELSE f[T \ {CHOOSE x \in T : TRUE}]
                                      + groups[CHOOSE x \in T : TRUE].count]
  <2>1. \A T \in SUBSET D : T # {} => AnyOf(T) \in D
    BY DEF AnyOf
  <2>2. \A T \in SUBSET D : f[T] = IF T = {} THEN 0 ELSE f[T \ {AnyOf(T)}] + groups[AnyOf(T)].count
    BY <2>1 DEF IsTotal, Counts
  <2>3. f = [T \in SUBSET D |-> f[T]]
    BY DEF IsTotal
  <2> QED
    BY <2>2, <2>3 DEF AnyOf
<1>2. PICK k : /\ k = [T \in SUBSET D |-> IF T = {} THEN 0
                          ELSE k[T \ {CHOOSE x \in T : TRUE}]
                                  + groups[CHOOSE x \in T : TRUE].count]
               /\ CountTotal(groups) = k[D]
  BY <1>1 DEF CountTotal, FoldFunction, FoldFunctionOnSet, MapThenFoldSet
<1>3. \A T \in SUBSET D : T # {} => AnyOf(T) \in D
  BY DEF AnyOf
<1>4. \A T \in SUBSET D : k[T] = IF T = {} THEN 0 ELSE k[T \ {AnyOf(T)}] + Counts(groups)[AnyOf(T)]
  BY <1>2, <1>3 DEF AnyOf, Counts
<1>5. k[D] = f[D]
  BY <1>4, TotalUnique
<1> QED
  BY <1>2, <1>5

(* ... that of the amounts.                                                *)
LEMMA AmountTotalIs ==
    ASSUME NEW groups \in Groups, IsFiniteSet(DOMAIN groups),
           NEW f, IsTotal(f, Sums(groups), DOMAIN groups)
    PROVE  AmountTotal(groups) = f[DOMAIN groups]
<1> DEFINE D == DOMAIN groups
<1>1. f = [T \in SUBSET D |-> IF T = {} THEN 0
                              ELSE f[T \ {CHOOSE x \in T : TRUE}]
                                      + groups[CHOOSE x \in T : TRUE].amount]
  <2>1. \A T \in SUBSET D : T # {} => AnyOf(T) \in D
    BY DEF AnyOf
  <2>2. \A T \in SUBSET D : f[T] = IF T = {} THEN 0 ELSE f[T \ {AnyOf(T)}] + groups[AnyOf(T)].amount
    BY <2>1 DEF IsTotal, Sums
  <2>3. f = [T \in SUBSET D |-> f[T]]
    BY DEF IsTotal
  <2> QED
    BY <2>2, <2>3 DEF AnyOf
<1>2. PICK k : /\ k = [T \in SUBSET D |-> IF T = {} THEN 0
                          ELSE k[T \ {CHOOSE x \in T : TRUE}]
                                  + groups[CHOOSE x \in T : TRUE].amount]
               /\ AmountTotal(groups) = k[D]
  BY <1>1 DEF AmountTotal, FoldFunction, FoldFunctionOnSet, MapThenFoldSet
<1>3. \A T \in SUBSET D : T # {} => AnyOf(T) \in D
  BY DEF AnyOf
<1>4. \A T \in SUBSET D : k[T] = IF T = {} THEN 0 ELSE k[T \ {AnyOf(T)}] + Sums(groups)[AnyOf(T)]
  BY <1>2, <1>3 DEF AnyOf, Sums
<1>5. k[D] = f[D]
  BY <1>4, TotalUnique
<1> QED
  BY <1>2, <1>5

(* However the transactions fall into groups, the counts add up to their   *)
(* number, and the amounts to their sum.                                   *)
LEMMA GroupsAddUp ==
    ASSUME NEW f \in {"branch", "channel"}, NEW s \in Seq(Transactions)
    PROVE  /\ Grouped(s, f) \in Groups /\ IsFiniteSet(DOMAIN Grouped(s, f))
           /\ CountTotal(Grouped(s, f)) = Len(s)
           /\ AmountTotal(Grouped(s, f)) = Sum(s)
<1> DEFINE P == {u \in Seq(Transactions) :
                    /\ IsFiniteSet(DOMAIN Grouped(u, f))
                    /\ CountTotal(Grouped(u, f)) = Len(u)
                    /\ AmountTotal(Grouped(u, f)) = Sum(u)}
<1>0. \A g \in Groups, x \in STRING : x \in DOMAIN g => g[x].count \in Nat /\ g[x].amount \in Int
  BY DEF Groups, Group
<1>00. \A g \in Groups : \A x \in DOMAIN g : x \in STRING
  BY DEF Groups
<1>1. <<>> \in P
  <2> DEFINE g == Grouped(<<>>, f)
  <2>1. g = <<>> /\ <<>> \in Seq(Transactions) /\ Len(<<>>) = 0 /\ Sum(<<>>) = 0
    BY GroupedSteps, SumSteps, EmptySeq
  <2>2. DOMAIN g = {} /\ IsFiniteSet(DOMAIN g) /\ g \in Groups
    <3>1. DOMAIN <<>> = {}
      OBVIOUS
    <3> QED
      BY <2>1, <3>1, GroupedSteps, FS_EmptySet
  <2> HIDE DEF g
  <2>3. PICK k : IsTotal(k, Counts(g), DOMAIN g)
    BY <2>2, TotalExists
  <2>4. PICK m : IsTotal(m, Sums(g), DOMAIN g)
    BY <2>2, TotalExists
  <2>5. k[{}] = 0 /\ m[{}] = 0
    BY <2>3, <2>4 DEF IsTotal
  <2>6. CountTotal(g) = 0 /\ AmountTotal(g) = 0
    BY <2>2, <2>3, <2>4, <2>5, CountTotalIs, AmountTotalIs
  <2> QED
    BY <2>1, <2>2, <2>6 DEF g
<1>2. ASSUME NEW u \in Seq(Transactions), NEW t \in Transactions, u \in P
      PROVE  Append(u, t) \in P
  <2> DEFINE g == Grouped(u, f) c == Grouped(Append(u, t), f) D == DOMAIN g n == t[f] a == t.amount
  <2>1. g \in Groups /\ c = Counted(g, n, a) /\ n \in STRING /\ a \in Amounts
    BY GroupedSteps DEF Transactions, Amounts
  <2>2. IsFiniteSet(D) /\ CountTotal(g) = Len(u) /\ AmountTotal(g) = Sum(u)
    BY <1>2
  <2> HIDE DEF g, c, n, a
  <2>3. /\ c \in Groups /\ DOMAIN c = D \cup {n}
        /\ \A x \in D \ {n} : c[x] = g[x]
        /\ c[n] = [count  |-> (IF n \in D THEN g[n].count ELSE 0) + 1,
                   amount |-> (IF n \in D THEN g[n].amount ELSE 0) + a]
    <3>1. Counted(g, n, a) \in Groups /\ Joins(Counted(g, n, a), g, n, a)
      BY <2>1, CountedIs
    <3> QED
      BY <2>1, <3>1 DEF Joins
  <2>4. IsFiniteSet(D \cup {n})
    BY <2>2, FS_AddElement
  <2>5. /\ \A x \in D : Counts(g)[x] \in Int /\ Sums(g)[x] \in Int
        /\ \A x \in D \cup {n} : Counts(c)[x] \in Int /\ Sums(c)[x] \in Int
    <3>1. ASSUME NEW h \in Groups, NEW x \in DOMAIN h
          PROVE  Counts(h)[x] \in Int /\ Sums(h)[x] \in Int
      <4>1. h[x].count \in Nat /\ h[x].amount \in Int
        BY <1>0, <1>00
      <4> QED
        BY <4>1 DEF Counts, Sums
    <3> QED
      BY <2>1, <2>3, <3>1
  <2>6. PICK k : IsTotal(k, Counts(g), D)
    BY <2>2, <2>5, TotalExists
  <2>7. PICK l : IsTotal(l, Counts(c), D \cup {n})
    BY <2>4, <2>5, TotalExists
  <2>8. PICK m : IsTotal(m, Sums(g), D)
    BY <2>2, <2>5, TotalExists
  <2>9. PICK p : IsTotal(p, Sums(c), D \cup {n})
    BY <2>4, <2>5, TotalExists
  <2>10. l[D \cup {n}] = k[D] + 1
    <3>1. Raises(Counts(c), Counts(g), D, n, 1) /\ 1 \in Amounts
      BY <2>3 DEF Counts, Raises, Amounts
    <3> HIDE DEF D
    <3> QED
      BY <2>2, <2>6, <2>7, <3>1, TotalAdds
  <2>11. p[D \cup {n}] = m[D] + a
    <3>1. Raises(Sums(c), Sums(g), D, n, a)
      BY <2>3 DEF Sums, Raises
    <3> HIDE DEF D
    <3> QED
      BY <2>1, <2>2, <2>8, <2>9, <3>1, TotalAdds
  <2>12. CountTotal(c) = CountTotal(g) + 1
    BY <2>1, <2>2, <2>3, <2>4, <2>6, <2>7, <2>10, CountTotalIs
  <2>13. AmountTotal(c) = AmountTotal(g) + a
    BY <2>1, <2>2, <2>3, <2>4, <2>8, <2>9, <2>11, AmountTotalIs
  <2>14. Append(u, t) \in Seq(Transactions) /\ Len(Append(u, t)) = Len(u) + 1
    BY AppendProperties
  <2>15. Sum(Append(u, t)) = Sum(u) + a
    BY SumSteps DEF a
  <2> QED
    BY <2>2, <2>3, <2>4, <2>12, <2>13, <2>14, <2>15 DEF c
<1>3. Seq(Transactions) \subseteq P
  <2> HIDE DEF P
  <2> QED
    BY <1>1, <1>2, ListInduction
<1> QED
  BY <1>3, GroupedSteps

-----------------------------------------------------------------------------
(* A list with one element more.                                           *)
LEMMA ListOf ==
    ASSUME NEW E, NEW s \in Seq(E), NEW e \in E
    PROVE  /\ Append(s, e) \in Seq(E)
           /\ Range(Append(s, e)) = Range(s) \cup {e}
<1>1. /\ Len(s) \in Nat /\ DOMAIN s = 1..Len(s) /\ DOMAIN Append(s, e) = 1..(Len(s) + 1)
      /\ Append(s, e)[Len(s) + 1] = e /\ \A i \in 1..Len(s) : Append(s, e)[i] = s[i]
  OBVIOUS
<1>2. Append(s, e) \in Seq(E)
  OBVIOUS
<1> DEFINE a == Append(s, e) n == Len(s)
<1> HIDE DEF a, n
<1>3. \A i \in 1..(n + 1) : i \in 1..n \/ i = n + 1
  BY <1>1 DEF n
<1>4. ASSUME NEW x \in Range(a) PROVE x \in Range(s) \cup {e}
  BY <1>1, <1>3, <1>4 DEF Range, a, n
<1>5. ASSUME NEW x \in Range(s) \cup {e} PROVE x \in Range(a)
  <2>1. CASE x = e
    <3>1. n + 1 \in DOMAIN a /\ a[n + 1] = e
      BY <1>1 DEF a, n
    <3> QED
      BY <2>1, <3>1 DEF Range
  <2>2. CASE x \in Range(s)
    <3>1. PICK i \in DOMAIN s : s[i] = x
      BY <2>2 DEF Range
    <3>2. i \in DOMAIN a /\ a[i] = x
      BY <1>1, <3>1 DEF a
    <3> QED
      BY <3>2 DEF Range
  <2> QED
    BY <1>5, <2>1, <2>2
<1> QED
  BY <1>2, <1>4, <1>5 DEF a

(* What is kept depends on what is there only.                             *)
LEMMA KeptOnly ==
    ASSUME NEW s \in Seq(Transactions), NEW S, NEW R,
           \A t \in Range(s) : t \in S <=> t \in R
    PROVE  Kept(s, S) = Kept(s, R)
<1> DEFINE P == {u \in Seq(Transactions) :
                    (\A t \in Range(u) : t \in S <=> t \in R) => Kept(u, S) = Kept(u, R)}
<1>1. <<>> \in P
  BY KeptSteps, EmptySeq
<1>2. ASSUME NEW u \in Seq(Transactions), NEW t \in Transactions, u \in P
      PROVE  Append(u, t) \in P
  <2>1. Append(u, t) \in Seq(Transactions) /\ Range(Append(u, t)) = Range(u) \cup {t}
    BY ListOf
  <2>2. /\ Kept(Append(u, t), S) = IF t \in S THEN Append(Kept(u, S), t) ELSE Kept(u, S)
        /\ Kept(Append(u, t), R) = IF t \in R THEN Append(Kept(u, R), t) ELSE Kept(u, R)
    BY KeptSteps
  <2> SUFFICES ASSUME \A r \in Range(Append(u, t)) : r \in S <=> r \in R
               PROVE  Kept(Append(u, t), S) = Kept(Append(u, t), R)
    BY <2>1
  <2>3. (t \in S <=> t \in R) /\ \A r \in Range(u) : r \in S <=> r \in R
    BY <2>1
  <2>4. Kept(u, S) = Kept(u, R)
    BY <1>2, <2>3
  <2> QED
    BY <2>2, <2>3, <2>4
<1>3. Seq(Transactions) \subseteq P
  <2> HIDE DEF P
  <2> QED
    BY <1>1, <1>2, ListInduction
<1> QED
  BY <1>3

(* Filtering twice keeps what both filters do.                             *)
LEMMA KeptKept ==
    ASSUME NEW s \in Seq(Transactions), NEW S, NEW R
    PROVE  Kept(Kept(s, S), R) = Kept(s, S \cap R)
<1> DEFINE P == {u \in Seq(Transactions) : Kept(Kept(u, S), R) = Kept(u, S \cap R)}
<1>1. <<>> \in P
  BY KeptSteps, EmptySeq
<1>2. ASSUME NEW u \in Seq(Transactions), NEW t \in Transactions, u \in P
      PROVE  Append(u, t) \in P
  <2>1. Append(u, t) \in Seq(Transactions) /\ Kept(u, S) \in Seq(Transactions)
    BY ListOf, KeptSteps
  <2>2. Kept(Append(u, t), S) = IF t \in S THEN Append(Kept(u, S), t) ELSE Kept(u, S)
    BY KeptSteps
  <2>3. Kept(Append(u, t), S \cap R) =
           IF t \in S \cap R THEN Append(Kept(u, S \cap R), t) ELSE Kept(u, S \cap R)
    BY KeptSteps
  <2>4. Kept(Append(Kept(u, S), t), R) =
           IF t \in R THEN Append(Kept(Kept(u, S), R), t) ELSE Kept(Kept(u, S), R)
    BY <2>1, KeptSteps
  <2>5. Kept(Kept(u, S), R) = Kept(u, S \cap R)
    BY <1>2
  <2>6. Kept(Kept(Append(u, t), S), R) = Kept(Append(u, t), S \cap R)
    <3>1. CASE t \in S
      <4>1. Kept(Append(u, t), S) = Append(Kept(u, S), t) /\ (t \in S \cap R <=> t \in R)
        BY <2>2, <3>1
      <4> QED
        BY <2>3, <2>4, <2>5, <4>1
    <3>2. CASE t \notin S
      <4>1. Kept(Append(u, t), S) = Kept(u, S) /\ t \notin S \cap R
        BY <2>2, <3>2
      <4> QED
        BY <2>3, <2>5, <4>1
    <3> QED
      BY <3>1, <3>2
  <2> QED
    BY <2>1, <2>6
<1>3. Seq(Transactions) \subseteq P
  <2> HIDE DEF P
  <2> QED
    BY <1>1, <1>2, ListInduction
<1> QED
  BY <1>3

(* The transactions whose field f is v.                                    *)
With(f, v) == {t \in Transactions : t[f] = v}

(* The transactions of a list with a value are the kept ones of all that   *)
(* have it.                                                                *)
LEMMA HavingIs ==
    ASSUME NEW s \in Seq(Transactions), NEW f, NEW v
    PROVE  Having(s, f, v) = Kept(s, With(f, v))
<1>1. Range(s) \subseteq Transactions
  BY DEF Range
<1>2. \A t \in Range(s) : t \in {r \in Range(s) : r[f] = v} <=> t \in With(f, v)
  BY <1>1 DEF With
<1> QED
  BY <1>2, KeptOnly DEF Having

(* Every transaction has one of the three statuses and one of the two types. *)
LEMMA StatusesAddUp ==
    ASSUME NEW s \in Seq(Transactions)
    PROVE  Len(Kept(s, With("status", "SUCCESS"))) + Len(Kept(s, With("status", "FAILED")))
              + Len(Kept(s, With("status", "PENDING"))) = Len(s)
<1> DEFINE A == With("status", "SUCCESS")
           B == With("status", "FAILED")
           C == With("status", "PENDING")
           P == {u \in Seq(Transactions) :
                    Len(Kept(u, A)) + Len(Kept(u, B)) + Len(Kept(u, C)) = Len(u)}
<1>1. \A t \in Transactions : \/ t \in A /\ t \notin B /\ t \notin C
                              \/ t \notin A /\ t \in B /\ t \notin C
                              \/ t \notin A /\ t \notin B /\ t \in C
  BY DEF With, Transactions
<1> HIDE DEF A, B, C
<1>2. <<>> \in P
  BY KeptSteps, EmptySeq
<1>3. ASSUME NEW u \in Seq(Transactions), NEW t \in Transactions, u \in P
      PROVE  Append(u, t) \in P
  <2> DEFINE a == Kept(u, A) b == Kept(u, B) c == Kept(u, C)
  <2>1. /\ a \in Seq(Transactions) /\ b \in Seq(Transactions) /\ c \in Seq(Transactions)
        /\ Append(u, t) \in Seq(Transactions)
    BY ListOf, KeptSteps
  <2>2. /\ Kept(Append(u, t), A) = IF t \in A THEN Append(a, t) ELSE a
        /\ Kept(Append(u, t), B) = IF t \in B THEN Append(b, t) ELSE b
        /\ Kept(Append(u, t), C) = IF t \in C THEN Append(c, t) ELSE c
    BY KeptSteps
  <2>3. Len(a) + Len(b) + Len(c) = Len(u)
    BY <1>3
  <2> HIDE DEF a, b, c
  <2>4. /\ Len(a) \in Nat /\ Len(b) \in Nat /\ Len(c) \in Nat /\ Len(u) \in Nat
        /\ Len(Append(a, t)) = Len(a) + 1 /\ Len(Append(b, t)) = Len(b) + 1
        /\ Len(Append(c, t)) = Len(c) + 1 /\ Len(Append(u, t)) = Len(u) + 1
    BY <2>1, AppendProperties, LenProperties
  <2>5. /\ Len(Kept(Append(u, t), A)) = IF t \in A THEN Len(a) + 1 ELSE Len(a)
        /\ Len(Kept(Append(u, t), B)) = IF t \in B THEN Len(b) + 1 ELSE Len(b)
        /\ Len(Kept(Append(u, t), C)) = IF t \in C THEN Len(c) + 1 ELSE Len(c)
    BY <2>2, <2>4
  <2>6. Len(Kept(Append(u, t), A)) + Len(Kept(Append(u, t), B)) + Len(Kept(Append(u, t), C))
           = Len(Append(u, t))
    <3> DEFINE p == Len(a) q == Len(b) r == Len(c) n == Len(u)
               p2 == Len(Kept(Append(u, t), A)) q2 == Len(Kept(Append(u, t), B))
               r2 == Len(Kept(Append(u, t), C)) n2 == Len(Append(u, t))
    <3>1. /\ p \in Nat /\ q \in Nat /\ r \in Nat /\ n \in Nat
          /\ p2 = (IF t \in A THEN p + 1 ELSE p) /\ q2 = (IF t \in B THEN q + 1 ELSE q)
          /\ r2 = (IF t \in C THEN r + 1 ELSE r) /\ n2 = n + 1 /\ p + q + r = n
      BY <2>3, <2>4, <2>5
    <3>2. \/ t \in A /\ t \notin B /\ t \notin C
          \/ t \notin A /\ t \in B /\ t \notin C
          \/ t \notin A /\ t \notin B /\ t \in C
      BY <1>1
    <3> HIDE DEF p, q, r, n, p2, q2, r2, n2
    <3>3. p2 + q2 + r2 = n2
      BY <3>1, <3>2
    <3> QED
      BY <3>3 DEF p2, q2, r2, n2
  <2> QED
    BY <2>1, <2>6
<1>4. Seq(Transactions) \subseteq P
  <2> HIDE DEF P
  <2> QED
    BY <1>2, <1>3, ListInduction
<1> QED
  BY <1>4 DEF A, B, C

(* What was credited and what was debited is all there was.                *)
LEMMA TypesAddUp ==
    ASSUME NEW s \in Seq(Transactions)
    PROVE  Sum(Kept(s, With("type", "CREDIT"))) + Sum(Kept(s, With("type", "DEBIT"))) = Sum(s)
<1> DEFINE A == With("type", "CREDIT") B == With("type", "DEBIT")
           P == {u \in Seq(Transactions) : Sum(Kept(u, A)) + Sum(Kept(u, B)) = Sum(u)}
<1>1. \A t \in Transactions : t \in A <=> t \notin B
  BY DEF With, Transactions
<1> HIDE DEF A, B
<1>2. <<>> \in P
  BY KeptSteps, SumSteps, EmptySeq
<1>3. ASSUME NEW u \in Seq(Transactions), NEW t \in Transactions, u \in P
      PROVE  Append(u, t) \in P
  <2> DEFINE a == Kept(u, A) b == Kept(u, B)
  <2>1. a \in Seq(Transactions) /\ b \in Seq(Transactions) /\ Append(u, t) \in Seq(Transactions)
    BY ListOf, KeptSteps
  <2>2. /\ Kept(Append(u, t), A) = IF t \in A THEN Append(a, t) ELSE a
        /\ Kept(Append(u, t), B) = IF t \in B THEN Append(b, t) ELSE b
    BY KeptSteps
  <2>3. Sum(a) + Sum(b) = Sum(u)
    BY <1>3
  <2> HIDE DEF a, b
  <2>4. /\ Sum(a) \in Int /\ Sum(b) \in Int /\ Sum(u) \in Int
        /\ Sum(Append(a, t)) = Sum(a) + t.amount /\ Sum(Append(b, t)) = Sum(b) + t.amount
        /\ Sum(Append(u, t)) = Sum(u) + t.amount
    BY <2>1, SumSteps
  <2>5. t.amount \in Int
    BY DEF Transactions
  <2>6. /\ Sum(Kept(Append(u, t), A)) = IF t \in A THEN Sum(a) + t.amount ELSE Sum(a)
        /\ Sum(Kept(Append(u, t), B)) = IF t \in B THEN Sum(b) + t.amount ELSE Sum(b)
    BY <2>2, <2>4
  <2> DEFINE x == t.amount
  <2> HIDE DEF x
  <2>7. Sum(Kept(Append(u, t), A)) + Sum(Kept(Append(u, t), B)) = Sum(Append(u, t))
    <3>1. /\ Sum(Kept(Append(u, t), A)) = IF t \in A THEN Sum(a) + x ELSE Sum(a)
          /\ Sum(Kept(Append(u, t), B)) = IF t \in B THEN Sum(b) + x ELSE Sum(b)
          /\ Sum(Append(u, t)) = Sum(u) + x /\ x \in Int
      BY <2>4, <2>5, <2>6 DEF x
    <3> QED
      BY <1>1, <2>3, <2>4, <3>1
  <2> QED
    BY <2>1, <2>7
<1>4. Seq(Transactions) \subseteq P
  <2> HIDE DEF P
  <2> QED
    BY <1>2, <1>3, ListInduction
<1> QED
  BY <1>4 DEF A, B

-----------------------------------------------------------------------------
(* A sequence of anything.                                                 *)
IsList(list) == Len(list) \in Nat /\ DOMAIN list = 1..Len(list)

(* Where a row begins.                                                     *)
Places == [page : Nat, y : Int]

FirstPlace == Broken([page |-> 1, y |-> FirstRow])

(* A row adds pages or none, ...                                           *)
LEMMA AddedIs ==
    ASSUME NEW row, NEW columns \in Nat, NEW y \in Int
    PROVE  /\ Added(row, columns, y) \in Nat
           /\ FitsColumns(row, columns) /\ y <= 550 => Added(row, columns, y) = 0
<1> DEFINE past == {c \in 1..columns : y + Lines(row, columns, c) * LineHeight > PageEnd}
<1>1. IsFiniteSet(past)
  <2>1. IsFiniteSet(1..columns) /\ past \in SUBSET (1..columns)
    BY FS_Interval
  <2> HIDE DEF past
  <2> QED
    BY <2>1, FS_Subset
<1>2. Added(row, columns, y) = Cardinality(past)
  BY DEF Added
<1>3. ASSUME FitsColumns(row, columns), y <= 550 PROVE past = {}
  <2> SUFFICES ASSUME NEW c \in past PROVE FALSE
    OBVIOUS
  <2>1. y + Lines(row, columns, c) * LineHeight > PageEnd /\ Lines(row, columns, c) = 1
    BY <1>3 DEF FitsColumns
  <2>2. LineHeight \in Nat /\ PageEnd \in Nat /\ 550 + LineHeight <= PageEnd
    BY ReportsAssumption
  <2>3. Lines(row, columns, c) * LineHeight = LineHeight
    BY <2>1, <2>2
  <2> QED
    BY <1>3, <2>1, <2>2, <2>3
<1> HIDE DEF past
<1> QED
  BY <1>1, <1>2, <1>3, FS_CardinalityType, FS_EmptySet

(* ... and the next one begins no lower than 550, below it or on a later   *)
(* page: the next, if it fitted its columns.                               *)
LEMMA PlacesBreak ==
    /\ FirstPlace \in Places /\ FirstPlace.y <= 550
    /\ \A place \in Places, columns \in Nat : \A row :
          LET next == After(row, columns, place) IN
          /\ next \in Places /\ next.y <= 550
          /\ \/ next.page = place.page /\ next.y = place.y + 18
             \/ next.page > place.page
          /\ FitsColumns(row, columns) /\ place.y <= 550 =>
                \/ next.page = place.page /\ next.y = place.y + 18
                \/ next.page = place.page + 1
<1>1. FirstPlace \in Places /\ FirstPlace.y <= 550
  BY ReportsAssumption DEF Places, FirstPlace, Broken
<1>2. ASSUME NEW place \in Places, NEW columns \in Nat, NEW row
      PROVE  LET next == After(row, columns, place) IN
             /\ next \in Places /\ next.y <= 550
             /\ \/ next.page = place.page /\ next.y = place.y + 18
                \/ next.page > place.page
             /\ FitsColumns(row, columns) /\ place.y <= 550 =>
                   \/ next.page = place.page /\ next.y = place.y + 18
                   \/ next.page = place.page + 1
  <2> DEFINE a == Added(row, columns, place.y)
             p == place.page
             y == place.y
  <2>1. p \in Nat /\ y \in Int
    BY DEF Places
  <2>2. a \in Nat /\ (FitsColumns(row, columns) /\ y <= 550 => a = 0)
    BY <2>1, AddedIs
  <2>3. After(row, columns, place) =
           IF y + 18 > 550 THEN [page |-> p + a + 1, y |-> 30]
           ELSE [page |-> p + a, y |-> y + 18]
    BY DEF After, Broken
  <2> HIDE DEF a, p, y
  <2>4. CASE y + 18 > 550
    BY <2>1, <2>2, <2>3, <2>4 DEF Places, p, y
  <2>5. CASE ~(y + 18 > 550)
    BY <2>1, <2>2, <2>3, <2>5 DEF Places, p, y
  <2> QED
    BY <2>4, <2>5
<1> QED
  BY <1>1, <1>2

(* p places the rows of a list, each after the one before.                 *)
PlacesRows(p, list, columns) ==
    /\ p \in [1..Len(list) -> Places]
    /\ \A i \in 1..Len(list) :
          p[i] = IF i = 1 THEN FirstPlace ELSE After(list[i - 1], columns, p[i - 1])

(* The recursion of Placed has a function, for every number of rows.       *)
LEMMA PlacesExist ==
    ASSUME NEW list, IsList(list), NEW columns \in Nat
    PROVE  \E p : PlacesRows(p, list, columns)
<1> DEFINE S == 1..Len(list)
           V == Places
           rank == [i \in S |-> i - 1]
           less == [i \in S |-> IF i = 1 THEN 1 ELSE i - 1]
           G == [p \in S \X V |-> After(list[p[1] - 1], columns, p[2])]
<1>1. Descends(S, rank, less)
  BY DEF Descends, IsList
<1>2. FirstPlace \in V /\ G \in [S \X V -> V]
  BY PlacesBreak
<1>3. PICK f \in [S -> V] : Recursive(f, S, rank, less, FirstPlace, G)
  <2> HIDE DEF V, S, rank, less, G
  <2> QED
    BY <1>1, <1>2, Recursion
<1>4. ASSUME NEW i \in S
      PROVE  f[i] = IF i = 1 THEN FirstPlace ELSE After(list[i - 1], columns, f[i - 1])
  <2>1. f[i] = IF rank[i] = 0 THEN FirstPlace ELSE G[<<i, f[less[i]]>>]
    BY <1>3 DEF Recursive
  <2>2. i # 1 => less[i] = i - 1 /\ less[i] \in S /\ f[less[i]] \in V
    BY DEF IsList
  <2> QED
    BY <2>1, <2>2 DEF IsList
<1> QED
  BY <1>4 DEF PlacesRows

(* Placed places all its rows.                                             *)
LEMMA PlacedIs ==
    ASSUME NEW list, IsList(list), NEW columns \in Nat
    PROVE  PlacesRows(Placed(list, columns), list, columns)
<1> DEFINE n == Len(list)
           Def(f) == [i \in DOMAIN list |->
                         IF i = 1 THEN Broken([page |-> 1, y |-> FirstRow])
                         ELSE After(list[i - 1], columns, f[i - 1])]
<1>1. n \in Nat /\ DOMAIN list = 1..n
  BY DEF IsList
<1>2. PICK p : PlacesRows(p, list, columns)
  BY PlacesExist
<1>3. p = Def(p)
  BY <1>1, <1>2 DEF PlacesRows, FirstPlace
<1>4. PICK g : g = Def(g) /\ Placed(list, columns) = [i \in DOMAIN list |-> g[i]]
  <2> DEFINE H == CHOOSE h : h = Def(h)
  <2>1. H = Def(H)
    BY <1>3
  <2>2. Placed(list, columns) = [i \in DOMAIN list |-> H[i]]
    BY Zenon DEF Placed
  <2> HIDE DEF H, Def
  <2> QED
    BY <2>1, <2>2
<1> HIDE DEF n
<1>5. ASSUME NEW i \in 1..n
      PROVE  g[i] = IF i = 1 THEN FirstPlace ELSE After(list[i - 1], columns, g[i - 1])
  BY <1>1, <1>4 DEF FirstPlace
<1> HIDE DEF Def
<1> DEFINE S == 1..n
           rank == [i \in S |-> i - 1]
           less == [i \in S |-> IF i = 1 THEN 1 ELSE i - 1]
           P == {i \in S : g[i] \in Places}
<1>6. Descends(S, rank, less)
  BY <1>1 DEF Descends
<1>7. ASSUME NEW i \in S, rank[i] = 0 \/ less[i] \in P PROVE i \in P
  <2>1. i = 1 \/ g[i - 1] \in Places
    BY <1>1, <1>7
  <2> QED
    BY <1>5, <2>1, PlacesBreak
<1>8. S \subseteq P
  <2> HIDE DEF S, P, rank, less
  <2> QED
    BY <1>6, <1>7, RankInduction
<1>9. /\ Placed(list, columns) \in [1..n -> Places]
      /\ \A i \in 1..n : Placed(list, columns)[i] = g[i]
  BY <1>1, <1>4, <1>8
<1>10. \A i \in 1..n : i # 1 => i - 1 \in 1..n
  BY <1>1
<1> QED
  BY <1>5, <1>9, <1>10 DEF PlacesRows, n

(* So each row of a list has one place, inside its page, and one that fits *)
(* its columns is on no other row.                                         *)
LEMMA RowsHavePlaces ==
    ASSUME NEW list, IsList(list), NEW columns \in Nat,
           NEW place, place = Placed(list, columns)
    PROVE  /\ Len(place) = Len(list)
           /\ \A i \in DOMAIN place : place[i].y + LineHeight <= PageEnd
           /\ \A i \in 2..Len(place) :
                 /\ \/ place[i].page = place[i-1].page /\ place[i].y > place[i-1].y
                    \/ place[i].page > place[i-1].page
                 /\ FitsColumns(list[i-1], columns) =>
                       \/ /\ place[i].page = place[i-1].page
                          /\ place[i].y >= place[i-1].y + LineHeight
                       \/ place[i].page = place[i-1].page + 1
<1> DEFINE n == Len(list)
<1>1. n \in Nat /\ PlacesRows(place, list, columns)
  BY PlacedIs DEF IsList
<1>2. Len(place) = n /\ DOMAIN place = 1..n
  <2>1. place \in Seq(Places) /\ DOMAIN place = 1..n
    BY <1>1 DEF PlacesRows
  <2>2. Len(place) \in Nat /\ DOMAIN place = 1..Len(place)
    BY <2>1, LenProperties
  <2> QED
    BY <1>1, <2>1, <2>2
<1>3. ASSUME NEW i \in 1..n PROVE place[i] \in Places /\ place[i].y <= 550
  <2>1. /\ place[i] \in Places
        /\ place[i] = IF i = 1 THEN FirstPlace
                      ELSE After(list[i - 1], columns, place[i - 1])
    BY <1>1 DEF PlacesRows
  <2>2. i # 1 => place[i - 1] \in Places
    BY <1>1 DEF PlacesRows
  <2> QED
    BY <2>1, <2>2, PlacesBreak
<1>4. ASSUME NEW i \in 1..n PROVE place[i].y + LineHeight <= PageEnd
  BY <1>3, ReportsAssumption DEF Places
<1>5. ASSUME NEW i \in 2..n
      PROVE  /\ \/ place[i].page = place[i-1].page /\ place[i].y > place[i-1].y
                \/ place[i].page > place[i-1].page
             /\ FitsColumns(list[i-1], columns) =>
                   \/ /\ place[i].page = place[i-1].page
                      /\ place[i].y >= place[i-1].y + LineHeight
                   \/ place[i].page = place[i-1].page + 1
  <2>1. i \in 1..n /\ i # 1 /\ i - 1 \in 1..n
    BY <1>1
  <2>2. place[i] = After(list[i - 1], columns, place[i - 1]) /\ place[i - 1] \in Places
    BY <1>1, <2>1 DEF PlacesRows
  <2>3. place[i-1].y <= 550 /\ place[i-1].y \in Int
    BY <1>3, <2>1 DEF Places
  <2>4. /\ \/ place[i].page = place[i-1].page /\ place[i].y = place[i-1].y + 18
           \/ place[i].page > place[i-1].page
        /\ FitsColumns(list[i-1], columns) =>
              \/ place[i].page = place[i-1].page /\ place[i].y = place[i-1].y + 18
              \/ place[i].page = place[i-1].page + 1
    BY <2>2, <2>3, PlacesBreak
  <2> QED
    BY <2>3, <2>4, ReportsAssumption
<1> HIDE DEF n
<1> QED
  BY <1>2, <1>4, <1>5 DEF n

-----------------------------------------------------------------------------
(* A sequence is a list.                                                   *)
LEMMA ListsAre ==
    ASSUME NEW E, NEW s \in Seq(E)
    PROVE  IsList(s)
BY LenProperties DEF IsList

(* SetToSeq makes one of a finite set.                                     *)
LEMMA SetToSeqIs ==
    ASSUME NEW S, IsFiniteSet(S)
    PROVE  IsList(SetToSeq(S))
<1> DEFINE n == Cardinality(S)
<1>1. n \in Nat /\ ExistsBijection(1..n, S)
  BY FS_CardinalityType
<1> HIDE DEF n
<1>2. PICK f \in Bijection(1..n, S) : TRUE
  BY <1>1 DEF ExistsBijection
<1>3. f \in [1..n -> S] /\ IsInjective(f)
  BY <1>2 DEF Bijection, Injection
<1>4. SetToSeq(S) \in [1..n -> S]
  BY <1>3 DEF SetToSeq, n
<1>5. SetToSeq(S) \in Seq(S)
  BY <1>1, <1>4
<1> QED
  BY <1>5, ListsAre

(* So the rows of finitely many groups are a list.                         *)
LEMMA RowsAreList ==
    ASSUME NEW groups, IsFiniteSet(DOMAIN groups)
    PROVE  IsList(Rows(groups))
<1> DEFINE D == DOMAIN groups
           r == [x \in D |-> [name |-> x, count |-> groups[x].count, amount |-> groups[x].amount]]
           R == {[name |-> x, count |-> groups[x].count, amount |-> groups[x].amount] : x \in D}
<1>1. r \in Surjection(D, R)
  BY DEF Surjection
<1>2. IsFiniteSet(R)
  <2> HIDE DEF R, r, D
  <2> QED
    BY <1>1, FS_Surjection DEF D
<1> QED
  BY <1>2, SetToSeqIs DEF Rows

-----------------------------------------------------------------------------
(* What passes the filters is a list of transactions.                      *)
LEMMA FilteredIs ==
    ASSUME table \in Tables, NEW q
    PROVE  Filtered(q) \in Seq(Transactions)
BY ReportsAssumption, KeptSteps DEF Filtered

(* The summary counts and sums up what passes the filters, and its failed  *)
(* transactions are the ones of their own report.                          *)
LEMMA SummaryAgrees ==
    ASSUME table \in Tables, NEW q, NEW d, d = DailySummary(q)
    PROVE  /\ d.total = Len(Filtered(q))
           /\ d.successful + d.failed + d.pending = d.total
           /\ d.credit + d.debit = Sum(Filtered(q))
           /\ d.failed = Len(FailedTransactions(q))
<1> DEFINE s == Filtered(q)
<1>1. s \in Seq(Transactions)
  BY FilteredIs
<1>2. d = [total      |-> Len(s),
           successful |-> Len(Having(s, "status", "SUCCESS")),
           failed     |-> Len(Having(s, "status", "FAILED")),
           pending    |-> Len(Having(s, "status", "PENDING")),
           credit     |-> Sum(Having(s, "type", "CREDIT")),
           debit      |-> Sum(Having(s, "type", "DEBIT"))]
  BY DEF DailySummary
<1>3. FailedTransactions(q) = Having(s, "status", "FAILED")
  BY DEF FailedTransactions
<1> HIDE DEF s
<1>4. \A f, v : Having(s, f, v) = Kept(s, With(f, v))
  BY <1>1, HavingIs
<1>5. Len(Having(s, "status", "SUCCESS")) + Len(Having(s, "status", "FAILED"))
         + Len(Having(s, "status", "PENDING")) = Len(s)
  BY <1>1, <1>4, StatusesAddUp
<1>6. Sum(Having(s, "type", "CREDIT")) + Sum(Having(s, "type", "DEBIT")) = Sum(s)
  BY <1>1, <1>4, TypesAddUp
<1> QED
  BY <1>2, <1>3, <1>5, <1>6 DEF s

(* The groups of what passes the filters add up to the summary.            *)
LEMMA GroupsAgree ==
    ASSUME table \in Tables, NEW q, NEW f \in {"branch", "channel"}
    PROVE  AddUp(Grouped(Filtered(q), f), DailySummary(q))
<1> DEFINE s == Filtered(q) g == Grouped(s, f) d == DailySummary(q)
<1>1. s \in Seq(Transactions)
  BY FilteredIs
<1>2. d.total = Len(s) /\ d.credit + d.debit = Sum(s)
  BY SummaryAgrees
<1>3. CountTotal(g) = Len(s) /\ AmountTotal(g) = Sum(s)
  <2> HIDE DEF s
  <2> QED
    BY <1>1, GroupsAddUp
<1> HIDE DEF s, g, d
<1>4. CountTotal(g) = d.total /\ AmountTotal(g) = d.credit + d.debit
  BY <1>2, <1>3
<1>5. AddUp(g, d)
  BY <1>4, Zenon DEF AddUp, CountTotal, AmountTotal
<1> QED
  BY <1>5 DEF s, g, d

(* Filtering by the default minimum after the other filters is filtering   *)
(* by all of them at once.                                                 *)
LEMMA HighValueAgrees ==
    ASSUME table \in Tables, query \in Queries
    PROVE  HighValueTransactions(query) =
              Filtered([query EXCEPT !.min = IF @ = NotGiven THEN Default ELSE @])
<1> DEFINE min == IF query.min = NotGiven THEN Default ELSE query.min
           r == [query EXCEPT !.min = min]
           A == {t \in Range(table) : Passes(query, t)}
           B == {t \in Range(table) : t.amount >= min}
           C == {t \in Range(table) : Passes(r, t)}
<1>1. table \in Seq(Transactions) /\ Range(table) \subseteq Transactions
  <2>1. table \in Seq(Transactions)
    BY ReportsAssumption
  <2>2. table \in [1..Len(table) -> Transactions]
    BY <2>1, LenProperties
  <2> QED
    BY <2>1, <2>2 DEF Range
<1>2. min \in Int /\ min # NotGiven /\ query.min \in Int \cup {NotGiven}
  BY ReportsAssumption DEF Default
<1>3. /\ r.min = min /\ r.from = query.from /\ r.to = query.to /\ r.max = query.max
      /\ \A f \in Equals : r[f] = query[f]
  <2>1. query = [f \in Filters |-> query[f]]
    BY ReportsAssumption
  <2>2. DOMAIN query = Filters
    BY <2>1
  <2> QED
    BY <2>2 DEF Filters, Equals
<1>4. ASSUME NEW t \in Transactions PROVE Passes(r, t) <=> Passes(query, t) /\ t.amount >= min
  <2>1. t.amount \in Int
    BY DEF Transactions
  <2>2. query.min # NotGiven => min = query.min
    OBVIOUS
  <2> HIDE DEF min, r
  <2> QED
    BY <1>2, <1>3, <2>1, <2>2 DEF Passes
<1> HIDE DEF min, r
<1>5. A \cap B = C
  BY <1>1, <1>4
<1>6. HighValueTransactions(query) = Kept(Kept(table, A), B)
  BY DEF HighValueTransactions, Filtered, min
<1>7. Filtered(r) = Kept(table, C)
  BY DEF Filtered
<1> HIDE DEF A, B, C
<1>8. Kept(Kept(table, A), B) = Kept(table, C)
  BY <1>1, <1>5, KeptKept
<1> QED
  BY <1>6, <1>7, <1>8 DEF r, min

(* Each report is a list of rows.                                          *)
LEMMA DataAreList ==
    ASSUME table \in Tables, NEW type \in Types, NEW q
    PROVE  IsList(Data(type, q))
<1> DEFINE s == Filtered(q)
<1>1. s \in Seq(Transactions)
  BY FilteredIs
<1>2. CASE type = "daily-summary"
  <2>1. <<DailySummary(q)>> \in Seq({DailySummary(q)})
    OBVIOUS
  <2> QED
    BY <1>2, <2>1, ListsAre DEF Data
<1>3. CASE type = "failed"
  <2>1. FailedTransactions(q) \in Seq(Transactions)
    <3>1. FailedTransactions(q) = Kept(s, With("status", "FAILED"))
      BY <1>1, HavingIs DEF FailedTransactions
    <3> QED
      BY <1>1, <3>1, KeptSteps
  <2> QED
    BY <1>3, <2>1, ListsAre DEF Data
<1>4. CASE type = "high-value"
  <2>1. HighValueTransactions(q) \in Seq(Transactions)
    BY <1>1, KeptSteps DEF HighValueTransactions
  <2> QED
    BY <1>4, <2>1, ListsAre DEF Data
<1>5. CASE type = "branch-wise"
  <2>1. IsFiniteSet(DOMAIN BranchWise(q))
    BY <1>1, GroupsAddUp DEF BranchWise
  <2> QED
    BY <1>5, <2>1, RowsAreList DEF Data
<1>6. CASE type = "channel-wise"
  <2>1. IsFiniteSet(DOMAIN ChannelWise(q))
    BY <1>1, GroupsAddUp DEF ChannelWise
  <2> QED
    BY <1>6, <2>1, RowsAreList DEF Data
<1> QED
  BY <1>2, <1>3, <1>4, <1>5, <1>6 DEF Types

-----------------------------------------------------------------------------
(* What rows are answered as.                                              *)
Answers(list, columns) ==
    {[format |-> "json", rows |-> list],
     Csv(list, columns), Excel(list, columns), Pdf(list, columns)}

(* A request keeps its table and filters, and is answered with a list.     *)
Answered ==
    /\ table \in Tables /\ query \in Queries
    /\ answer # NotGiven =>
          \E list, columns : IsList(list) /\ columns \in Nat /\ answer \in Answers(list, columns)

(* Answered is inductive: a request is answered once, from its table and   *)
(* its filters.                                                            *)
LEMMA AnsweredHolds == ReportsSpec => []Answered
<1>1. ReportsInit => Answered
  BY DEF ReportsInit, Answered
<1>2. Answered /\ [ReportsNext]_reporting => Answered'
  <2> SUFFICES ASSUME Answered, [ReportsNext]_reporting PROVE Answered'
    OBVIOUS
  <2>1. ASSUME NEW type \in Types, Report(type) \/ Export(type) PROVE Answered'
    <3> DEFINE d == Data(type, query) c == Columns(type)
    <3>1. IsList(d) /\ c \in Nat
      BY DataAreList DEF Answered, Columns
    <3>2. answer' \in Answers(d, c) /\ table' = table /\ query' = query
      BY <2>1 DEF Report, Export, Answers
    <3> HIDE DEF d, c
    <3> QED
      BY <3>1, <3>2 DEF Answered
  <2>2. CASE UNCHANGED reporting
    BY <2>2 DEF reporting, Answered
  <2> QED
    BY <2>1, <2>2 DEF ReportsNext
<1> QED
  BY <1>1, <1>2, PTL DEF ReportsSpec

(* For every table of transactions and all filters, the five reports of    *)
(* ReportingService agree: branches, channels and statuses add up to the   *)
(* daily summary, the failed list has as many rows as it says, and the     *)
(* high-value list is a filtered one.                                      *)
THEOREM ReportsTellOneStory == ReportsSpec => []ReportsAgree
<1>1. Answered => ReportsAgree
  <2> SUFFICES ASSUME Answered PROVE ReportsAgree
    OBVIOUS
  <2>1. table \in Tables /\ query \in Queries
    BY DEF Answered
  <2> DEFINE d == DailySummary(query)
  <2>2. AddUp(BranchWise(query), d) /\ AddUp(ChannelWise(query), d)
    BY <2>1, GroupsAgree DEF BranchWise, ChannelWise
  <2>3. /\ d.successful + d.failed + d.pending = d.total
        /\ Len(FailedTransactions(query)) = d.failed
    BY <2>1, SummaryAgrees
  <2>4. HighValueTransactions(query) =
           Filtered([query EXCEPT !.min = IF @ = NotGiven THEN Default ELSE @])
    BY <2>1, HighValueAgrees
  <2> QED
    BY <2>2, <2>3, <2>4 DEF ReportsAgree
<1> QED
  BY <1>1, AnsweredHolds, PTL

(* exportPdf gives each row of any report a place of its own, in order and *)
(* inside its page, whatever cells are wrapped; a row that fits its        *)
(* columns is printed over no other, and no page is empty after it.        *)
THEOREM RowsArePrinted == ReportsSpec => []PagesHoldRows
<1>1. Answered => PagesHoldRows
  <2> SUFFICES ASSUME Answered, answer # NotGiven, answer.format = "pdf"
               PROVE  PagesHoldRows
    BY DEF PagesHoldRows
  <2>1. PICK list, columns : IsList(list) /\ columns \in Nat /\ answer \in Answers(list, columns)
    BY DEF Answered
  <2>2. answer = Pdf(list, columns)
    BY <2>1 DEF Answers, Csv, Excel
  <2>3. /\ answer.places = Placed(list, columns) /\ answer.rows = list
        /\ list # <<>> => answer.header = columns
    BY <2>2 DEF Pdf
  <2> DEFINE place == Placed(list, columns)
  <2>4. /\ Len(place) = Len(list)
        /\ \A i \in DOMAIN place : place[i].y + LineHeight <= PageEnd
        /\ \A i \in 2..Len(place) :
              /\ \/ place[i].page = place[i-1].page /\ place[i].y > place[i-1].y
                 \/ place[i].page > place[i-1].page
              /\ FitsColumns(list[i-1], columns) =>
                    \/ /\ place[i].page = place[i-1].page
                       /\ place[i].y >= place[i-1].y + LineHeight
                    \/ place[i].page = place[i-1].page + 1
    BY <2>1, RowsHavePlaces
  <2> HIDE DEF place
  <2>5. CASE list = <<>>
    BY <2>3, <2>4, <2>5 DEF PagesHoldRows, place
  <2>6. CASE list # <<>>
    BY <2>3, <2>4, <2>6 DEF PagesHoldRows, place
  <2> QED
    BY <2>5, <2>6
<1> QED
  BY <1>1, AnsweredHolds, PTL

(* getColumnLetter names every column of a sheet by its number in letters, *)
(* and the filter that exportExcel sets ends at the last column.           *)
THEOREM LettersCount == ReportsSpec => []LettersNumberColumns
<1>1. Answered => LettersNumberColumns
  <2> SUFFICES ASSUME Answered PROVE LettersNumberColumns
    OBVIOUS
  <2>1. ASSUME NEW n \in 1..MaxColumns PROVE Letters(n) \in Seq(1..26) /\ Number(Letters(n)) = n
    <3>1. n \in Nat
      BY ReportsAssumption
    <3> QED
      BY <3>1, LettersSteps, NumberOfLetters DEF Digits
  <2>2. ASSUME answer # NotGiven, answer.format = "excel"
        PROVE  Number(answer.filter) = answer.header
    <3>1. PICK list, columns : columns \in Nat /\ answer \in Answers(list, columns)
      BY <2>2 DEF Answered
    <3>2. answer = Excel(list, columns)
      BY <2>2, <3>1 DEF Answers, Csv, Pdf
    <3>3. CASE list = <<>>
      BY <3>2, <3>3, NumberSteps DEF Excel
    <3>4. CASE list # <<>>
      BY <3>1, <3>2, <3>4, NumberOfLetters DEF Excel
    <3> QED
      BY <3>3, <3>4
  <2> QED
    BY <2>1, <2>2 DEF LettersNumberColumns
<1> QED
  BY <1>1, AnsweredHolds, PTL

=============================================================================
