------------------------------- MODULE Access -------------------------------
(***************************************************************************)
(* Who may do what: roles and their permissions (src/roles), the copy of   *)
(* them the authentication library decides by (src/auth), and the layers   *)
(* a custody operation passes: the caller's permission, the active station *)
(* of the session, the operation's type, the station's ceiling and the     *)
(* grant of the staff member (src/stations, src/document-operation-types,  *)
(* src/station-operation-types, src/staff-operation-scope).                *)
(*                                                                         *)
(* Roles live twice: as rows and in an object in memory, which a handler   *)
(* updates after its write and the start of the process rebuilds, after    *)
(* the seed script of the container has written to the rows.  A user has   *)
(* one role here.  Names, descriptions, searches and pages are left out,   *)
(* and so are the permissions each administrative handler asks for, other  *)
(* processes with memories of their own, and, of the script, the rows it   *)
(* makes for what has got another slug and what it writes to Admin's.      *)
(***************************************************************************)
EXTENDS Integers, FiniteSets

CONSTANTS
  Role,       \* role rows; one of them is Admin
  Admin,
  Slug,       \* names of roles
  FirstSlug,  \* the name each role is installed with
  Permission, \* an action of a resource, here with a resource of its own
  BuiltIn,    \* those installed
  Installs,   \* by slug, the permissions that the seed script gives roles
  ManageOps, ManageScope, \* documentOperation:manage, staffOperationScope:manage
  User, Station, Type,
  Req,        \* slots for handlers in flight
  None

\* Names of roles are unique.
ConstantsOK ==
  /\ Admin \in Role
  /\ FirstSlug \in [Role -> Slug]
  /\ \A id, other \in Role : FirstSlug[id] = FirstSlug[other] => id = other
  /\ {ManageOps, ManageScope} \subseteq BuiltIn /\ BuiltIn \subseteq Permission
  /\ DOMAIN Installs \subseteq Slug /\ \A slug \in DOMAIN Installs : Installs[slug] \subseteq BuiltIn
  /\ None \notin Station

VARIABLES
  catalog,  \* Resource and ResourceAction rows
  roles,    \* Role rows with their RolePermission rows
  live,     \* liveRoles, by slug; a slug it has not is the empty set
  role,     \* User.role
  stations, types, ceilings, grants, \* rows, see Row
  session,  \* Session.stationId
  req       \* handlers in flight

org    == <<stations, types, ceilings, grants>>
stored == <<catalog, roles>>
vars   == <<stored, live, role, org, session, req>>

Row == {"none", "kept", "voided"}

\* named: it has the name the code asks for.
CatalogEntry == [resource: Row, action: Row, named: BOOLEAN]
RoleRow      == [row: Row, slug: Slug, perms: SUBSET Permission]

Request ==
  [op: {"none", "setPermissions", "create", "delete", "restore", "grant", "work"},
   step: {"idle", "store", "sync", "upsert", "station", "assigned", "assignedGrant",
          "type", "ceiling", "bypass", "grant", "allowed"},
   id: Role \cup {None}, slug: Slug \cup {None}, perms: SUBSET Permission,
   user: User \cup {None}, at: Station \cup {None}, station: Station \cup {None},
   type: Type \cup {None}]

Idle == [op |-> "none", step |-> "idle", id |-> None, slug |-> None, perms |-> {},
         user |-> None, at |-> None, station |-> None, type |-> None]

TypeOK ==
  /\ catalog \in [Permission -> CatalogEntry]
  /\ roles \in [Role -> RoleRow]
  /\ live \in [Slug -> SUBSET Permission]
  /\ role \in [User -> Slug]
  /\ stations \in [Station -> Row] /\ types \in [Type -> Row]
  /\ ceilings \in [Station \X Type -> [row: Row, enabled: BOOLEAN]]
  /\ grants \in [User \X Station \X Type -> Row]
  /\ session \in [User -> Station \cup {None}]
  /\ req \in [Req -> Request]

-----------------------------------------------------------------------------
(* The start of the process *)

Named(perms) == {p \in perms : catalog[p].named}

\* What an administrator is offered: voided actions and resources are not.
Offered == {p \in Permission : catalog[p].resource = "kept"
                            /\ catalog[p].action = "kept"}

KeptRole(slug) == {id \in Role : roles[id].row = "kept" /\ roles[id].slug = slug}

\* The role called "admin" gets everything offered; the others what their rows say,
\* voided actions included.
LoadForStartup ==
  [slug \in Slug |->
     IF KeptRole(slug) = {} THEN {}
     ELSE IF slug = FirstSlug[Admin] THEN Named(Offered)
     ELSE Named(roles[CHOOSE id \in KeptRole(slug) : TRUE].perms)]

Init ==
  /\ catalog = [p \in Permission |->
       [resource |-> IF p \in BuiltIn THEN "kept" ELSE "none",
        action   |-> IF p \in BuiltIn THEN "kept" ELSE "none", named |-> TRUE]]
  /\ roles \in [Role -> {[row |-> row, slug |-> slug, perms |-> perms] :
        row \in {"none", "kept"}, slug \in Slug, perms \in SUBSET BuiltIn}]
  /\ roles[Admin].row = "kept" /\ roles[Admin].perms = BuiltIn
  /\ \A id \in Role : /\ roles[id].slug = FirstSlug[id]
                      /\ roles[id].row = "none" => roles[id].perms = {}
  /\ live = LoadForStartup
  /\ role \in [User -> Slug]
  /\ stations = [s \in Station |-> "kept"] /\ types = [t \in Type |-> "kept"]
  /\ ceilings = [c \in Station \X Type |-> [row |-> "none", enabled |-> TRUE]]
  /\ grants = [g \in User \X Station \X Type |-> "none"]
  /\ session = [u \in User |-> None]
  /\ req = [r \in Req |-> Idle]

-----------------------------------------------------------------------------
At(r, op, step) == req[r].op = op /\ req[r].step = step
Done(r)         == req' = [req EXCEPT ![r] = Idle]
Goto(r, step)   == req' = [req EXCEPT ![r].step = step]
Begin(r, slot)  == req[r] = Idle /\ req' = [req EXCEPT ![r] = slot]
Continue(r, condition, step) == IF condition THEN Goto(r, step) ELSE Done(r)

UnchangedByRoles == UNCHANGED <<role, org, session>>

-----------------------------------------------------------------------------
(* Resources and their actions *)

Catalog(p, entry) ==
  /\ catalog' = [catalog EXCEPT ![p] = entry]
  /\ UnchangedByRoles /\ UNCHANGED <<roles, live, req>>

CreateResource(p) ==
  catalog[p].resource = "none" /\ Catalog(p, [catalog[p] EXCEPT !.resource = "kept"])

DeleteResource(p) ==
  /\ catalog[p].resource # "none" /\ p \notin BuiltIn
  /\ Catalog(p, [catalog[p] EXCEPT !.resource = "voided"])

RestoreResource(p) ==
  catalog[p].resource # "none" /\ Catalog(p, [catalog[p] EXCEPT !.resource = "kept"])

\* A resource's being voided is not asked for.
CreateAction(p) ==
  /\ catalog[p].resource # "none" /\ catalog[p].action = "none"
  /\ Catalog(p, [catalog[p] EXCEPT !.action = "kept"])

DeleteAction(p) ==
  /\ catalog[p].action # "none" /\ p \notin BuiltIn
  /\ Catalog(p, [catalog[p] EXCEPT !.action = "voided"])

RestoreAction(p) ==
  catalog[p].action # "none" /\ Catalog(p, [catalog[p] EXCEPT !.action = "kept"])

\* updateResource and updateAction may give another slug, also to built-in ones.
Rename(p) ==
  /\ catalog[p].action # "none"
  /\ Catalog(p, [catalog[p] EXCEPT !.named = ~@])

-----------------------------------------------------------------------------
(* Roles *)

SlugFree(slug) == \A id \in Role : roles[id].row = "none" \/ roles[id].slug # slug

\* A voided role has its permissions set like any other.
StartSetPermissions(r, id, wanted) ==
  /\ roles[id].row # "none" /\ id # Admin
  /\ \A p \in wanted : catalog[p].action = "kept"
  /\ Begin(r, [Idle EXCEPT !.op = "setPermissions", !.step = "store", !.id = id,
                           !.slug = roles[id].slug, !.perms = wanted])
  /\ UnchangedByRoles /\ UNCHANGED <<stored, live>>

SetPermissions(r) ==
  /\ At(r, "setPermissions", "store")
  /\ roles' = [roles EXCEPT ![req[r].id].perms = req[r].perms]
  /\ req' = [req EXCEPT ![r].step = "sync", ![r].perms = Named(@)]
  /\ UnchangedByRoles /\ UNCHANGED <<catalog, live>>

\* Mutant: only what is new is added.
MutSyncRoleToMemory(r) ==
  /\ req[r].step = "sync"
  /\ live' = [live EXCEPT ![req[r].slug] = @ \cup req[r].perms]
  /\ Done(r)
  /\ UnchangedByRoles /\ UNCHANGED stored

\* A deleted role's slug is taken out, which is to hold nothing.
SyncRoleToMemory(r) ==
  /\ req[r].step = "sync"
  /\ live' = [live EXCEPT ![req[r].slug] = req[r].perms]
  /\ Done(r)
  /\ UnchangedByRoles /\ UNCHANGED stored

CreateRole(r, id, slug) ==
  /\ roles[id].row = "none" /\ SlugFree(slug)
  /\ roles' = [roles EXCEPT ![id] = [row |-> "kept", slug |-> slug, perms |-> {}]]
  /\ Begin(r, [Idle EXCEPT !.op = "create", !.step = "sync", !.slug = slug])
  /\ UnchangedByRoles /\ UNCHANGED <<catalog, live>>

\* Nothing is done to the memory.
UpdateRole(id, slug) ==
  /\ roles[id].row # "none" /\ SlugFree(slug)
  /\ roles' = [roles EXCEPT ![id].slug = slug]
  /\ UnchangedByRoles /\ UNCHANGED <<catalog, live, req>>

StartDeleteRole(r, id) ==
  /\ roles[id].row # "none" /\ id # Admin
  /\ Begin(r, [Idle EXCEPT !.op = "delete", !.step = "store", !.id = id,
                           !.slug = roles[id].slug])
  /\ UnchangedByRoles /\ UNCHANGED <<stored, live>>

DeleteRole(r) ==
  /\ At(r, "delete", "store")
  /\ roles' = [roles EXCEPT ![req[r].id].row = "voided"]
  /\ Goto(r, "sync")
  /\ UnchangedByRoles /\ UNCHANGED <<catalog, live>>

RestoreRole(r, id) ==
  /\ roles[id].row # "none"
  /\ roles' = [roles EXCEPT ![id].row = "kept"]
  /\ Begin(r, [Idle EXCEPT !.op = "restore", !.step = "sync",
                           !.slug = roles[id].slug, !.perms = Named(roles[id].perms)])
  /\ UnchangedByRoles /\ UNCHANGED <<catalog, live>>

\* The script replaces the permissions of each role it installs, deleted or not, one role
\* and one permission after the other; it stops anywhere, or is not reached, and the start
\* goes on.
SeedRoles ==
  \E done \in SUBSET DOMAIN Installs : \E perms \in [done -> SUBSET BuiltIn] :
    /\ \A slug \in done : perms[slug] \subseteq Installs[slug]
    /\ \A slug, other \in done :
         perms[slug] # Installs[slug] /\ perms[other] # Installs[other] => slug = other
    /\ roles' = [id \in Role |->
         IF id # Admin /\ roles[id].row # "none" /\ roles[id].slug \in done
         THEN [roles[id] EXCEPT !.perms = perms[roles[id].slug]] ELSE roles[id]]

\* The process starts again: what was in flight is gone.
Restart ==
  /\ SeedRoles
  /\ UNCHANGED catalog
  /\ live' = LoadForStartup'
  /\ req' = [r \in Req |-> Idle]
  /\ UnchangedByRoles

\* An administrator gives a user another role, by the library.
AssignRole(u, slug) ==
  /\ role' = [role EXCEPT ![u] = slug]
  /\ UNCHANGED <<stored, live, org, session, req>>

-----------------------------------------------------------------------------
(* Stations, operation types, ceilings and grants *)

UnchangedByOrg == UNCHANGED <<stored, live, role, session, req>>

Renewed(row)        == IF row = "none" THEN "none" ELSE "kept"
Removed(row, purge) == IF row = "none" \/ purge THEN "none" ELSE "voided"

CreateStation(s) ==
  /\ stations[s] = "none"
  /\ stations' = [stations EXCEPT ![s] = "kept"]
  /\ UNCHANGED <<types, ceilings, grants>> /\ UnchangedByOrg

\* Purging takes the rows that refer to it along.
RemoveStation(s, purge) ==
  /\ stations[s] # "none"
  /\ stations' = [stations EXCEPT ![s] = Removed(@, purge)]
  /\ ceilings' = [c \in DOMAIN ceilings |->
       IF purge /\ c[1] = s THEN [ceilings[c] EXCEPT !.row = "none"] ELSE ceilings[c]]
  /\ grants' = [g \in DOMAIN grants |->
       IF purge /\ g[2] = s THEN "none" ELSE grants[g]]
  /\ UNCHANGED types /\ UnchangedByOrg

RestoreStation(s) ==
  /\ stations' = [stations EXCEPT ![s] = Renewed(@)]
  /\ UNCHANGED <<types, ceilings, grants>> /\ UnchangedByOrg

CreateType(t) ==
  /\ types[t] = "none"
  /\ types' = [types EXCEPT ![t] = "kept"]
  /\ UNCHANGED <<stations, ceilings, grants>> /\ UnchangedByOrg

RemoveType(t, purge) ==
  /\ types[t] # "none"
  /\ types' = [types EXCEPT ![t] = Removed(@, purge)]
  /\ ceilings' = [c \in DOMAIN ceilings |->
       IF purge /\ c[2] = t THEN [ceilings[c] EXCEPT !.row = "none"] ELSE ceilings[c]]
  /\ grants' = [g \in DOMAIN grants |->
       IF purge /\ g[3] = t THEN "none" ELSE grants[g]]
  /\ UNCHANGED stations /\ UnchangedByOrg

RestoreType(t) ==
  /\ types' = [types EXCEPT ![t] = Renewed(@)]
  /\ UNCHANGED <<stations, ceilings, grants>> /\ UnchangedByOrg

Ceiling(c, row, enabled) ==
  /\ ceilings' = [ceilings EXCEPT ![c] = [row |-> row, enabled |-> enabled]]
  /\ UNCHANGED <<stations, types, grants>> /\ UnchangedByOrg

CreateCeiling(c, enabled) ==
  /\ ceilings[c].row = "none" /\ stations[c[1]] # "none" /\ types[c[2]] # "none"
  /\ Ceiling(c, "kept", enabled)

UpdateCeiling(c, enabled) ==
  ceilings[c].row # "none" /\ Ceiling(c, ceilings[c].row, enabled)

RemoveCeiling(c, purge) ==
  ceilings[c].row # "none" /\ Ceiling(c, Removed("kept", purge), ceilings[c].enabled)

RestoreCeiling(c) ==
  ceilings[c].row # "none" /\ Ceiling(c, "kept", ceilings[c].enabled)

Holds(u, p) == p \in live[role[u]]

\* The user who is granted something must hold documentOperation:manage.
StartGrant(r, u, s, t) ==
  /\ Holds(u, ManageOps)
  /\ Begin(r, [Idle EXCEPT !.op = "grant", !.step = "upsert", !.user = u,
                           !.station = s, !.type = t])
  /\ UNCHANGED <<stored, live, role, org, session>>

Grant(r) ==
  LET g == <<req[r].user, req[r].station, req[r].type>> IN
  /\ At(r, "grant", "upsert")
  /\ grants' = IF stations[g[2]] = "none" \/ types[g[3]] = "none" THEN grants
               ELSE [grants EXCEPT ![g] = "kept"]
  /\ Done(r)
  /\ UNCHANGED <<stored, live, role, stations, types, ceilings, session>>

Revoke(g, purge) ==
  /\ grants[g] # "none"
  /\ grants' = [grants EXCEPT ![g] = Removed(@, purge)]
  /\ UNCHANGED <<stations, types, ceilings>> /\ UnchangedByOrg

\* Without the check that a new grant makes.
RestoreGrant(g) ==
  /\ grants' = [grants EXCEPT ![g] = Renewed(@)]
  /\ UNCHANGED <<stations, types, ceilings>> /\ UnchangedByOrg

-----------------------------------------------------------------------------
(* A custody operation *)

\* Any station may be made the active one.
UpdateSession(u, s) ==
  /\ session' = [session EXCEPT ![u] = s]
  /\ UNCHANGED <<stored, live, role, org, req>>

\* The operation's own station is optional.  Without one its type, the ceiling and the
\* grant are not looked at.
AfterGuards(s) == IF s = None THEN "allowed" ELSE "type"

\* The caller holds the permission; edits of an operation ask for the active station
\* of the session too, its transitions do not.
StartWork(r, u, s, t, edit) ==
  /\ Holds(u, ManageOps)
  /\ edit => session[u] # None
  /\ Begin(r, [Idle EXCEPT !.op = "work",
                           !.step = IF edit THEN "station" ELSE AfterGuards(s),
                           !.user = u, !.at = IF edit THEN session[u] ELSE None,
                           !.station = s, !.type = t])
  /\ UNCHANGED <<stored, live, role, org, session>>

UnchangedByWork == UNCHANGED <<stored, live, role, org, session>>

CheckStation(r) ==
  /\ At(r, "work", "station")
  /\ Continue(r, stations[req[r].at] = "kept", "assigned")
  /\ UnchangedByWork

CheckAssigned(r) ==
  /\ At(r, "work", "assigned")
  /\ Goto(r, IF Holds(req[r].user, ManageScope) THEN AfterGuards(req[r].station)
             ELSE "assignedGrant")
  /\ UnchangedByWork

CheckAssignedGrant(r) ==
  /\ At(r, "work", "assignedGrant")
  /\ Continue(r, \E t \in Type : grants[<<req[r].user, req[r].at, t>>] = "kept",
              AfterGuards(req[r].station))
  /\ UnchangedByWork

CheckType(r) ==
  /\ At(r, "work", "type")
  /\ Continue(r, types[req[r].type] = "kept", "ceiling")
  /\ UnchangedByWork

CeilingAllows(s, t) == ceilings[<<s, t>>].row = "kept" /\ ceilings[<<s, t>>].enabled

CheckCeiling(r) ==
  /\ At(r, "work", "ceiling")
  /\ Continue(r, CeilingAllows(req[r].station, req[r].type), "bypass")
  /\ UnchangedByWork

CheckBypass(r) ==
  /\ At(r, "work", "bypass")
  /\ Goto(r, IF Holds(req[r].user, ManageScope) THEN "allowed" ELSE "grant")
  /\ UnchangedByWork

\* Mutant: a revoked grant will do.
MutCheckGrant(r) ==
  /\ At(r, "work", "grant")
  /\ Continue(r, grants[<<req[r].user, req[r].station, req[r].type>>] # "none", "allowed")
  /\ UnchangedByWork

CheckGrant(r) ==
  /\ At(r, "work", "grant")
  /\ Continue(r, grants[<<req[r].user, req[r].station, req[r].type>>] = "kept", "allowed")
  /\ UnchangedByWork

\* The operation itself is CustodyOperations'.
Work(r) ==
  /\ At(r, "work", "allowed")
  /\ Done(r)
  /\ UnchangedByWork

-----------------------------------------------------------------------------
EditRoles ==
  \/ \E p \in Permission :
       \/ CreateResource(p) \/ DeleteResource(p) \/ RestoreResource(p)
       \/ CreateAction(p) \/ DeleteAction(p) \/ RestoreAction(p) \/ Rename(p)
  \/ \E id \in Role, slug \in Slug : UpdateRole(id, slug)
  \/ \E r \in Req, id \in Role, slug \in Slug : CreateRole(r, id, slug)

SetRoles(r) ==
  \/ \E id \in Role :
       \/ \E wanted \in SUBSET Permission : StartSetPermissions(r, id, wanted)
       \/ StartDeleteRole(r, id) \/ RestoreRole(r, id)
  \/ SetPermissions(r) \/ DeleteRole(r) \/ SyncRoleToMemory(r)

EditStations ==
  \E s \in Station :
    \/ CreateStation(s) \/ RestoreStation(s)
    \/ \E purge \in BOOLEAN : RemoveStation(s, purge)

EditTypes ==
  \E t \in Type :
    \/ CreateType(t) \/ RestoreType(t)
    \/ \E purge \in BOOLEAN : RemoveType(t, purge)

EditCeilings ==
  \E c \in DOMAIN ceilings :
    \/ RestoreCeiling(c)
    \/ \E enabled \in BOOLEAN : CreateCeiling(c, enabled) \/ UpdateCeiling(c, enabled)
    \/ \E purge \in BOOLEAN : RemoveCeiling(c, purge)

EditGrants ==
  \E g \in DOMAIN grants :
    RestoreGrant(g) \/ \E purge \in BOOLEAN : Revoke(g, purge)

EditOrg == EditStations \/ EditTypes \/ EditCeilings \/ EditGrants

GrantOrWork(r) ==
  \/ \E u \in User, t \in Type :
       \/ \E s \in Station : StartGrant(r, u, s, t)
       \/ \E s \in Station \cup {None}, edit \in BOOLEAN : StartWork(r, u, s, t, edit)
  \/ Grant(r) \/ CheckStation(r) \/ CheckAssigned(r) \/ CheckAssignedGrant(r)
  \/ CheckType(r) \/ CheckCeiling(r) \/ CheckBypass(r) \/ CheckGrant(r) \/ Work(r)

Next ==
  \/ EditRoles
  \/ EditOrg
  \/ \E r \in Req : SetRoles(r) \/ GrantOrWork(r)
  \/ Restart
  \/ \E u \in User : \/ \E slug \in Slug : AssignRole(u, slug)
                     \/ \E s \in Station \cup {None} : UpdateSession(u, s)

Spec == Init /\ [][Next]_vars

-----------------------------------------------------------------------------
(* What the properties are about *)

\* getEffectivePermissions: what the users of a role are shown.
EffectivePermissions(slug) ==
  IF slug = FirstSlug[Admin] THEN Named(Offered)
  ELSE UNION {Named(roles[id].perms) : id \in KeptRole(slug)}

\* The stations a member of staff is shown to choose from.
AssignedStations(u) ==
  {s \in Station :
     /\ stations[s] = "kept"
     /\ Holds(u, ManageScope) \/ \E t \in Type : grants[<<u, s, t>>] = "kept"}

\* What the request's operation needs at its station, if it has one, and, if the request
\* is an edit, at the active one.
Authorised(q) ==
  /\ Holds(q.user, ManageOps)
  /\ q.station # None =>
       /\ types[q.type] = "kept" /\ CeilingAllows(q.station, q.type)
       /\ Holds(q.user, ManageScope) \/ grants[<<q.user, q.station, q.type>>] = "kept"
  /\ q.at # None => q.at \in AssignedStations(q.user)

\* Everything the checks of a request look at.
Rights ==
  [held     |-> {h \in User \X Permission : Holds(h[1], h[2])},
   stations |-> {s \in Station : stations[s] = "kept"},
   types    |-> {t \in Type : types[t] = "kept"},
   ceilings |-> {c \in DOMAIN ceilings : CeilingAllows(c[1], c[2])},
   grants   |-> {g \in DOMAIN grants : grants[g] = "kept"}]

Within(rights, others) == \A kind \in DOMAIN rights : rights[kind] \subseteq others[kind]
=============================================================================
