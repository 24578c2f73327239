------------------------------ MODULE MCAccess ------------------------------
(* Two situations of Access: administrators edit roles, or a member of staff *)
(* passes the checks of a request while what they look at changes.           *)
EXTENDS Pages, FiniteSets, TLC

CONSTANTS
  Role, Admin, Slug, FirstSlug, Permission, BuiltIn, Installs, ManageOps, ManageScope,
  User, Station, Type, Slot, Nobody,
  Uninstalled, \* situation "work" begins without these roles,
  AtFirst,     \* and with users who have these slugs;
  Given,       \* in it users are given these slugs,
  Adjusted,    \* and these roles are edited
  admin, staff, spare,
  worker, editor,   \* the slots of the request and of what is edited around it
  MaxBegun          \* bound: edits that administrators begin

VARIABLES
  catalog, roles, live, role, stations, types, ceilings, grants, session, tasks,
  situation, \* "roles": administrators edit roles; "work": a member of staff works
  tainted,   \* since the start of the process handlers overlapped, something got
             \* another slug, or a deleted role was given permissions
  begun,     \* how many edits began
  entitled,  \* when the request under way began, its caller was authorised
  given, taken \* since then, a right was given, or taken away

\* The names are those of no other component: ContentAndAccessProofs is about several.
R == INSTANCE Access WITH Req <- Slot, None <- Nobody, req <- tasks

ASSUME AccessAssumption ==
  /\ R!ConstantsOK
  /\ Given \cup AtFirst \subseteq Slug /\ Adjusted \subseteq Role \ {Admin}
  /\ {worker, editor} \subseteq Slot /\ worker # editor

history == <<situation, tainted, begun, entitled, given, taken>>

MCInstalls == "staff" :> {ManageOps}

MCFirstSlug == admin :> "admin" @@ staff :> "staff" @@ spare :> "spare"

AccessInit ==
  /\ R!Init
  /\ situation \in {"roles", "work"}
  /\ situation = "work" => \A id \in Uninstalled : roles[id].row = "none"
  /\ \A u \in User : role[u] \in AtFirst
  /\ tainted = FALSE /\ begun = 0
  /\ entitled = FALSE /\ given = FALSE /\ taken = FALSE

Names == <<[p \in Permission |-> catalog[p].named], [id \in Role |-> roles[id].slug]>>

Taint ==
  \/ Names' # Names
  \/ \E q, r \in Slot : q # r /\ tasks[q] # R!Idle /\ tasks'[r] # tasks[r]
  \/ \E r \in Slot : /\ tasks'[r].op = "setPermissions"
                     /\ roles[tasks'[r].id].row = "voided"

Begun == Cardinality({r \in Slot : tasks[r] = R!Idle /\ tasks'[r] # R!Idle})

AdministerRoles ==
  /\ situation = "roles"
  /\ \/ R!Restart /\ tainted' = FALSE /\ UNCHANGED begun
     \/ /\ begun < MaxBegun
        /\ \/ R!EditRoles /\ begun' = begun + 1
           \/ /\ \E r \in Slot : R!SetRoles(r)
              /\ begun' = begun + Begun
        /\ tainted' = (tainted \/ Taint)
     \/ /\ begun = MaxBegun
        /\ \E r \in Slot :
             R!SetPermissions(r) \/ R!DeleteRole(r) \/ R!SyncRoleToMemory(r)
        /\ UNCHANGED begun
        /\ tainted' = (tainted \/ Taint)
  /\ UNCHANGED <<situation, entitled, given, taken>>

\* One request, with everything it depends on changing around it.
Around ==
  \/ R!EditOrg
  \/ \E u \in User, slug \in Given : R!AssignRole(u, slug)
  \/ \E u \in User, s \in Station : R!UpdateSession(u, s)
  \/ \E u \in User, s \in Station, t \in Type : R!StartGrant(editor, u, s, t)
  \/ R!Grant(editor)
  \/ \E id \in Adjusted, wanted \in SUBSET {ManageOps, ManageScope} :
       /\ wanted = {} \/ ManageOps \in wanted
       /\ R!StartSetPermissions(editor, id, wanted)
  \/ R!SetPermissions(editor) \/ R!SyncRoleToMemory(editor)

WorkOfStaff ==
  /\ situation = "work"
  /\ \/ /\ R!GrantOrWork(worker)
        /\ tasks[worker].op # "grant" /\ tasks'[worker].op # "grant"
        /\ entitled' = IF tasks[worker] = R!Idle THEN R!Authorised(tasks'[worker]) ELSE
                       IF tasks'[worker] = R!Idle THEN FALSE ELSE entitled
        /\ IF tasks'[worker] = R!Idle THEN given' = FALSE /\ taken' = FALSE
           ELSE UNCHANGED <<given, taken>>
     \/ /\ Around
        /\ IF tasks[worker] = R!Idle THEN UNCHANGED <<given, taken>>
           ELSE /\ given' = (given \/ ~R!Within(R!Rights', R!Rights))
                /\ taken' = (taken \/ ~R!Within(R!Rights, R!Rights'))
        /\ UNCHANGED entitled
  /\ UNCHANGED <<situation, tainted, begun>>

AccessNext == AdministerRoles \/ WorkOfStaff

AccessSpec == AccessInit /\ [][AccessNext]_<<R!vars, history>>

\* "Better Auth picks up permission changes on the next request without a restart":
\* when no edit is under way, what is decided by is what the users of a role are
\* shown, for the administrators at least what is installed, also when the seed script
\* has replaced it or stopped half-way.  Overlapping edits, new slugs and an edited deleted
\* role break it until the process starts again; a new slug for the administrators' role
\* breaks it until the script has made them another one.
RolesInEffect ==
  /\ ~tainted /\ roles[Admin].slug = FirstSlug[Admin]
  /\ \A r \in Slot : tasks[r] = R!Idle
  => /\ R!Named(BuiltIn) \subseteq live[FirstSlug[Admin]]
     /\ \A slug \in Slug \ {FirstSlug[Admin]} :
          live[slug] = R!EffectivePermissions(slug)

\* assertPermission and the guards before it look at six rows one after the other, at
\* those of type, ceiling and grant only for an operation with a station: a request passes
\* what its operation has to pass only if its caller was authorised to it when it began or
\* is when it passes, unless rights were both given and taken away in between.
PassedWasAuthorised ==
  tasks[worker].step = "allowed" =>
    /\ ~given => entitled
    /\ ~taken => R!Authorised(tasks[worker])
=============================================================================
