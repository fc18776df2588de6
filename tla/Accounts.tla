------------------------------ MODULE Accounts ------------------------------
(***************************************************************************)
(* Accounts, sessions, global roles and the role-permission matrix.  Every *)
(* HTTP request resolves its actor first (status, roles and permissions    *)
(* are read in one query) and runs its transactions afterwards, so other   *)
(* requests may commit in between.  A request is therefore a little        *)
(* program: req[q] says where it is and what it carries.                   *)
(*                                                                         *)
(* Requests that are refused, and those that only read, change nothing and *)
(* are not steps of their own.  Names, e-mail addresses, passwords and the *)
(* reasons of role changes are left out; a user stands for an address.     *)
(***************************************************************************)
EXTENDS Integers, Sequences, FiniteSets

CONSTANTS
    Users,          \* e-mail addresses that may register
    Founders,       \* users with an active account, and every role of FounderRoles,
    FounderRoles,   \* at first: the assignments an operator inserts by hand
    Devices,
    Requests,       \* HTTP requests that may be in progress at once
    None,           \* nothing
    RoleInputs,     \* bound: the roles a grant or a revocation names
    StatusInputs,   \* bound: the statuses an update names
    MatrixRoles,    \* bound: the roles whose permissions are replaced
    MatrixInputs,   \* bound: the permission sets a request names
    MaxTokens       \* bound: refresh tokens ever issued

GlobalRoles == {"user", "author", "reviewer", "operator", "admin", "root"}
ContestRoles == {"contest_staff", "contest_manager", "contest_judge"}
Roles == GlobalRoles \cup ContestRoles

fullAccessRoles == {"admin", "root"}
IsFullAccessRole(role) == role \in fullAccessRoles

nonDelegablePermissions ==
    {"audit.read", "role.grant", "role.permission.manage", "role.revoke",
     "system.manage", "user.manage"}
contestScopedPermissions == {"contest.read", "contest.manage", "contest.judge"}
allPermissions ==
    nonDelegablePermissions \cup contestScopedPermissions
      \cup {"contest.create", "contest.manage_all", "judge.inspect",
            "problem.create", "problem.edit_own", "problem.manage_all",
            "problem.publish", "problem.review", "problem.submit_review",
            "submission.rejudge"}

\* Lookup(code).Scope and Lookup(code).Delegable of the permission directory.
permissionScope(p) == IF p \in contestScopedPermissions THEN "contest" ELSE "global"
Delegable(p) == p \notin nonDelegablePermissions
roleScope(role) == IF role \in ContestRoles THEN "contest" ELSE "global"

Statuses == {"active", "disabled", "deleted"}

ASSUME AccountsAssumption ==
    /\ Founders \subseteq Users /\ Founders # {}
    /\ FounderRoles \subseteq GlobalRoles /\ "root" \in FounderRoles
    /\ None \notin Users \cup Devices \cup Requests \cup Roles \cup Statuses
    /\ RoleInputs \subseteq Roles /\ MatrixRoles \subseteq Roles
    /\ StatusInputs \subseteq Statuses
    /\ MatrixInputs \subseteq SUBSET (allPermissions \cup {"unknown"})
    /\ MaxTokens \in Nat

VARIABLES
    status,     \* users.status; None while there is no such account
    roles,      \* user_role_assignments with revoked_at NULL, per user
    perms,      \* role_permissions, per role
    tokens,     \* refresh_tokens, in order of issue
    signedIn,   \* users somebody holds an access token of
    rootLock,   \* the request holding FOR UPDATE on the root assignments
    req,        \* the requests in progress
    trail       \* audit_events: per user and role, grants recorded less revocations
vars == <<status, roles, perms, tokens, signedIn, rootLock, req, trail>>

Idle == [pc |-> "idle", user |-> None, arg |-> None, tok |-> 0,
         set |-> {}, del |-> {}]

\* A request at label pc, about user, with the role, status or device it carries.
At(pc, user, arg) == [Idle EXCEPT !.pc = pc, !.user = user, !.arg = arg]

Goto(q, r) == req' = [req EXCEPT ![q] = r]
Finish(q) == Goto(q, Idle)

-----------------------------------------------------------------------------
(* Who is asking.                                                          *)

\* accessAccumulator.add over the joined rows of one account.
joinedPermissions(u) == UNION {perms[role] : role \in roles[u]}

expandFullAccess(held, permissions) ==
    IF \E role \in held : IsFullAccessRole(role) THEN allPermissions ELSE permissions

\* The permissions of an account: ListAccessForUsers and ResolveActor run the same join.
ListAccess(u) == expandFullAccess(roles[u], joinedPermissions(u))

\* Status and permissions of an account, from one query.
ResolveActor(u) == [status |-> status[u], permissions |-> ListAccess(u)]

\* A bearer whose account is not active goes on as anonymous.
actorMiddleware(u) == u \in signedIn /\ ResolveActor(u).status = "active"

\* authz.Authorize: a membership check on the set resolved for this request.
Authorize(u, permission) == permission \in ResolveActor(u).permissions

authorize(u, permission) == actorMiddleware(u) /\ Authorize(u, permission)

-----------------------------------------------------------------------------
(* Sessions.                                                               *)

CreateUser(u) ==
    /\ status[u] = None
    /\ status' = [status EXCEPT ![u] = "active"]

\* The e-mail is free; the account is committed before its role is granted.
Register(q, u, d) ==
    /\ req[q] = Idle
    /\ CreateUser(u)
    /\ Goto(q, At("register", u, d))
    /\ UNCHANGED <<roles, perms, tokens, signedIn, rootLock, trail>>

\* INSERT of the assignment (one unrevoked row per user and role) and of its
\* audit event, in one transaction.
GrantRole(u, role) ==
    /\ status[u] # None
    /\ role \notin roles[u]
    /\ roles' = [roles EXCEPT ![u] = @ \cup {role}]
    /\ trail' = [trail EXCEPT ![u][role] = @ + 1]

RegisterRole(q) ==
    /\ req[q].pc = "register"
    /\ GrantRole(req[q].user, "user")
    /\ Goto(q, At("issue", req[q].user, req[q].arg))
    /\ UNCHANGED <<status, perms, tokens, signedIn, rootLock>>

GetUserByEmail(u) == status[u]

\* The account is active and the password right; the session follows.
Login(q, u, d) ==
    /\ req[q] = Idle
    /\ GetUserByEmail(u) = "active"
    /\ Goto(q, At("issue", u, d))
    /\ UNCHANGED <<status, roles, perms, tokens, signedIn, rootLock, trail>>

CreateRefreshToken(u, d) ==
    /\ Len(tokens) < MaxTokens
    /\ tokens' = Append(tokens, [user |-> u, device |-> d, live |-> TRUE])

\* The JWT carries the user and the device, and no roles.
IssueAccessToken(u) == signedIn' = signedIn \cup {u}

issueSession(q) ==
    /\ req[q].pc = "issue"
    /\ CreateRefreshToken(req[q].user, req[q].arg)
    /\ IssueAccessToken(req[q].user)
    /\ Finish(q)
    /\ UNCHANGED <<status, roles, perms, rootLock, trail>>

\* GetRefreshToken: found, not revoked, not expired.
GetRefreshToken(t) == t \in DOMAIN tokens /\ tokens[t].live

Refresh(q, t) ==
    /\ req[q] = Idle
    /\ GetRefreshToken(t)
    /\ Goto(q, [At("refresh_user", tokens[t].user, None) EXCEPT !.tok = t])
    /\ UNCHANGED <<status, roles, perms, tokens, signedIn, rootLock, trail>>

GetUserByID(u) == status[u]

RefreshUser(q) ==
    /\ req[q].pc = "refresh_user"
    /\ IF GetUserByID(req[q].user) = "active"
       THEN Goto(q, [req[q] EXCEPT !.pc = "refresh_revoke"])
       ELSE Finish(q)
    /\ UNCHANGED <<status, roles, perms, tokens, signedIn, rootLock, trail>>

\* UPDATE ... WHERE revoked_at IS NULL, :exec: no row is no error.
RevokeRefreshToken(t) == tokens' = [tokens EXCEPT ![t].live = FALSE]

\* The new session is for the token's device, or the one the request names.
RefreshRotate(q, d) ==
    /\ req[q].pc = "refresh_revoke"
    /\ RevokeRefreshToken(req[q].tok)
    /\ Goto(q, At("issue", req[q].user, d))
    /\ UNCHANGED <<status, roles, perms, signedIn, rootLock, trail>>

RevokeUserDeviceRefreshTokens(u, d) ==
    tokens' = [t \in DOMAIN tokens |->
                 IF tokens[t].user = u /\ tokens[t].device = d
                 THEN [tokens[t] EXCEPT !.live = FALSE] ELSE tokens[t]]

\* By token, or by the device of an authenticated actor.
Logout ==
    /\ \/ \E t \in DOMAIN tokens : RevokeRefreshToken(t)
       \/ \E u \in Users, d \in Devices :
            actorMiddleware(u) /\ RevokeUserDeviceRefreshTokens(u, d)
    /\ UNCHANGED <<status, roles, perms, signedIn, rootLock, req, trail>>

\* now() passes expires_at.
TokenExpires(t) ==
    /\ GetRefreshToken(t)
    /\ tokens' = [tokens EXCEPT ![t].live = FALSE]
    /\ UNCHANGED <<status, roles, perms, signedIn, rootLock, req, trail>>

-----------------------------------------------------------------------------
(* Administration of accounts.                                             *)

\* The current status is read before, and outside, the transaction.
UpdateUser(q, a, u, to) ==
    /\ req[q] = Idle
    /\ authorize(a, "user.manage")
    /\ GetUserByID(u) # None
    /\ a = u => to = "active"
    /\ Goto(q, [At("update", u, to) EXCEPT !.set = {GetUserByID(u)}])
    /\ UNCHANGED <<status, roles, perms, tokens, signedIn, rootLock, trail>>

\* statusChangeEvent: nil when the status read is the one asked for.
changesStatus(q) == req[q].set # {req[q].arg}

UpdateUserAdminFields(u, to) == status' = [status EXCEPT ![u] = to]

\* event == nil: one statement, no transaction, no look at the roots.
UpdateUserUnrecorded(q) ==
    /\ req[q].pc = "update"
    /\ ~changesStatus(q)
    /\ UpdateUserAdminFields(req[q].user, req[q].arg)
    /\ Finish(q)
    /\ UNCHANGED <<roles, perms, tokens, signedIn, rootLock, trail>>

rootHolders == {u \in Users : "root" \in roles[u]}

\* Mutant: the roots are read without locking them.
lockRootsNoWait(q) == rootLock' = q

\* SELECT ... FOR UPDATE of the root assignments waits for the transaction that holds them.
lockRoots(q) == rootLock = None /\ rootLock' = q

ensureActiveRootRemains(q) ==
    /\ req[q].pc = "update"
    /\ changesStatus(q)
    /\ req[q].arg # "active"
    /\ IF rootHolders = {req[q].user}
       THEN rootLock = None /\ Finish(q) /\ UNCHANGED rootLock
       ELSE lockRoots(q) /\ Goto(q, [req[q] EXCEPT !.pc = "update_commit"])
    /\ UNCHANGED <<status, roles, perms, tokens, signedIn, trail>>

releaseRoots(q) == rootLock' = IF rootLock = q THEN None ELSE rootLock

UpdateUserRecorded(q) ==
    /\ \/ req[q].pc = "update" /\ changesStatus(q) /\ req[q].arg = "active"
       \/ req[q].pc = "update_commit"
    /\ UpdateUserAdminFields(req[q].user, req[q].arg)
    /\ releaseRoots(q)
    /\ Finish(q)
    /\ UNCHANGED <<roles, perms, tokens, signedIn, trail>>

-----------------------------------------------------------------------------
(* Global roles.                                                           *)

GrantRoleRequest(q, a, u, role) ==
    /\ req[q] = Idle
    /\ authorize(a, "role.grant")
    /\ a # u
    /\ role \in GlobalRoles
    /\ Goto(q, At("grant", u, role))
    /\ UNCHANGED <<status, roles, perms, tokens, signedIn, rootLock, trail>>

GrantRoleTx(q) ==
    /\ req[q].pc = "grant"
    /\ \/ GrantRole(req[q].user, req[q].arg)
       \/ /\ status[req[q].user] = None \/ req[q].arg \in roles[req[q].user]
          /\ UNCHANGED <<roles, trail>>
    /\ Finish(q)
    /\ UNCHANGED <<status, perms, tokens, signedIn, rootLock>>

RevokeRoleRequest(q, a, u, role) ==
    /\ req[q] = Idle
    /\ authorize(a, "role.revoke")
    /\ a # u
    /\ role \in GlobalRoles \ {"user"}
    /\ Goto(q, At(IF role = "root" THEN "revoke_root" ELSE "revoke", u, role))
    /\ UNCHANGED <<status, roles, perms, tokens, signedIn, rootLock, trail>>

\* The root assignments are locked, the row is updated and the rest is counted.
RevokeRootCount(q) ==
    /\ req[q].pc = "revoke_root"
    /\ IF req[q].user \in rootHolders /\ rootHolders # {req[q].user}
       THEN lockRoots(q) /\ Goto(q, [req[q] EXCEPT !.pc = "revoke"])
       ELSE rootLock = None /\ Finish(q) /\ UNCHANGED rootLock
    /\ UNCHANGED <<status, roles, perms, tokens, signedIn, trail>>

\* Mutant: the event is written whether or not a row was updated.
RevokeRoleAlwaysRecorded(q) ==
    LET u == req[q].user
    IN  /\ req[q].pc = "revoke"
        /\ roles' = [roles EXCEPT ![u] = @ \ {req[q].arg}]
        /\ trail' = [trail EXCEPT ![u][req[q].arg] = @ - 1]
        /\ releaseRoots(q)
        /\ Finish(q)
        /\ UNCHANGED <<status, perms, tokens, signedIn>>

\* The update and its audit event commit together; no row is ErrNotFound.
RevokeRole(q) ==
    LET u == req[q].user
    IN  /\ req[q].pc = "revoke"
        /\ \/ /\ req[q].arg \in roles[u]
              /\ roles' = [roles EXCEPT ![u] = @ \ {req[q].arg}]
              /\ trail' = [trail EXCEPT ![u][req[q].arg] = @ - 1]
           \/ /\ req[q].arg \notin roles[u]
              /\ UNCHANGED <<roles, trail>>
        /\ releaseRoots(q)
        /\ Finish(q)
        /\ UNCHANGED <<status, perms, tokens, signedIn>>

-----------------------------------------------------------------------------
(* The role-permission matrix.                                             *)

\* Mutant: a code that is not in the directory is let through.
normalizeAnyCode(role, set) ==
    \A p \in set : Delegable(p) /\ permissionScope(p) = roleScope(role)

\* Mutant: the delegable flag is not looked at.
normalizeUnchecked(role, set) ==
    \A p \in set : p \in allPermissions /\ permissionScope(p) = roleScope(role)

\* Any unknown, non-delegable or out-of-scope code rejects the whole request.
normalizeRolePermissions(role, set) ==
    \A p \in set : /\ p \in allPermissions
                   /\ Delegable(p)
                   /\ permissionScope(p) = roleScope(role)

ReplaceRolePermissions(q, a, role, set) ==
    /\ req[q] = Idle
    /\ authorize(a, "role.permission.manage")
    /\ ~IsFullAccessRole(role)
    /\ normalizeRolePermissions(role, set)
    /\ Goto(q, [At("replace", None, role) EXCEPT !.set = set])
    /\ UNCHANGED <<status, roles, perms, tokens, signedIn, rootLock, trail>>

\* rolePermissionsTx and equalPermissions: a repeated PUT writes nothing.
rolePermissionsTx(q) ==
    /\ req[q].pc = "replace"
    /\ IF perms[req[q].arg] = req[q].set
       THEN Finish(q)
       ELSE Goto(q, [req[q] EXCEPT !.pc = "replace_delete"])
    /\ UNCHANGED <<status, roles, perms, tokens, signedIn, rootLock, trail>>

\* Rows another transaction has deleted and not committed.
rowsLockedByOthers(q) ==
    UNION {req[o].del : o \in {o \in Requests \ {q} :
             req[o].pc = "replace_insert" /\ req[o].arg = req[q].arg}}

\* DELETE under READ COMMITTED: the rows of the statement's snapshot; it waits
\* for a transaction that holds one of them.
ReplaceDelete(q) ==
    /\ req[q].pc = "replace_delete"
    /\ LET snapshot == perms[req[q].arg]
           blocked == snapshot \cap rowsLockedByOthers(q) # {}
       IN Goto(q, [req[q] EXCEPT !.del = snapshot,
                     !.pc = IF blocked THEN "replace_wait" ELSE "replace_insert"])
    /\ UNCHANGED <<status, roles, perms, tokens, signedIn, rootLock, trail>>

\* The holder is done: its deleted rows are skipped, its new ones not seen.
ReplaceDeleteResumes(q) ==
    /\ req[q].pc = "replace_wait"
    /\ req[q].del \cap rowsLockedByOthers(q) = {}
    /\ Goto(q, [req[q] EXCEPT !.pc = "replace_insert", !.del = @ \cap perms[req[q].arg]])
    /\ UNCHANGED <<status, roles, perms, tokens, signedIn, rootLock, trail>>

\* INSERT and commit; a row that is already there is a unique violation.
Replace(q) ==
    /\ req[q].pc = "replace_insert"
    /\ LET rest == perms[req[q].arg] \ req[q].del
       IN perms' = IF rest \cap req[q].set = {}
                   THEN [perms EXCEPT ![req[q].arg] = rest \cup req[q].set]
                   ELSE perms
    /\ Finish(q)
    /\ UNCHANGED <<status, roles, tokens, signedIn, rootLock, trail>>

-----------------------------------------------------------------------------
\* A cancelled context, a database error or the death of the process ends a
\* request and rolls back the transaction it has open.
Abort(q) ==
    /\ req[q] # Idle
    /\ releaseRoots(q)
    /\ Finish(q)
    /\ UNCHANGED <<status, roles, perms, tokens, signedIn, trail>>

\* The permissions migration 000010 seeds.
seededPermissions ==
    [role \in Roles |->
       CASE role = "author" -> {"problem.create", "problem.edit_own", "problem.submit_review"}
         [] role = "reviewer" -> {"problem.review", "problem.publish"}
         [] role = "operator" -> {"submission.rejudge", "judge.inspect"}
         [] role = "contest_staff" -> {"contest.read"}
         [] role = "contest_manager" -> {"contest.read", "contest.manage"}
         [] role = "contest_judge" -> {"contest.read", "contest.judge"}
         [] OTHER -> {}]

Init ==
    /\ status = [u \in Users |-> IF u \in Founders THEN "active" ELSE None]
    /\ roles = [u \in Users |-> IF u \in Founders THEN FounderRoles ELSE {}]
    /\ perms = seededPermissions
    /\ tokens = <<>>
    /\ signedIn = Founders
    /\ rootLock = None
    /\ req = [q \in Requests |-> Idle]
    /\ trail = [u \in Users |-> [role \in GlobalRoles |-> IF role \in roles[u] THEN 1 ELSE 0]]

\* The handlers: what a request may name.
HandleRegister(q) == \E u \in Users, d \in Devices : Register(q, u, d)
HandleLogin(q) == \E u \in Users, d \in Devices : Login(q, u, d)
HandleRefresh(q) == \E t \in DOMAIN tokens : Refresh(q, t)
HandleUpdateUser(q) == \E a, u \in Users, to \in StatusInputs : UpdateUser(q, a, u, to)
HandleGrantRole(q) == \E a, u \in Users, role \in RoleInputs : GrantRoleRequest(q, a, u, role)
HandleRevokeRole(q) == \E a, u \in Users, role \in RoleInputs : RevokeRoleRequest(q, a, u, role)
HandleReplaceRolePermissions(q) ==
    \E a \in Users, role \in MatrixRoles, set \in MatrixInputs :
        ReplaceRolePermissions(q, a, role, set)

SessionStep(q) ==
    \/ HandleRegister(q) \/ HandleLogin(q) \/ HandleRefresh(q)
    \/ RegisterRole(q) \/ RefreshUser(q) \/ issueSession(q)
    \/ \E d \in Devices : RefreshRotate(q, d)

AccountStep(q) ==
    \/ HandleUpdateUser(q)
    \/ UpdateUserUnrecorded(q) \/ ensureActiveRootRemains(q) \/ UpdateUserRecorded(q)

RoleStep(q) ==
    \/ HandleGrantRole(q) \/ HandleRevokeRole(q)
    \/ GrantRoleTx(q) \/ RevokeRootCount(q) \/ RevokeRole(q)

MatrixStep(q) ==
    \/ HandleReplaceRolePermissions(q)
    \/ rolePermissionsTx(q) \/ ReplaceDelete(q) \/ ReplaceDeleteResumes(q) \/ Replace(q)

Next ==
    \/ \E q \in Requests :
         SessionStep(q) \/ AccountStep(q) \/ RoleStep(q) \/ MatrixStep(q) \/ Abort(q)
    \/ Logout
    \/ \E t \in DOMAIN tokens : TokenExpires(t)

Spec == Init /\ [][Next]_vars

-----------------------------------------------------------------------------
Labels == {"idle", "register", "issue", "refresh_user", "refresh_revoke", "update",
           "update_commit", "grant", "revoke_root", "revoke", "replace",
           "replace_delete", "replace_wait", "replace_insert"}
Args == {None} \cup Devices \cup Roles \cup Statuses

\* The tables and the requests have their types: in particular no role is ever
\* given a permission code outside the catalogue.
TypeOK ==
    /\ status \in [Users -> Statuses \cup {None}]
    /\ roles \in [Users -> SUBSET GlobalRoles]
    /\ perms \in [Roles -> SUBSET allPermissions]
    /\ tokens \in Seq([user : Users, device : Devices, live : BOOLEAN])
    /\ signedIn \subseteq Users
    /\ rootLock \in Requests \cup {None}
    /\ req \in [Requests -> [pc : Labels, user : Users \cup {None}, arg : Args, tok : 0..MaxTokens,
                             set : SUBSET (allPermissions \cup Statuses),
                             del : SUBSET allPermissions]]
    /\ trail \in [Users -> [GlobalRoles -> Int]]

\* However revocations, grants and status changes interleave, somebody is
\* assigned the root role, whatever the status of the account: RevokeRole locks
\* the assignments it counts, so two revocations cannot each count on the
\* assignment the other takes away.
RootAssigned == rootHolders # {}

\* service.go: at least one active root must remain.  Both counts are of
\* assignments, those of disabled accounts included.
ActiveRootRemains == \E u \in rootHolders : status[u] = "active"

\* Replaying the role events of the audit trail gives the assignments: of two
\* requests that grant, or revoke, one role of one user at a time, only the one
\* that changed the row leaves an event, and none changes it without one.
RolesMatchTrail ==
    \A u \in Users, role \in GlobalRoles :
        trail[u][role] = IF role \in roles[u] THEN 1 ELSE 0

\* The permissions that administer the site come from a full-access role alone,
\* and no global role carries a contest permission, whatever sets two
\* administrators write over each other.
DelegationBounded ==
    /\ \A u \in Users :
         ListAccess(u) \cap nonDelegablePermissions # {} => roles[u] \cap fullAccessRoles # {}
    /\ \A role \in GlobalRoles : perms[role] \cap contestScopedPermissions = {}
=============================================================================
