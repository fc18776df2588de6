--------------------------- MODULE AccountsProofs ---------------------------
(***************************************************************************)
(* Machine-checked theorems about Accounts, for every set of users,        *)
(* devices and requests and every input a request may name.                *)
(*                                                                         *)
(* What a request in progress carries from its first query to its          *)
(* transaction is the heart of the matter: RequestInv says, for each label *)
(* of a request, what its earlier steps established and nobody has undone. *)
(***************************************************************************)
EXTENDS Accounts, SequenceTheorems, TLAPS

Token == [user : Users, device : Devices, live : BOOLEAN]
Request == [pc : Labels, user : Users \cup {None}, arg : Args, tok : 0..MaxTokens,
            set : SUBSET (allPermissions \cup Statuses), del : SUBSET allPermissions]

ReplaceLabels == {"replace", "replace_delete", "replace_wait", "replace_insert"}

\* What a request carries at each label.
Carries(r) ==
    /\ r.pc \in {"register", "issue"} => r.user \in Users /\ r.arg \in Devices
    /\ r.pc \in {"refresh_user", "refresh_revoke"} => r.user \in Users
    /\ r.pc \in {"update", "update_commit"} => r.user \in Users /\ r.arg \in Statuses
    /\ r.pc \in {"grant", "revoke", "revoke_root"} => r.user \in Users /\ r.arg \in GlobalRoles
    /\ r.pc \in ReplaceLabels => r.arg \in Roles /\ normalizeRolePermissions(r.arg, r.set)

RequestsCarry == \A q \in Requests : Carries(req[q])

\* A refresh was started with a token that was issued.
RefreshRefers ==
    \A q \in Requests : req[q].pc \in {"refresh_user", "refresh_revoke"} => req[q].tok \in DOMAIN tokens

\* Every role carries delegable permissions of its own scope and no others.
MatrixNormal == \A role \in Roles : normalizeRolePermissions(role, perms[role])

TokensBounded == DOMAIN tokens \subseteq 0 .. MaxTokens

TypeInv == TypeOK /\ RequestsCarry /\ RefreshRefers /\ MatrixNormal /\ TokensBounded

-----------------------------------------------------------------------------
LEMMA TypeInitially == Init => TypeInv
<1> SUFFICES ASSUME Init
             PROVE  TypeInv
  OBVIOUS
<1>1. status \in [Users -> Statuses \cup {None}] /\ roles \in [Users -> SUBSET GlobalRoles]
  BY AccountsAssumption DEF Init, Statuses
<1>2. \A role \in Roles : seededPermissions[role] \subseteq allPermissions
                          /\ normalizeRolePermissions(role, seededPermissions[role])
  BY DEF seededPermissions, Roles, GlobalRoles, ContestRoles, allPermissions, nonDelegablePermissions,
         contestScopedPermissions, normalizeRolePermissions, Delegable, permissionScope, roleScope
<1>3. perms \in [Roles -> SUBSET allPermissions] /\ MatrixNormal
  BY <1>2 DEF Init, seededPermissions, MatrixNormal
<1>4. tokens \in Seq(Token) /\ TokensBounded
  BY DEF Init, TokensBounded
<1>5. req \in [Requests -> Request]
  BY AccountsAssumption DEF Init, Idle, Request, Labels, Args
<1>6. trail \in [Users -> [GlobalRoles -> Int]]
  BY DEF Init
<1>7. RequestsCarry /\ RefreshRefers
  BY DEF Init, Idle, RequestsCarry, RefreshRefers, Carries, ReplaceLabels
<1> QED
  BY <1>1, <1>3, <1>4, <1>5, <1>6, <1>7, AccountsAssumption
  DEF Init, TypeInv, TypeOK, Token, Request

\* A step that moves one request to a place it may be in, and withdraws no token,
\* keeps what is said of the requests.
LEMMA MoveKeepsRequests ==
    ASSUME TypeInv, NEW q \in Requests, NEW r \in Request, Carries(r), Goto(q, r),
           DOMAIN tokens \subseteq DOMAIN tokens',
           r.pc \in {"refresh_user", "refresh_revoke"} => r.tok \in DOMAIN tokens
    PROVE  /\ req' \in [Requests -> Request]
           /\ RequestsCarry'
           /\ RefreshRefers'
<1>1. req \in [Requests -> Request]
  BY DEF TypeInv, TypeOK, Request
<1>2. req' = [req EXCEPT ![q] = r]
  BY DEF Goto
<1> QED
  BY <1>1, <1>2 DEF TypeInv, RequestsCarry, RefreshRefers

LEMMA IdleRequest == Idle \in Request /\ Carries(Idle) /\ Idle.pc = "idle"
BY AccountsAssumption DEF Idle, Request, Labels, Args, Carries, ReplaceLabels

\* A request that ends keeps what is said of the others.
LEMMA FinishKeepsRequests ==
    ASSUME TypeInv, NEW q \in Requests, Finish(q), DOMAIN tokens \subseteq DOMAIN tokens'
    PROVE  /\ req' \in [Requests -> Request]
           /\ RequestsCarry'
           /\ RefreshRefers'
BY IdleRequest, MoveKeepsRequests DEF Finish

\* The request moves to label pc and keeps what it carries.
LEMMA RelabelledRequest ==
    ASSUME NEW r \in Request, NEW pc \in Labels
    PROVE  LET s == [r EXCEPT !.pc = pc]
           IN  s \in Request /\ s.pc = pc /\ s.user = r.user /\ s.arg = r.arg /\ s.set = r.set
               /\ s.tok = r.tok /\ s.del = r.del
BY DEF Request

LEMMA NewRequest ==
    ASSUME NEW pc \in Labels, NEW u \in Users \cup {None}, NEW arg \in Args
    PROVE  LET s == At(pc, u, arg)
           IN  s \in Request /\ s.pc = pc /\ s.user = u /\ s.arg = arg /\ s.set = {} /\ s.tok = 0
               /\ s.del = {}
<1>1. Idle \in Request /\ Idle.set = {} /\ Idle.tok = 0 /\ Idle.del = {}
  BY IdleRequest DEF Idle
<1>2. \A r \in Request :
         LET s == [r EXCEPT !.pc = pc, !.user = u, !.arg = arg]
         IN  s \in Request /\ s.pc = pc /\ s.user = u /\ s.arg = arg /\ s.set = r.set
             /\ s.tok = r.tok /\ s.del = r.del
  BY DEF Request
<1> QED
  BY <1>1, <1>2 DEF At

\* Revoking tokens in place.
LEMMA TokensRewritten ==
    ASSUME tokens \in Seq(Token), NEW f, f = [t \in DOMAIN tokens |-> f[t]],
           \A t \in DOMAIN tokens : f[t] \in Token
    PROVE  f \in Seq(Token) /\ DOMAIN f = DOMAIN tokens
<1>1. Len(tokens) \in Nat /\ DOMAIN tokens = 1 .. Len(tokens)
  BY LenProperties
<1>2. f \in [1 .. Len(tokens) -> Token]
  BY <1>1
<1> QED
  BY <1>1, <1>2, SeqDef

LEMMA TokenRevoked ==
    ASSUME TypeInv, NEW t \in DOMAIN tokens, RevokeRefreshToken(t)
    PROVE  tokens' \in Seq(Token) /\ DOMAIN tokens' = DOMAIN tokens
<1>1. tokens \in Seq(Token)
  BY DEF TypeInv, TypeOK, Token
<1>2. \A s \in DOMAIN tokens : tokens[s] \in Token
  BY <1>1, ElementOfSeq
<1>3. tokens' = [tokens EXCEPT ![t] = [tokens[t] EXCEPT !.live = FALSE]]
  BY DEF RevokeRefreshToken
<1>4. [tokens[t] EXCEPT !.live = FALSE] \in Token
  BY <1>2 DEF Token
<1>5. /\ tokens' = [s \in DOMAIN tokens |-> tokens'[s]]
      /\ \A s \in DOMAIN tokens : tokens'[s] \in Token
  BY <1>2, <1>3, <1>4
<1> QED
  BY <1>1, <1>5, TokensRewritten

LEMMA TokenIssued ==
    ASSUME TypeInv, NEW u \in Users, NEW d \in Devices, CreateRefreshToken(u, d)
    PROVE  tokens' \in Seq(Token) /\ DOMAIN tokens \subseteq DOMAIN tokens' /\ TokensBounded'
<1>1. tokens \in Seq(Token)
  BY DEF TypeInv, TypeOK, Token
<1> DEFINE t == [user |-> u, device |-> d, live |-> TRUE]
<1>2. t \in Token
  BY DEF Token
<1> HIDE DEF t
<1>3. /\ Len(tokens) \in Nat /\ DOMAIN tokens = 1 .. Len(tokens)
      /\ tokens' \in Seq(Token) /\ DOMAIN tokens' = 1 .. Len(tokens')
      /\ Len(tokens') = Len(tokens) + 1
      /\ Len(tokens) < MaxTokens
  BY <1>1, <1>2, LenProperties, AppendProperties DEF CreateRefreshToken, t
<1> QED
  BY <1>3, AccountsAssumption DEF TokensBounded

\* The tables keep their types: everything of TypeInv that is not about requests.
TablesInv ==
    /\ status \in [Users -> Statuses \cup {None}]
    /\ roles \in [Users -> SUBSET GlobalRoles]
    /\ perms \in [Roles -> SUBSET allPermissions]
    /\ tokens \in Seq(Token)
    /\ signedIn \subseteq Users
    /\ rootLock \in Requests \cup {None}
    /\ trail \in [Users -> [GlobalRoles -> Int]]
    /\ MatrixNormal
    /\ TokensBounded

LEMMA TypeInvParts ==
    TypeInv <=> TablesInv /\ req \in [Requests -> Request] /\ RequestsCarry /\ RefreshRefers
BY DEF TypeInv, TypeOK, TablesInv, Token, Request

LEMMA TypeInvPartsNext ==
    TypeInv' <=> TablesInv' /\ req' \in [Requests -> Request] /\ RequestsCarry' /\ RefreshRefers'
BY DEF TypeInv, TypeOK, TablesInv, Token, Request

\* A step that writes no table.
LEMMA TablesUntouched ==
    ASSUME TablesInv, UNCHANGED <<status, roles, perms, tokens, signedIn, trail>>,
           rootLock' \in Requests \cup {None}
    PROVE  TablesInv'
BY DEF TablesInv, MatrixNormal, TokensBounded

LEMMA LockStaysTyped ==
    ASSUME TablesInv, NEW q \in Requests, lockRoots(q) \/ releaseRoots(q) \/ UNCHANGED rootLock
    PROVE  rootLock' \in Requests \cup {None}
BY DEF TablesInv, lockRoots, releaseRoots

\* Granting a role keeps the assignments and the trail typed.
LEMMA GrantTyped ==
    ASSUME TypeInv, NEW u \in Users, NEW role \in GlobalRoles, GrantRole(u, role)
    PROVE  roles' \in [Users -> SUBSET GlobalRoles] /\ trail' \in [Users -> [GlobalRoles -> Int]]
BY DEF TypeInv, TypeOK, GrantRole

-----------------------------------------------------------------------------
(* One lemma for each group of operations: the step keeps TypeInv.         *)

LEMMA SessionTypes ==
    ASSUME TypeInv, NEW q \in Requests, SessionStep(q)
    PROVE  TypeInv'
<1>1. /\ TablesInv /\ req \in [Requests -> Request]
      /\ req[q] \in Request /\ Carries(req[q]) /\ RefreshRefers
  BY TypeInvParts DEF RequestsCarry
<1>2. ASSUME NEW u \in Users, NEW d \in Devices, Register(q, u, d) \/ Login(q, u, d)
      PROVE  TypeInv'
  <2>1. PICK pc \in {"register", "issue"} : Goto(q, At(pc, u, d))
    BY <1>2 DEF Register, Login
  <2>2. At(pc, u, d) \in Request /\ Carries(At(pc, u, d)) /\ At(pc, u, d).pc = pc
    BY <2>1, NewRequest DEF Labels, Args, Carries, ReplaceLabels
  <2>3. TablesInv' /\ UNCHANGED tokens
    BY <1>1, <1>2 DEF Register, CreateUser, Login, TablesInv, Statuses, MatrixNormal, TokensBounded
  <2> QED
    BY <2>1, <2>2, <2>3, MoveKeepsRequests, TypeInvPartsNext
<1>3. ASSUME NEW t \in DOMAIN tokens, Refresh(q, t)
      PROVE  TypeInv'
  <2> DEFINE a == At("refresh_user", tokens[t].user, None)
             r == [a EXCEPT !.tok = t]
  <2>1. tokens[t].user \in Users
    <3>1. tokens \in Seq(Token)
      BY <1>1 DEF TablesInv
    <3>2. tokens[t] \in Token
      BY <3>1, ElementOfSeq
    <3> QED
      BY <3>2 DEF Token
  <2>2. a \in Request /\ a.pc = "refresh_user" /\ a.user = tokens[t].user
    BY <2>1, NewRequest DEF Labels, Args
  <2>3. t \in 0 .. MaxTokens
    BY <1>1 DEF TablesInv, TokensBounded
  <2> HIDE DEF a
  <2>4. r \in Request /\ r.pc = "refresh_user" /\ r.user = tokens[t].user /\ r.tok = t
    BY <2>2, <2>3 DEF Request
  <2>5. Goto(q, r) /\ UNCHANGED <<status, roles, perms, tokens, signedIn, rootLock, trail>>
    BY <1>3 DEF Refresh, a
  <2> HIDE DEF r
  <2>6. Carries(r)
    BY <2>1, <2>4 DEF Carries, ReplaceLabels
  <2> QED
    BY <1>1, <2>4, <2>5, <2>6, MoveKeepsRequests, TypeInvPartsNext, TablesUntouched DEF TablesInv
<1>4. CASE RegisterRole(q)
  <2>1. req[q].user \in Users /\ req[q].arg \in Devices
    BY <1>1, <1>4 DEF RegisterRole, Carries
  <2> DEFINE r == At("issue", req[q].user, req[q].arg)
  <2>2. r \in Request /\ r.pc = "issue" /\ r.user = req[q].user /\ r.arg = req[q].arg
    BY <2>1, NewRequest DEF Labels, Args
  <2>3. Goto(q, r) /\ UNCHANGED <<status, perms, tokens, signedIn, rootLock>>
        /\ GrantRole(req[q].user, "user")
    BY <1>4 DEF RegisterRole
  <2> HIDE DEF r
  <2>4. Carries(r)
    BY <2>1, <2>2 DEF Carries, ReplaceLabels
  <2>5. TablesInv'
    BY <1>1, <2>1, <2>3, GrantTyped DEF TablesInv, MatrixNormal, TokensBounded, GlobalRoles
  <2> QED
    BY <2>2, <2>3, <2>4, <2>5, MoveKeepsRequests, TypeInvPartsNext
<1>5. CASE RefreshUser(q)
  <2>1. UNCHANGED <<status, roles, perms, tokens, signedIn, rootLock, trail>>
    BY <1>5 DEF RefreshUser
  <2>2. TablesInv'
    BY <1>1, <2>1, TablesUntouched DEF TablesInv
  <2>3. CASE Finish(q)
    BY <2>1, <2>2, <2>3, FinishKeepsRequests, TypeInvPartsNext
  <2>4. CASE Goto(q, [req[q] EXCEPT !.pc = "refresh_revoke"])
    <3> DEFINE r == [req[q] EXCEPT !.pc = "refresh_revoke"]
    <3>0. "refresh_revoke" \in Labels
      BY DEF Labels
    <3>1. r \in Request /\ r.pc = "refresh_revoke" /\ r.user = req[q].user /\ r.tok = req[q].tok
      BY <1>1, <3>0, RelabelledRequest
    <3>2. req[q].pc = "refresh_user"
      BY <1>5 DEF RefreshUser
    <3> HIDE DEF r
    <3>3. Carries(r) /\ r.tok \in DOMAIN tokens
      BY <1>1, <3>1, <3>2 DEF Carries, ReplaceLabels, RefreshRefers
    <3>4. Goto(q, r)
      BY <2>4 DEF r
    <3> QED
      BY <2>1, <2>2, <3>1, <3>3, <3>4, MoveKeepsRequests, TypeInvPartsNext
  <2> QED
    BY <1>5, <2>3, <2>4 DEF RefreshUser
<1>6. CASE issueSession(q)
  <2>1. req[q].user \in Users /\ req[q].arg \in Devices
    BY <1>1, <1>6 DEF issueSession, Carries
  <2>2. /\ tokens' \in Seq(Token) /\ DOMAIN tokens \subseteq DOMAIN tokens' /\ TokensBounded'
        /\ Finish(q)
    BY <1>6, <2>1, TokenIssued DEF issueSession
  <2>3. TablesInv'
    BY <1>1, <1>6, <2>1, <2>2 DEF issueSession, IssueAccessToken, TablesInv, MatrixNormal
  <2> QED
    BY <2>2, <2>3, FinishKeepsRequests, TypeInvPartsNext
<1>7. ASSUME NEW d \in Devices, RefreshRotate(q, d)
      PROVE  TypeInv'
  <2>1. req[q].user \in Users /\ req[q].tok \in DOMAIN tokens
    BY <1>1, <1>7 DEF RefreshRotate, Carries, RefreshRefers
  <2> DEFINE r == At("issue", req[q].user, d)
  <2>2. r \in Request /\ r.pc = "issue" /\ r.user = req[q].user /\ r.arg = d
    BY <2>1, NewRequest DEF Labels, Args
  <2>3. Goto(q, r) /\ UNCHANGED <<status, roles, perms, signedIn, rootLock, trail>>
    BY <1>7 DEF RefreshRotate
  <2> HIDE DEF r
  <2>4. Carries(r)
    BY <2>1, <2>2 DEF Carries, ReplaceLabels
  <2>5. tokens' \in Seq(Token) /\ DOMAIN tokens' = DOMAIN tokens
    BY <1>7, <2>1, TokenRevoked DEF RefreshRotate
  <2>6. TablesInv'
    BY <1>1, <2>3, <2>5 DEF TablesInv, MatrixNormal, TokensBounded
  <2> QED
    BY <2>2, <2>3, <2>4, <2>5, <2>6, MoveKeepsRequests, TypeInvPartsNext
<1> QED
  BY <1>2, <1>3, <1>4, <1>5, <1>6, <1>7
  DEF SessionStep, HandleRegister, HandleLogin, HandleRefresh

LEMMA AccountTypes ==
    ASSUME TypeInv, NEW q \in Requests, AccountStep(q)
    PROVE  TypeInv'
<1>1. /\ TablesInv /\ req \in [Requests -> Request]
      /\ req[q] \in Request /\ Carries(req[q])
  BY TypeInvParts DEF RequestsCarry
<1>2. ASSUME NEW a \in Users, NEW u \in Users, NEW to \in StatusInputs, UpdateUser(q, a, u, to)
      PROVE  TypeInv'
  <2> DEFINE s == At("update", u, to)
             r == [s EXCEPT !.set = {GetUserByID(u)}]
  <2>1. to \in Statuses /\ GetUserByID(u) \in Statuses
    BY <1>1, <1>2, AccountsAssumption DEF UpdateUser, GetUserByID, TablesInv
  <2>2. s \in Request /\ s.pc = "update" /\ s.user = u /\ s.arg = to
    BY <2>1, NewRequest DEF Labels, Args
  <2> HIDE DEF s
  <2>3. r \in Request /\ r.pc = "update" /\ r.user = u /\ r.arg = to
    BY <2>1, <2>2 DEF Request
  <2>4. Goto(q, r) /\ UNCHANGED <<status, roles, perms, tokens, signedIn, rootLock, trail>>
    BY <1>2 DEF UpdateUser, s
  <2> HIDE DEF r
  <2>5. Carries(r)
    BY <2>1, <2>3 DEF Carries, ReplaceLabels
  <2> QED
    BY <1>1, <2>3, <2>4, <2>5, MoveKeepsRequests, TypeInvPartsNext, TablesUntouched DEF TablesInv
<1>3. CASE UpdateUserUnrecorded(q) \/ UpdateUserRecorded(q)
  <2>1. req[q].user \in Users /\ req[q].arg \in Statuses
    BY <1>1, <1>3 DEF UpdateUserUnrecorded, UpdateUserRecorded, Carries
  <2>2. /\ Finish(q) /\ UNCHANGED <<roles, perms, tokens, signedIn, trail>>
        /\ status' = [status EXCEPT ![req[q].user] = req[q].arg]
        /\ rootLock' \in Requests \cup {None}
    BY <1>1, <1>3, LockStaysTyped DEF UpdateUserUnrecorded, UpdateUserRecorded, UpdateUserAdminFields
  <2>3. TablesInv'
    BY <1>1, <2>1, <2>2 DEF TablesInv, MatrixNormal, TokensBounded
  <2> QED
    BY <2>2, <2>3, FinishKeepsRequests, TypeInvPartsNext
<1>4. CASE ensureActiveRootRemains(q)
  <2>1. /\ UNCHANGED <<status, roles, perms, tokens, signedIn, trail>>
        /\ lockRoots(q) \/ UNCHANGED rootLock
    BY <1>4 DEF ensureActiveRootRemains
  <2>2. TablesInv'
    BY <1>1, <2>1, LockStaysTyped, TablesUntouched
  <2>3. CASE Finish(q)
    BY <2>1, <2>2, <2>3, FinishKeepsRequests, TypeInvPartsNext
  <2>4. CASE Goto(q, [req[q] EXCEPT !.pc = "update_commit"])
    <3> DEFINE r == [req[q] EXCEPT !.pc = "update_commit"]
    <3>0. "update_commit" \in Labels
      BY DEF Labels
    <3>1. r \in Request /\ r.pc = "update_commit" /\ r.user = req[q].user /\ r.arg = req[q].arg
      BY <1>1, <3>0, RelabelledRequest
    <3>2. req[q].pc = "update"
      BY <1>4 DEF ensureActiveRootRemains
    <3> HIDE DEF r
    <3>3. Carries(r)
      BY <1>1, <3>1, <3>2 DEF Carries, ReplaceLabels
    <3>4. Goto(q, r)
      BY <2>4 DEF r
    <3> QED
      BY <2>1, <2>2, <3>1, <3>3, <3>4, MoveKeepsRequests, TypeInvPartsNext
  <2> QED
    BY <1>4, <2>3, <2>4 DEF ensureActiveRootRemains
<1> QED
  BY <1>2, <1>3, <1>4 DEF AccountStep, HandleUpdateUser

LEMMA RoleTypes ==
    ASSUME TypeInv, NEW q \in Requests, RoleStep(q)
    PROVE  TypeInv'
<1>1. /\ TablesInv /\ req \in [Requests -> Request]
      /\ req[q] \in Request /\ Carries(req[q])
  BY TypeInvParts DEF RequestsCarry
<1>2. ASSUME NEW a \in Users, NEW u \in Users, NEW role \in RoleInputs,
             GrantRoleRequest(q, a, u, role) \/ RevokeRoleRequest(q, a, u, role)
      PROVE  TypeInv'
  <2>1. PICK pc \in {"grant", "revoke", "revoke_root"} : Goto(q, At(pc, u, role))
    BY <1>2 DEF GrantRoleRequest, RevokeRoleRequest
  <2>2. role \in GlobalRoles
    BY <1>2 DEF GrantRoleRequest, RevokeRoleRequest
  <2>3. /\ At(pc, u, role) \in Request /\ At(pc, u, role).pc = pc
        /\ At(pc, u, role).user = u /\ At(pc, u, role).arg = role
    BY <2>2, NewRequest DEF Labels, Args, Roles
  <2>4. Carries(At(pc, u, role))
    BY <2>2, <2>3 DEF Carries, ReplaceLabels
  <2>5. UNCHANGED <<status, roles, perms, tokens, signedIn, rootLock, trail>>
    BY <1>2 DEF GrantRoleRequest, RevokeRoleRequest
  <2> QED
    BY <1>1, <2>1, <2>3, <2>4, <2>5, MoveKeepsRequests, TypeInvPartsNext, TablesUntouched DEF TablesInv
<1>3. CASE GrantRoleTx(q) \/ RevokeRole(q)
  <2>1. req[q].user \in Users /\ req[q].arg \in GlobalRoles
    BY <1>1, <1>3 DEF GrantRoleTx, RevokeRole, Carries
  <2>2. /\ Finish(q) /\ UNCHANGED <<status, perms, tokens, signedIn>>
        /\ rootLock' \in Requests \cup {None}
    BY <1>1, <1>3, LockStaysTyped DEF GrantRoleTx, RevokeRole
  <2>3. roles' \in [Users -> SUBSET GlobalRoles] /\ trail' \in [Users -> [GlobalRoles -> Int]]
    <3>1. CASE GrantRole(req[q].user, req[q].arg)
      BY <2>1, <3>1, GrantTyped
    <3>2. CASE UNCHANGED <<roles, trail>>
      BY <1>1, <3>2 DEF TablesInv
    <3>3. CASE RevokeRole(q)
      <4> DEFINE u == req[q].user
                 role == req[q].arg
      <4>1. \/ /\ roles' = [roles EXCEPT ![u] = @ \ {role}]
               /\ trail' = [trail EXCEPT ![u] = [trail[u] EXCEPT ![role] = @ - 1]]
            \/ UNCHANGED <<roles, trail>>
        BY <3>3 DEF RevokeRole
      <4>2. u \in Users /\ role \in GlobalRoles
        BY <2>1
      <4> HIDE DEF u, role
      <4>3. roles[u] \ {role} \in SUBSET GlobalRoles /\ trail[u] \in [GlobalRoles -> Int]
        BY <1>1, <4>2 DEF TablesInv
      <4>4. [trail[u] EXCEPT ![role] = @ - 1] \in [GlobalRoles -> Int]
        BY <4>2, <4>3
      <4>5. roles \in [Users -> SUBSET GlobalRoles] /\ trail \in [Users -> [GlobalRoles -> Int]]
        BY <1>1 DEF TablesInv
      <4>6. CASE UNCHANGED <<roles, trail>>
        BY <4>5, <4>6
      <4>7. CASE /\ roles' = [roles EXCEPT ![u] = @ \ {role}]
                 /\ trail' = [trail EXCEPT ![u] = [trail[u] EXCEPT ![role] = @ - 1]]
        BY <4>2, <4>3, <4>4, <4>5, <4>7
      <4> QED
        BY <4>1, <4>6, <4>7
    <3> QED
      BY <1>3, <3>1, <3>2, <3>3 DEF GrantRoleTx
  <2>4. TablesInv'
    BY <1>1, <2>2, <2>3 DEF TablesInv, MatrixNormal, TokensBounded
  <2> QED
    BY <2>2, <2>4, FinishKeepsRequests, TypeInvPartsNext
<1>4. CASE RevokeRootCount(q)
  <2>1. /\ UNCHANGED <<status, roles, perms, tokens, signedIn, trail>>
        /\ lockRoots(q) \/ UNCHANGED rootLock
    BY <1>4 DEF RevokeRootCount
  <2>2. TablesInv'
    BY <1>1, <2>1, LockStaysTyped, TablesUntouched
  <2>3. CASE Finish(q)
    BY <2>1, <2>2, <2>3, FinishKeepsRequests, TypeInvPartsNext
  <2>4. CASE Goto(q, [req[q] EXCEPT !.pc = "revoke"])
    <3> DEFINE r == [req[q] EXCEPT !.pc = "revoke"]
    <3>1. r \in Request /\ r.pc = "revoke" /\ r.user = req[q].user /\ r.arg = req[q].arg
      BY <1>1, RelabelledRequest DEF Labels
    <3>2. req[q].pc = "revoke_root"
      BY <1>4 DEF RevokeRootCount
    <3> HIDE DEF r
    <3>3. Carries(r)
      BY <1>1, <3>1, <3>2 DEF Carries, ReplaceLabels
    <3>4. Goto(q, r)
      BY <2>4 DEF r
    <3> QED
      BY <2>1, <2>2, <3>1, <3>3, <3>4, MoveKeepsRequests, TypeInvPartsNext
  <2> QED
    BY <1>4, <2>3, <2>4 DEF RevokeRootCount
<1> QED
  BY <1>2, <1>3, <1>4 DEF RoleStep, HandleGrantRole, HandleRevokeRole

LEMMA MatrixTypes ==
    ASSUME TypeInv, NEW q \in Requests, MatrixStep(q)
    PROVE  TypeInv'
<1>1. /\ TablesInv /\ req \in [Requests -> Request]
      /\ req[q] \in Request /\ Carries(req[q])
  BY TypeInvParts DEF RequestsCarry
<1>2. ASSUME NEW a \in Users, NEW role \in MatrixRoles, NEW set \in MatrixInputs,
             ReplaceRolePermissions(q, a, role, set)
      PROVE  TypeInv'
  <2> DEFINE s == At("replace", None, role)
             r == [s EXCEPT !.set = set]
  <2>1. role \in Roles /\ normalizeRolePermissions(role, set) /\ set \subseteq allPermissions
    BY <1>2, AccountsAssumption DEF ReplaceRolePermissions, normalizeRolePermissions
  <2>2. s \in Request /\ s.pc = "replace" /\ s.arg = role
    BY <2>1, NewRequest DEF Labels, Args
  <2> HIDE DEF s
  <2>3. r \in Request /\ r.pc = "replace" /\ r.arg = role /\ r.set = set
    BY <2>1, <2>2 DEF Request
  <2>4. Goto(q, r) /\ UNCHANGED <<status, roles, perms, tokens, signedIn, rootLock, trail>>
    BY <1>2 DEF ReplaceRolePermissions, s
  <2> HIDE DEF r
  <2>5. Carries(r)
    BY <2>1, <2>3 DEF Carries, ReplaceLabels
  <2> QED
    BY <1>1, <2>3, <2>4, <2>5, MoveKeepsRequests, TypeInvPartsNext, TablesUntouched DEF TablesInv
<1>3. CASE rolePermissionsTx(q) \/ ReplaceDelete(q) \/ ReplaceDeleteResumes(q)
  <2>1. /\ UNCHANGED <<status, roles, perms, tokens, signedIn, rootLock, trail>>
        /\ req[q].pc \in ReplaceLabels
    BY <1>3 DEF rolePermissionsTx, ReplaceDelete, ReplaceDeleteResumes, ReplaceLabels
  <2>2. TablesInv'
    BY <1>1, <2>1, TablesUntouched DEF TablesInv
  <2>3. req[q].arg \in Roles /\ perms[req[q].arg] \subseteq allPermissions
        /\ req[q].del \subseteq allPermissions
    BY <1>1, <2>1 DEF Carries, TablesInv, Request
  <2>4. Finish(q) \/ \E pc \in ReplaceLabels, del \in SUBSET allPermissions :
                       Goto(q, [req[q] EXCEPT !.pc = pc, !.del = del])
    <3>1. CASE rolePermissionsTx(q)
      <4>1. [req[q] EXCEPT !.pc = "replace_delete"]
              = [req[q] EXCEPT !.pc = "replace_delete", !.del = req[q].del]
        BY <1>1 DEF Request
      <4> QED
        BY <2>3, <3>1, <4>1 DEF rolePermissionsTx, ReplaceLabels
    <3>2. CASE ReplaceDelete(q)
      <4>1. PICK pc \in {"replace_wait", "replace_insert"} :
               Goto(q, [req[q] EXCEPT !.del = perms[req[q].arg], !.pc = pc])
        BY <3>2 DEF ReplaceDelete
      <4>2. [req[q] EXCEPT !.del = perms[req[q].arg], !.pc = pc]
              = [req[q] EXCEPT !.pc = pc, !.del = perms[req[q].arg]]
        BY <1>1 DEF Request
      <4> QED
        BY <2>3, <4>1, <4>2 DEF ReplaceLabels
    <3>3. CASE ReplaceDeleteResumes(q)
      <4>1. req[q].del \cap perms[req[q].arg] \in SUBSET allPermissions
        BY <2>3
      <4>2. Goto(q, [req[q] EXCEPT !.pc = "replace_insert", !.del = req[q].del \cap perms[req[q].arg]])
        BY <3>3 DEF ReplaceDeleteResumes
      <4> QED
        BY <4>1, <4>2 DEF ReplaceLabels
    <3> QED
      BY <1>3, <3>1, <3>2, <3>3
  <2>5. CASE Finish(q)
    BY <2>1, <2>2, <2>5, FinishKeepsRequests, TypeInvPartsNext
  <2>6. ASSUME NEW pc \in ReplaceLabels, NEW del \in SUBSET allPermissions,
               Goto(q, [req[q] EXCEPT !.pc = pc, !.del = del])
        PROVE  TypeInv'
    <3> DEFINE r == [req[q] EXCEPT !.pc = pc, !.del = del]
    <3>1. pc \in Labels
      BY DEF Labels, ReplaceLabels
    <3>2. r \in Request /\ r.pc = pc /\ r.arg = req[q].arg /\ r.set = req[q].set
      BY <1>1, <3>1 DEF Request
    <3>3. Goto(q, r)
      BY <2>6
    <3> HIDE DEF r
    <3>4. Carries(r) /\ r.pc \notin {"refresh_user", "refresh_revoke"}
      BY <1>1, <2>1, <3>2 DEF Carries, ReplaceLabels
    <3> QED
      BY <2>1, <2>2, <3>2, <3>3, <3>4, MoveKeepsRequests, TypeInvPartsNext
  <2> QED
    BY <2>4, <2>5, <2>6
<1>4. CASE Replace(q)
  <2> DEFINE role == req[q].arg
             new == (perms[role] \ req[q].del) \cup req[q].set
  <2>1. role \in Roles /\ normalizeRolePermissions(role, req[q].set)
    BY <1>1, <1>4 DEF Replace, Carries, ReplaceLabels
  <2>2. normalizeRolePermissions(role, new) /\ new \subseteq allPermissions
    <3>1. normalizeRolePermissions(role, perms[role])
      BY <1>1, <2>1 DEF TablesInv, MatrixNormal
    <3> QED
      BY <2>1, <3>1 DEF normalizeRolePermissions
  <2>3. /\ Finish(q) /\ UNCHANGED <<status, roles, tokens, signedIn, rootLock, trail>>
        /\ perms' = perms \/ perms' = [perms EXCEPT ![role] = new]
    BY <1>4 DEF Replace
  <2> HIDE DEF role, new
  <2>4. perms' \in [Roles -> SUBSET allPermissions] /\ MatrixNormal'
    BY <1>1, <2>1, <2>2, <2>3 DEF TablesInv, MatrixNormal
  <2>5. TablesInv'
    BY <1>1, <2>3, <2>4 DEF TablesInv, TokensBounded
  <2> QED
    BY <2>3, <2>5, FinishKeepsRequests, TypeInvPartsNext
<1> QED
  BY <1>2, <1>3, <1>4 DEF MatrixStep, HandleReplaceRolePermissions

\* Signing out and expiry: tokens are revoked in place.
LEMMA TokenTypes ==
    ASSUME TypeInv, Logout \/ \E t \in DOMAIN tokens : TokenExpires(t)
    PROVE  TypeInv'
<1>1. tokens \in Seq(Token) /\ \A t \in DOMAIN tokens : tokens[t] \in Token
  <2>1. tokens \in Seq(Token)
    BY TypeInvParts DEF TablesInv
  <2> QED
    BY <2>1, ElementOfSeq
<1>2. UNCHANGED <<status, roles, perms, signedIn, rootLock, req, trail>>
  BY DEF Logout, TokenExpires
<1>3. tokens' \in Seq(Token) /\ DOMAIN tokens' = DOMAIN tokens
  <2>1. ASSUME NEW t \in DOMAIN tokens, RevokeRefreshToken(t)
        PROVE  tokens' \in Seq(Token) /\ DOMAIN tokens' = DOMAIN tokens
    BY <2>1, TokenRevoked
  <2>2. ASSUME NEW u \in Users, NEW d \in Devices, RevokeUserDeviceRefreshTokens(u, d)
        PROVE  tokens' \in Seq(Token) /\ DOMAIN tokens' = DOMAIN tokens
    <3>1. \A t \in DOMAIN tokens : [tokens[t] EXCEPT !.live = FALSE] \in Token
      BY <1>1 DEF Token
    <3>2. /\ tokens' = [t \in DOMAIN tokens |-> tokens'[t]]
          /\ \A t \in DOMAIN tokens : tokens'[t] \in Token
      BY <1>1, <2>2, <3>1 DEF RevokeUserDeviceRefreshTokens
    <3> QED
      BY <1>1, <3>2, TokensRewritten
  <2> QED
    BY <2>1, <2>2 DEF Logout, TokenExpires, RevokeRefreshToken
<1>4. TablesInv'
  BY <1>2, <1>3, TypeInvParts DEF TablesInv, MatrixNormal, TokensBounded
<1> QED
  BY <1>2, <1>3, <1>4, TypeInvParts, TypeInvPartsNext DEF RequestsCarry, RefreshRefers

LEMMA AbortTypes ==
    ASSUME TypeInv, NEW q \in Requests, Abort(q)
    PROVE  TypeInv'
<1>1. TablesInv
  BY TypeInvParts
<1>2. TablesInv'
  BY <1>1, LockStaysTyped, TablesUntouched DEF Abort
<1> QED
  BY <1>2, FinishKeepsRequests, TypeInvPartsNext DEF Abort

LEMMA TypeStep == TypeInv /\ [Next]_vars => TypeInv'
<1> SUFFICES ASSUME TypeInv, [Next]_vars
             PROVE  TypeInv'
  OBVIOUS
<1>1. CASE UNCHANGED vars
  BY <1>1, TypeInvParts, TypeInvPartsNext
  DEF vars, TablesInv, MatrixNormal, TokensBounded, RequestsCarry, RefreshRefers
<1> QED
  BY <1>1, SessionTypes, AccountTypes, RoleTypes, MatrixTypes, AbortTypes, TokenTypes DEF Next

\* The tables and the requests keep their types, and no role is ever given a
\* permission outside the catalogue: a request carries from its checks to its
\* transaction only what the checks let through.
THEOREM TypeCorrect == Spec => []TypeOK
<1>1. TypeInv => TypeOK
  BY DEF TypeInv
<1> QED
  BY <1>1, TypeInitially, TypeStep, PTL DEF Spec

-----------------------------------------------------------------------------
(* What a step does to the role assignments                                *)

\* Only a grant that inserts a row, or a revocation, changes the assignments or
\* the trail.
RolesKept == UNCHANGED <<roles, trail>>
RoleGranted == \E u \in Users, role \in GlobalRoles : GrantRole(u, role)

LEMMA RoleWrites ==
    ASSUME TypeInv, [Next]_vars
    PROVE  RolesKept \/ RoleGranted \/ \E q \in Requests : RevokeRole(q)
<1> USE DEF RolesKept
<1>1. ASSUME NEW q \in Requests
      PROVE  Carries(req[q])
  BY DEF TypeInv, RequestsCarry
<1>2. ASSUME NEW q \in Requests, SessionStep(q)
      PROVE  RolesKept \/ RoleGranted
  <2>1. CASE RegisterRole(q)
    <3>1. req[q].user \in Users /\ GrantRole(req[q].user, "user") /\ "user" \in GlobalRoles
      BY <1>1, <2>1 DEF RegisterRole, Carries, GlobalRoles
    <3> QED
      BY <3>1 DEF RoleGranted
  <2>2. CASE ~RegisterRole(q)
    BY <1>2, <2>2 DEF SessionStep, HandleRegister, HandleLogin, HandleRefresh, Register, Login,
                      Refresh, RefreshUser, issueSession, RefreshRotate
  <2> QED
    BY <2>1, <2>2
<1>3. ASSUME NEW q \in Requests, RoleStep(q)
      PROVE  RolesKept \/ RoleGranted \/ RevokeRole(q)
  <2>1. CASE GrantRoleTx(q)
    <3>1. req[q].user \in Users /\ req[q].arg \in GlobalRoles
      BY <1>1, <2>1 DEF GrantRoleTx, Carries
    <3> QED
      BY <2>1, <3>1 DEF GrantRoleTx, RoleGranted
  <2>2. CASE ~GrantRoleTx(q)
    BY <1>3, <2>2 DEF RoleStep, HandleGrantRole, HandleRevokeRole, GrantRoleRequest,
                      RevokeRoleRequest, RevokeRootCount
  <2> QED
    BY <2>1, <2>2
<1>4. ASSUME NEW q \in Requests, AccountStep(q) \/ MatrixStep(q) \/ Abort(q)
      PROVE  RolesKept
  BY <1>4 DEF AccountStep, HandleUpdateUser, UpdateUser, UpdateUserUnrecorded, ensureActiveRootRemains,
              UpdateUserRecorded, MatrixStep, HandleReplaceRolePermissions, ReplaceRolePermissions,
              rolePermissionsTx, ReplaceDelete, ReplaceDeleteResumes, Replace, Abort
<1>5. ASSUME Logout \/ \E t \in DOMAIN tokens : TokenExpires(t)
      PROVE  RolesKept
  BY <1>5 DEF Logout, TokenExpires
<1> QED
  BY <1>2, <1>3, <1>4, <1>5 DEF Next, vars

-----------------------------------------------------------------------------
(* The trail                                                               *)

LEMMA TrailInitially == Init => RolesMatchTrail
BY DEF Init, RolesMatchTrail

LEMMA TrailStep == TypeInv /\ RolesMatchTrail /\ [Next]_vars => RolesMatchTrail'
<1> SUFFICES ASSUME TypeInv, RolesMatchTrail, [Next]_vars
             PROVE  RolesMatchTrail'
  OBVIOUS
<1>1. roles \in [Users -> SUBSET GlobalRoles] /\ trail \in [Users -> [GlobalRoles -> Int]]
  BY DEF TypeInv, TypeOK
<1>2. CASE RolesKept
  BY <1>2 DEF RolesKept, RolesMatchTrail
<1>3. CASE RoleGranted
  <2>1. PICK u \in Users, role \in GlobalRoles : GrantRole(u, role)
    BY <1>3 DEF RoleGranted
  <2>2. /\ role \notin roles[u]
        /\ roles' = [roles EXCEPT ![u] = roles[u] \cup {role}]
        /\ trail' = [trail EXCEPT ![u] = [trail[u] EXCEPT ![role] = trail[u][role] + 1]]
    BY <2>1 DEF GrantRole
  <2> QED
    BY <1>1, <2>2 DEF RolesMatchTrail
<1>4. ASSUME NEW q \in Requests, RevokeRole(q)
      PROVE  RolesMatchTrail'
  <2> DEFINE u == req[q].user
             role == req[q].arg
  <2>1. u \in Users /\ role \in GlobalRoles
    BY <1>4 DEF RevokeRole, TypeInv, RequestsCarry, Carries
  <2>2. \/ /\ role \in roles[u]
           /\ roles' = [roles EXCEPT ![u] = roles[u] \ {role}]
           /\ trail' = [trail EXCEPT ![u] = [trail[u] EXCEPT ![role] = trail[u][role] - 1]]
        \/ UNCHANGED <<roles, trail>>
    BY <1>4 DEF RevokeRole
  <2> HIDE DEF u, role
  <2> QED
    BY <1>1, <2>1, <2>2 DEF RolesMatchTrail
<1> QED
  BY <1>2, <1>3, <1>4, RoleWrites

\* Replaying the audit trail gives the role assignments: GrantRole and RevokeRole
\* write the row and its event in one transaction, and a request that changes no
\* row leaves no event.
THEOREM TrailReplays == Spec => []RolesMatchTrail
<1>1. Init => TypeInv /\ RolesMatchTrail
  BY TypeInitially, TrailInitially
<1>2. TypeInv /\ RolesMatchTrail /\ [Next]_vars => (TypeInv /\ RolesMatchTrail)'
  BY TypeStep, TrailStep
<1> QED
  BY <1>1, <1>2, PTL DEF Spec

-----------------------------------------------------------------------------
(* The matrix                                                              *)

LEMMA NormalMatrixBounds ==
    ASSUME TypeInv
    PROVE  DelegationBounded
<1>1. ASSUME NEW u \in Users, roles[u] \cap fullAccessRoles = {}
      PROVE  ListAccess(u) \cap nonDelegablePermissions = {}
  <2>1. ListAccess(u) = joinedPermissions(u)
    BY <1>1 DEF ListAccess, expandFullAccess, IsFullAccessRole
  <2>2. \A role \in roles[u] : perms[role] \cap nonDelegablePermissions = {}
    BY DEF TypeInv, TypeOK, MatrixNormal, normalizeRolePermissions, Delegable, Roles
  <2> QED
    BY <2>1, <2>2 DEF joinedPermissions
<1>2. ASSUME NEW role \in GlobalRoles
      PROVE  perms[role] \cap contestScopedPermissions = {}
  <2>1. roleScope(role) = "global" /\ role \in Roles
    BY DEF roleScope, GlobalRoles, ContestRoles, Roles
  <2> QED
    BY <2>1 DEF TypeInv, MatrixNormal, normalizeRolePermissions, permissionScope
<1> QED
  BY <1>1, <1>2 DEF DelegationBounded

\* No sequence of replacements, however their DELETEs and INSERTs interleave,
\* hands a non-delegable permission to a role without full access, or a contest
\* permission to a global role: Replace leaves only rows that were there and
\* rows normalizeRolePermissions accepted for that role.
THEOREM DelegationStaysBounded == Spec => []DelegationBounded
BY NormalMatrixBounds, TypeInitially, TypeStep, PTL DEF Spec

-----------------------------------------------------------------------------
(* The last root                                                           *)

\* A request about to revoke a root assignment holds the lock on them, and has
\* counted another holder.
RevokerLeavesOne ==
    \A q \in Requests :
        req[q].pc = "revoke" /\ req[q].arg = "root" =>
            rootLock = q /\ \E u \in Users : u # req[q].user /\ "root" \in roles[u]

RootInv == RootAssigned /\ RevokerLeavesOne

LEMMA RootInitially == Init => RootInv
<1> SUFFICES ASSUME Init
             PROVE  RootInv
  OBVIOUS
<1>1. RootAssigned
  BY AccountsAssumption DEF Init, RootAssigned, rootHolders
<1>2. RevokerLeavesOne
  BY DEF Init, RevokerLeavesOne, Idle
<1> QED
  BY <1>1, <1>2 DEF RootInv

\* A step of request q that does not take it into the revocation of a root:
\* it moves no other request and takes the lock from none.
Quiet(q) ==
    /\ req' = [req EXCEPT ![q] = req'[q]]
    /\ req'[q].pc = "revoke" => req'[q].arg # "root"
    /\ rootLock' = rootLock \/ rootLock \in {None, q}

LEMMA QuietGoto ==
    ASSUME TypeInv, NEW q \in Requests, NEW r, Goto(q, r), r.pc = "revoke" => r.arg # "root",
           rootLock' = rootLock \/ rootLock \in {None, q}
    PROVE  Quiet(q)
<1>1. req \in [Requests -> Request]
  BY TypeInvParts
<1> QED
  BY <1>1 DEF Goto, Quiet

LEMMA QuietFinish ==
    ASSUME TypeInv, NEW q \in Requests, Finish(q), rootLock' = rootLock \/ rootLock \in {None, q}
    PROVE  Quiet(q)
BY QuietGoto DEF Finish, Idle

\* A new request, at any label but a revocation of the root role.
LEMMA QuietStart ==
    ASSUME TypeInv, NEW q \in Requests, UNCHANGED rootLock,
           NEW pc, NEW u, NEW arg, pc = "revoke" => arg # "root", Goto(q, At(pc, u, arg))
    PROVE  Quiet(q)
<1>1. At(pc, u, arg).pc = pc /\ At(pc, u, arg).arg = arg
  BY DEF At, Idle
<1> QED
  BY <1>1, QuietGoto

LEMMA SessionsAreQuiet ==
    ASSUME TypeInv, NEW q \in Requests, SessionStep(q)
    PROVE  Quiet(q)
<1>1. req[q] \in Request
  BY TypeInvParts
<1>2. ASSUME NEW u \in Users, NEW d \in Devices, Register(q, u, d) \/ Login(q, u, d)
      PROVE  Quiet(q)
  BY <1>2, QuietStart DEF Register, Login
<1>3. ASSUME NEW t \in DOMAIN tokens, Refresh(q, t)
      PROVE  Quiet(q)
  <2> DEFINE r == [At("refresh_user", tokens[t].user, None) EXCEPT !.tok = t]
  <2>1. r.pc = "refresh_user"
    BY DEF At, Idle
  <2>2. Goto(q, r) /\ UNCHANGED rootLock
    BY <1>3 DEF Refresh
  <2> QED
    BY <2>1, <2>2, QuietGoto
<1>4. CASE RegisterRole(q)
  BY <1>4, QuietStart DEF RegisterRole
<1>5. CASE RefreshUser(q)
  <2> DEFINE r == [req[q] EXCEPT !.pc = "refresh_revoke"]
  <2>1. r.pc = "refresh_revoke"
    BY <1>1 DEF Request
  <2>2. (Goto(q, r) \/ Finish(q)) /\ UNCHANGED rootLock
    BY <1>5 DEF RefreshUser
  <2> QED
    BY <2>1, <2>2, QuietGoto, QuietFinish
<1>6. CASE issueSession(q)
  BY <1>6, QuietFinish DEF issueSession
<1>7. ASSUME NEW d \in Devices, RefreshRotate(q, d)
      PROVE  Quiet(q)
  BY <1>7, QuietStart DEF RefreshRotate
<1> QED
  BY <1>2, <1>3, <1>4, <1>5, <1>6, <1>7
  DEF SessionStep, HandleRegister, HandleLogin, HandleRefresh

LEMMA AccountsAreQuiet ==
    ASSUME TypeInv, NEW q \in Requests, AccountStep(q)
    PROVE  Quiet(q)
<1>1. req[q] \in Request
  BY TypeInvParts
<1>2. ASSUME NEW a \in Users, NEW u \in Users, NEW to \in StatusInputs, UpdateUser(q, a, u, to)
      PROVE  Quiet(q)
  <2> DEFINE r == [At("update", u, to) EXCEPT !.set = {GetUserByID(u)}]
  <2>1. r.pc = "update"
    BY DEF At, Idle
  <2>2. Goto(q, r) /\ UNCHANGED rootLock
    BY <1>2 DEF UpdateUser
  <2> QED
    BY <2>1, <2>2, QuietGoto
<1>3. CASE UpdateUserUnrecorded(q) \/ UpdateUserRecorded(q)
  BY <1>3, QuietFinish DEF UpdateUserUnrecorded, UpdateUserRecorded, releaseRoots
<1>4. CASE ensureActiveRootRemains(q)
  <2> DEFINE r == [req[q] EXCEPT !.pc = "update_commit"]
  <2>1. r.pc = "update_commit"
    BY <1>1 DEF Request
  <2>2. Goto(q, r) \/ Finish(q)
    BY <1>4 DEF ensureActiveRootRemains
  <2>3. rootLock' = rootLock \/ rootLock \in {None, q}
    BY <1>4 DEF ensureActiveRootRemains, lockRoots
  <2> QED
    BY <2>1, <2>2, <2>3, QuietGoto, QuietFinish
<1> QED
  BY <1>2, <1>3, <1>4 DEF AccountStep, HandleUpdateUser

LEMMA RolesAreQuiet ==
    ASSUME TypeInv, NEW q \in Requests, RoleStep(q), ~RevokeRootCount(q)
    PROVE  Quiet(q)
<1>1. ASSUME NEW a \in Users, NEW u \in Users, NEW role \in RoleInputs,
             GrantRoleRequest(q, a, u, role) \/ RevokeRoleRequest(q, a, u, role)
      PROVE  Quiet(q)
  <2>1. PICK pc \in {"grant", "revoke", "revoke_root"} :
           Goto(q, At(pc, u, role)) /\ (pc = "revoke" => role # "root")
    BY <1>1 DEF GrantRoleRequest, RevokeRoleRequest
  <2> QED
    BY <1>1, <2>1, QuietStart DEF GrantRoleRequest, RevokeRoleRequest
<1>2. CASE GrantRoleTx(q) \/ RevokeRole(q)
  BY <1>2, QuietFinish DEF GrantRoleTx, RevokeRole, releaseRoots
<1> QED
  BY <1>1, <1>2 DEF RoleStep, HandleGrantRole, HandleRevokeRole

LEMMA MatrixIsQuiet ==
    ASSUME TypeInv, NEW q \in Requests, MatrixStep(q)
    PROVE  Quiet(q)
<1>1. req[q] \in Request
  BY TypeInvParts
<1>2. UNCHANGED rootLock
  BY DEF MatrixStep, HandleReplaceRolePermissions, ReplaceRolePermissions, rolePermissionsTx,
         ReplaceDelete, ReplaceDeleteResumes, Replace
<1>3. ASSUME NEW a \in Users, NEW role \in MatrixRoles, NEW set \in MatrixInputs,
             ReplaceRolePermissions(q, a, role, set)
      PROVE  Quiet(q)
  <2> DEFINE r == [At("replace", None, role) EXCEPT !.set = set]
  <2>1. r.pc = "replace"
    BY DEF At, Idle
  <2> QED
    BY <1>2, <1>3, <2>1, QuietGoto DEF ReplaceRolePermissions
<1>4. CASE rolePermissionsTx(q)
  <2> DEFINE r == [req[q] EXCEPT !.pc = "replace_delete"]
  <2>1. r.pc = "replace_delete"
    BY <1>1 DEF Request
  <2>2. Goto(q, r) \/ Finish(q)
    BY <1>4 DEF rolePermissionsTx
  <2> QED
    BY <1>2, <2>1, <2>2, QuietGoto, QuietFinish
<1>5. CASE ReplaceDelete(q)
  <2>1. PICK pc \in {"replace_wait", "replace_insert"} :
           Goto(q, [req[q] EXCEPT !.del = perms[req[q].arg], !.pc = pc])
    BY <1>5 DEF ReplaceDelete
  <2>2. [req[q] EXCEPT !.del = perms[req[q].arg], !.pc = pc].pc = pc
    BY <1>1 DEF Request
  <2> QED
    BY <1>2, <2>1, <2>2, QuietGoto
<1>6. CASE ReplaceDeleteResumes(q)
  <2> DEFINE r == [req[q] EXCEPT !.pc = "replace_insert", !.del = @ \cap perms[req[q].arg]]
  <2>1. r.pc = "replace_insert"
    BY <1>1 DEF Request
  <2>2. Goto(q, r)
    BY <1>6 DEF ReplaceDeleteResumes
  <2> QED
    BY <1>2, <2>1, <2>2, QuietGoto
<1>7. CASE Replace(q)
  BY <1>2, <1>7, QuietFinish DEF Replace
<1> QED
  BY <1>3, <1>4, <1>5, <1>6, <1>7 DEF MatrixStep, HandleReplaceRolePermissions

\* Taking the lock on the root assignments for a revocation: another one is left.
LEMMA CountFindsAnother ==
    ASSUME TypeInv, NEW q \in Requests, RevokeRootCount(q), ~Quiet(q)
    PROVE  /\ rootLock = None /\ rootLock' = q
           /\ req' = [req EXCEPT ![q] = req'[q]]
           /\ req'[q].user = req[q].user
           /\ UNCHANGED roles
           /\ \E u \in Users : u # req[q].user /\ "root" \in roles[u]
<1>1. req \in [Requests -> Request]
  BY TypeInvParts
<1>2. ~Finish(q)
  BY QuietFinish DEF RevokeRootCount, lockRoots
<1>3. /\ req[q].user \in rootHolders /\ rootHolders # {req[q].user}
      /\ lockRoots(q) /\ Goto(q, [req[q] EXCEPT !.pc = "revoke"])
      /\ UNCHANGED roles
  BY <1>2 DEF RevokeRootCount
<1>4. [req[q] EXCEPT !.pc = "revoke"].user = req[q].user
  BY <1>1 DEF Request
<1>5. req' = [req EXCEPT ![q] = req'[q]] /\ req'[q].user = req[q].user
  BY <1>1, <1>3, <1>4 DEF Goto
<1> QED
  BY <1>3, <1>5 DEF lockRoots, rootHolders

LEMMA RootStep == TypeInv /\ RootInv /\ [Next]_vars => RootInv'
<1> SUFFICES ASSUME TypeInv, RootInv, [Next]_vars
             PROVE  RootInv'
  OBVIOUS
<1>1. /\ req \in [Requests -> Request] /\ None \notin Requests
      /\ roles \in [Users -> SUBSET GlobalRoles]
  BY TypeInvParts, AccountsAssumption DEF TablesInv
<1>2. CASE \E q \in Requests : RevokeRole(q) /\ req[q].arg = "root"
  <2>1. PICK q \in Requests : RevokeRole(q) /\ req[q].arg = "root"
    BY <1>2
  <2>2. Quiet(q) /\ req[q].pc = "revoke"
    BY <2>1, RolesAreQuiet DEF RoleStep, RevokeRole, RevokeRootCount
  <2>3. rootLock = q
    BY <2>1, <2>2 DEF RootInv, RevokerLeavesOne
  <2>4. \A o \in Requests : req'[o].pc = "revoke" => req'[o].arg # "root"
    BY <1>1, <2>2, <2>3 DEF Quiet, RootInv, RevokerLeavesOne
  <2>5. PICK u \in Users : u # req[q].user /\ "root" \in roles[u]
    BY <2>1, <2>2 DEF RootInv, RevokerLeavesOne
  <2>6. roles'[u] = roles[u]
    BY <1>1, <2>1, <2>5 DEF RevokeRole
  <2> QED
    BY <2>4, <2>5, <2>6 DEF RootInv, RootAssigned, rootHolders, RevokerLeavesOne
<1>3. CASE ~\E q \in Requests : RevokeRole(q) /\ req[q].arg = "root"
  <2>1. \A u \in Users : "root" \in roles[u] => "root" \in roles'[u]
    <3>1. CASE RolesKept
      BY <3>1 DEF RolesKept
    <3>2. CASE RoleGranted
      BY <1>1, <3>2 DEF RoleGranted, GrantRole
    <3>3. ASSUME NEW q \in Requests, RevokeRole(q)
          PROVE  \A u \in Users : "root" \in roles[u] => "root" \in roles'[u]
      <4>1. req[q].arg # "root"
        BY <1>3, <3>3
      <4>2. roles' = roles \/ roles' = [roles EXCEPT ![req[q].user] = @ \ {req[q].arg}]
        BY <3>3 DEF RevokeRole
      <4> QED
        BY <1>1, <4>1, <4>2
    <3> QED
      BY <3>1, <3>2, <3>3, RoleWrites
  <2>2. RootAssigned'
    BY <2>1 DEF RootInv, RootAssigned, rootHolders
  <2>3. ASSUME NEW q \in Requests, Quiet(q)
        PROVE  RevokerLeavesOne'
    <3>1. \A o \in Requests : req'[o].pc = "revoke" /\ req'[o].arg = "root" =>
                                 o # q /\ req'[o] = req[o]
      BY <1>1, <2>3 DEF Quiet
    <3>2. \A o \in Requests : o # q /\ rootLock = o => rootLock' = o
      BY <1>1, <2>3 DEF Quiet
    <3> QED
      BY <2>1, <3>1, <3>2 DEF RootInv, RevokerLeavesOne
  <2>4. ASSUME NEW q \in Requests, RevokeRootCount(q), ~Quiet(q)
        PROVE  RevokerLeavesOne'
    <3>1. /\ rootLock = None /\ rootLock' = q
          /\ req' = [req EXCEPT ![q] = req'[q]]
          /\ req'[q].user = req[q].user
          /\ UNCHANGED roles
          /\ \E u \in Users : u # req[q].user /\ "root" \in roles[u]
      BY <2>4, CountFindsAnother
    <3> QED
      BY <1>1, <3>1 DEF RootInv, RevokerLeavesOne
  <2>5. ASSUME UNCHANGED vars \/ Logout \/ \E t \in DOMAIN tokens : TokenExpires(t)
        PROVE  RevokerLeavesOne'
    <3>1. UNCHANGED <<req, rootLock, roles>>
      BY <2>5 DEF vars, Logout, TokenExpires
    <3> QED
      BY <3>1 DEF RootInv, RevokerLeavesOne
  <2>6. RevokerLeavesOne'
    BY <2>3, <2>4, <2>5, SessionsAreQuiet, AccountsAreQuiet, RolesAreQuiet, MatrixIsQuiet, QuietFinish
    DEF Next, Abort, releaseRoots
  <2> QED
    BY <2>2, <2>6 DEF RootInv
<1> QED
  BY <1>2, <1>3

\* However revocations, grants and status changes interleave, some account is
\* assigned the root role, whatever its status: a revocation of a root that has counted the others keeps the
\* lock on those rows until it commits, so its count stays true.
THEOREM RootStaysAssigned == Spec => []RootAssigned
<1>1. Init => TypeInv /\ RootInv
  BY TypeInitially, RootInitially
<1>2. TypeInv /\ RootInv /\ [Next]_vars => (TypeInv /\ RootInv)'
  BY TypeStep, RootStep
<1>3. RootInv => RootAssigned
  BY DEF RootInv
<1> QED
  BY <1>1, <1>2, <1>3, PTL DEF Spec
=============================================================================
