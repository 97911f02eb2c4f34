-------------------------------- MODULE Accounts --------------------------------
(***************************************************************************)
(* Users, their sessions (families of refresh tokens) and the staff that   *)
(* suspends them or changes their roles.  Requests interleave at their     *)
(* awaits.  A transaction that locks a token row is two steps; an UPDATE   *)
(* takes the rows its snapshot shows and waits for the locked ones, as     *)
(* PostgreSQL does at READ COMMITTED: it does not see a row that commits   *)
(* while it waits.                                                         *)
(***************************************************************************)
EXTENDS Integers, FiniteSets

CONSTANTS
  Users,
  Requests,     \* requests, each served once
  StartRoles,   \* the platform role of each user at the start, or "none"
  MaxTokens     \* bound on the refresh tokens issued

VARIABLES
  users,    \* role and status of each registered user
  tokens,   \* refresh_tokens, by id
  issued,   \* the last id given to a token
  req,      \* where each request is
  ended,    \* families that a completed request has ended
  barred    \* requests whose user has been suspended from start to now

accountsVars == <<users, tokens, issued, req, ended, barred>>

PlatformPermissions == {"users:manage", "roles:manage"}

\* The permissions that the handlers below ask for.
PLATFORM_ROLE_PERMISSIONS ==
  [user |-> {}, support |-> {}, finance |-> {},
   risk |-> {"users:manage"}, admin |-> PlatformPermissions]

Roles == DOMAIN PLATFORM_ROLE_PERMISSIONS
Statuses == {"active", "suspended"}
NoUser == [role |-> "none", status |-> "none"]

ASSUME AccountsAssumption ==
  /\ MaxTokens \in Nat /\ IsFiniteSet(Users)
  /\ StartRoles \in [Users -> Roles \union {"none"}]

Idle == [at |-> "idle"]
Done(u, got) == [at |-> "done", user |-> u, got |-> got]

\* Every user of StartRoles is registered and active; nobody has a session.
AccountsInit ==
  /\ users = [u \in Users |->
               IF StartRoles[u] = "none" THEN NoUser
               ELSE [role |-> StartRoles[u], status |-> "active"]]
  /\ tokens = << >>
  /\ issued = 0
  /\ req = [r \in Requests |-> Idle]
  /\ ended = {}
  /\ barred = {}

Active(u) == users[u].status = "active"
ActiveAdmins(us) == {u \in Users : us[u] = [role |-> "admin", status |-> "active"]}

\* Rows that a transaction of another request has locked.
Locked(r) == {req[s].lock : s \in {s \in Requests \ {r} : req[s].at \in {"rotating", "blocked"}}}

Begin(r, u, next) ==
  /\ req[r] = Idle
  /\ req' = [req EXCEPT ![r] = next]
  /\ barred' = IF users[u].status = "suspended" THEN barred \union {r} ELSE barred

Proceed(r, next) ==
  /\ req' = [req EXCEPT ![r] = next]
  /\ UNCHANGED barred

-----------------------------------------------------------------------------
(* RefreshTokenService *)

Live(t) == t \in DOMAIN tokens /\ ~tokens[t].revoked
LiveOf(Scope(_)) == {t \in DOMAIN tokens : Live(t) /\ Scope(tokens[t])}

\* create: a new row, in family f (its own for a new session).
Inserted(u, f) ==
  [t \in DOMAIN tokens \union {issued + 1} |->
     IF t \in DOMAIN tokens THEN tokens[t]
     ELSE [user |-> u, family |-> f, revoked |-> FALSE, replaced |-> FALSE, expired |-> FALSE]]

\* UPDATE ... SET revoked_at WHERE revoked_at IS NULL, for rows of its snapshot.
Revoked(rows) ==
  [t \in DOMAIN tokens |-> IF t \in rows THEN [tokens[t] EXCEPT !.revoked = TRUE] ELSE tokens[t]]

\* The statement runs to its end, or waits for a row that a rotation has locked.
Revoke(r, rows, families, lock, next) ==
  IF rows \intersect Locked(r) = {}
  THEN /\ tokens' = Revoked(rows)
       /\ ended' = ended \union families
       /\ Proceed(r, next)
  ELSE /\ Proceed(r, [at |-> "blocked", rows |-> rows, families |-> families, lock |-> lock, user |-> next.user, next |-> next])
       /\ UNCHANGED <<tokens, ended>>

Unblocked(r) ==
  /\ req[r].at = "blocked"
  /\ req[r].rows \intersect Locked(r) = {}
  /\ Revoke(r, req[r].rows, req[r].families, 0, req[r].next)
  /\ UNCHANGED <<users, issued>>

\* What rotate finds in the row of the token it is given.
Invalid(t) ==
  t \in DOMAIN tokens =>
    IF tokens[t].revoked THEN ~tokens[t].replaced ELSE tokens[t].expired

Reused(t) == t \in DOMAIN tokens /\ tokens[t].revoked /\ tokens[t].replaced

RotateLock_Unlocked(r, t) ==
  /\ t \in DOMAIN tokens
  /\ ~Invalid(t) /\ ~Reused(t)
  /\ Begin(r, tokens[t].user, [at |-> "rotating", user |-> tokens[t].user, lock |-> t])
  /\ UNCHANGED <<users, tokens, issued, ended>>

\* SELECT ... FOR UPDATE on a token to be rotated.
RotateLock(r, t) ==
  /\ t \in DOMAIN tokens \ Locked(r)
  /\ ~Invalid(t) /\ ~Reused(t)
  /\ Begin(r, tokens[t].user, [at |-> "rotating", user |-> tokens[t].user, lock |-> t])
  /\ UNCHANGED <<users, tokens, issued, ended>>

RotateCommit_NotRevoked(r) ==
  /\ req[r].at = "rotating" /\ issued < MaxTokens
  /\ LET t == req[r].lock IN
       /\ tokens' = [Inserted(tokens[t].user, tokens[t].family) EXCEPT ![t].replaced = TRUE]
       /\ Proceed(r, [at |-> "check", user |-> tokens[t].user, family |-> tokens[t].family])
  /\ issued' = issued + 1
  /\ UNCHANGED <<users, ended>>

\* The next token is inserted, the current one points to it, and both commit.
RotateCommit(r) ==
  /\ req[r].at = "rotating" /\ issued < MaxTokens
  /\ LET t == req[r].lock IN
       /\ tokens' = [Inserted(tokens[t].user, tokens[t].family) EXCEPT
                       ![t].revoked = TRUE, ![t].replaced = TRUE]
       /\ Proceed(r, [at |-> "check", user |-> tokens[t].user, family |-> tokens[t].family])
  /\ issued' = issued + 1
  /\ UNCHANGED <<users, ended>>

RotateRefused(r, t) ==
  /\ req[r] = Idle
  /\ t \notin Locked(r)
  /\ Invalid(t)
  /\ Proceed(r, Done("none", "nothing"))
  /\ UNCHANGED <<users, tokens, issued, ended>>

\* A rotated token came back: its whole family is revoked, in the same transaction.
ReuseDetected(r, t) ==
  /\ req[r] = Idle
  /\ t \notin Locked(r)
  /\ Reused(t)
  /\ LET Family(k) == k.family = tokens[t].family IN
       Revoke(r, LiveOf(Family), {tokens[t].family}, t, Done(tokens[t].user, "nothing"))
  /\ UNCHANGED <<users, issued>>

ExpireToken(t) ==
  /\ Live(t) /\ ~tokens[t].expired
  /\ tokens' = [tokens EXCEPT ![t].expired = TRUE]
  /\ UNCHANGED <<users, issued, req, ended, barred>>

\* Days pass without a request and the tokens that finished first are deleted.
DeleteFinished(t) ==
  /\ \A r \in Requests : req[r].at \in {"idle", "done"}
  /\ t \in DOMAIN tokens
  /\ LET first == {k \in DOMAIN tokens : k <= t /\ tokens[k].family = tokens[t].family} IN
       /\ \A k \in first : tokens[k].revoked \/ tokens[k].expired
       /\ tokens' = [k \in DOMAIN tokens \ first |-> tokens[k]]
  /\ UNCHANGED <<users, issued, req, ended, barred>>

-----------------------------------------------------------------------------
(* AuthService *)

\* The unique index on the email decides who creates the user.
Register(r, u) ==
  /\ users[u] = NoUser
  /\ users' = [users EXCEPT ![u] = [role |-> "user", status |-> "active"]]
  /\ Begin(r, u, [at |-> "start", user |-> u])
  /\ UNCHANGED <<tokens, issued, ended>>

\* The user is read with the hash; the status read then is used once the
\* password has been verified.
Login(r, u) ==
  /\ Active(u)
  /\ Begin(r, u, [at |-> "start", user |-> u])
  /\ UNCHANGED <<users, tokens, issued, ended>>

StartSession(r) ==
  /\ req[r].at = "start" /\ issued < MaxTokens
  /\ tokens' = Inserted(req[r].user, issued + 1)
  /\ issued' = issued + 1
  /\ Proceed(r, Done(req[r].user, "tokens"))
  /\ UNCHANGED <<users, ended>>

RefreshCheck_NoCheck(r) ==
  /\ req[r].at = "check"
  /\ Proceed(r, Done(req[r].user, "tokens"))
  /\ UNCHANGED <<users, tokens, issued, ended>>

\* refresh, after the rotation: the account decides.
RefreshCheck(r) ==
  /\ req[r].at = "check"
  /\ IF Active(req[r].user)
     THEN /\ Proceed(r, Done(req[r].user, "tokens"))
          /\ UNCHANGED <<tokens, ended>>
     ELSE LET Family(k) == k.family = req[r].family IN
            Revoke(r, LiveOf(Family), {req[r].family}, 0, Done(req[r].user, "nothing"))
  /\ UNCHANGED <<users, issued>>

Logout(r, t) ==
  /\ req[r] = Idle
  /\ t \in DOMAIN tokens
  /\ LET Family(k) == k.family = tokens[t].family IN
       Revoke(r, LiveOf(Family), {tokens[t].family}, 0, Done(tokens[t].user, "nothing"))
  /\ UNCHANGED <<users, issued>>

\* revokeAllForUser: families that no longer have a live token are ended already.
RevokeAll(r, u) ==
  LET Owned(k) == k.user = u
      rows == LiveOf(Owned)
  IN  Revoke(r, rows, {tokens[t].family : t \in rows}, 0, Done(u, "nothing"))

\* JwtAuthGuard lets an active account through.
LogoutEverywhere(r, u) ==
  /\ req[r] = Idle
  /\ Active(u)
  /\ RevokeAll(r, u)
  /\ UNCHANGED <<users, issued>>

-----------------------------------------------------------------------------
(* AdminService *)

\* JwtAuthGuard reads the caller's account, RolesGuard asks for the permission.
Authorize(r, a, op) ==
  /\ Active(a)
  /\ op.permission \in PLATFORM_ROLE_PERMISSIONS[users[a].role]
  /\ Begin(r, a, [at |-> "load", user |-> a, actorRole |-> users[a].role, op |-> op])
  /\ UNCHANGED <<users, tokens, issued, ended>>

StatusChanges ==
  [target : Users, field : {"status"}, value : Statuses, permission : {"users:manage"}]
RoleChanges ==
  [target : Users, field : {"role"}, value : Roles, permission : {"roles:manage"}]

\* The checks of setUserStatus and setUserRole before their transactions.
SelfChange(q) ==
  q.op.target = q.user /\ (q.op.field = "role" \/ q.op.value = "suspended")

AboveActor(q, seen) ==
  /\ q.op.field = "status"
  /\ seen.role # "user"
  /\ "roles:manage" \notin PLATFORM_ROLE_PERMISSIONS[q.actorRole]

Load(r) ==
  /\ req[r].at = "load"
  /\ LET q == req[r]
         seen == users[q.op.target]
         refused == SelfChange(q) \/ seen = NoUser \/ seen[q.op.field] = q.op.value \/ AboveActor(q, seen)
     IN  Proceed(r, IF refused THEN Done(q.user, "nothing")
                 ELSE [at |-> "apply", user |-> q.user, op |-> q.op, seen |-> seen])
  /\ UNCHANGED <<users, tokens, issued, ended>>

\* The change removes an active admin, as far as the row read before it says.
RemovesAnAdmin(q) ==
  /\ q.seen = [role |-> "admin", status |-> "active"]
  /\ q.op.value # "active"

AssertNotLastAdmin_OffByOne == Cardinality(ActiveAdmins(users)) > 0

AssertNotLastAdmin == Cardinality(ActiveAdmins(users)) > 1

\* The transaction; the advisory lock orders it with the others that take it.
Apply(r) ==
  /\ req[r].at = "apply"
  /\ LET q == req[r]
         target == q.op.target
         allowed == RemovesAnAdmin(q) => AssertNotLastAdmin
     IN  /\ users' = IF allowed THEN [users EXCEPT ![target][q.op.field] = q.op.value] ELSE users
         /\ req' = [req EXCEPT ![r] =
                      IF allowed /\ q.op.value = "suspended" THEN [at |-> "revokeAll", user |-> target]
                      ELSE Done(q.user, "nothing")]
         /\ barred' = IF allowed /\ q.op.value = "active"
                      THEN {s \in barred : req[s].at = "done" \/ req[s].user # target}
                      ELSE barred
  /\ UNCHANGED <<tokens, issued, ended>>

\* After the suspension has committed.
SuspendedRevokes(r) ==
  /\ req[r].at = "revokeAll"
  /\ RevokeAll(r, req[r].user)
  /\ UNCHANGED <<users, issued>>

\* The process dies: its transaction rolls back, the request is never answered.
RequestDies(r) ==
  /\ req[r].at \notin {"idle", "done"}
  /\ Proceed(r, Done("none", "nothing"))
  /\ UNCHANGED <<users, tokens, issued, ended>>

AccountsNext ==
  \/ \E r \in Requests, u \in Users : Register(r, u) \/ Login(r, u) \/ LogoutEverywhere(r, u)
  \/ \E r \in Requests, t \in 1..issued :
       RotateLock(r, t) \/ RotateRefused(r, t) \/ ReuseDetected(r, t) \/ Logout(r, t)
  \/ \E r \in Requests : RotateCommit(r) \/ RefreshCheck(r) \/ StartSession(r) \/ Unblocked(r)
  \/ \E r \in Requests, a \in Users, op \in StatusChanges \union RoleChanges : Authorize(r, a, op)
  \/ \E r \in Requests : Load(r) \/ Apply(r) \/ SuspendedRevokes(r) \/ RequestDies(r)
  \/ \E t \in 1..issued : ExpireToken(t) \/ DeleteFinished(t)

AccountsSpec == AccountsInit /\ [][AccountsNext]_accountsVars

-----------------------------------------------------------------------------
(* Properties *)

Pending ==
  {"idle", "rotating", "check", "start", "blocked", "load", "apply", "revokeAll", "done"}

\* Every row is well formed and every lock that a request holds is on a row.
AccountsTypeOK ==
  /\ users \in [Users -> [role : Roles, status : Statuses] \union {NoUser}]
  /\ issued \in 0..MaxTokens
  /\ DOMAIN tokens \subseteq 1..issued
  /\ \A t \in DOMAIN tokens :
       /\ tokens[t].user \in Users /\ tokens[t].family \in 1..t
       /\ tokens[t].replaced => tokens[t].revoked
  /\ \A r \in Requests : req[r].at \in Pending /\ (req[r].at = "rotating" => req[r].lock \in DOMAIN tokens)
  /\ ended \subseteq 1..issued /\ barred \subseteq Requests

\* Rotation is a chain: however requests race, a session never has two refresh
\* tokens that work (rotate locks the row it replaces).
OneLiveTokenPerSession ==
  \A s, t \in DOMAIN tokens : Live(s) /\ Live(t) /\ tokens[s].family = tokens[t].family => s = t

\* Nobody obtains tokens by a request during which the account was suspended
\* all along, whatever sessions were left alive (login and refresh check the account).
SuspendedGetsNoTokens ==
  \A r \in barred : req[r].at = "done" => req[r].got # "tokens"

AdminIsLeft ==
  \A r \in Requests :
    req[r].at = "apply" /\ req'[r].at # "apply" /\ RemovesAnAdmin(req[r]) /\ users' # users
      => ActiveAdmins(users') # {}

\* Two admins acting on each other cannot both succeed: a removal that was
\* decided on an active admin's row leaves another active admin (assertNotLastAdmin).
RemovalLeavesAnAdmin == [][AdminIsLeft]_accountsVars

\* Once logout, reuse detection or "sign out everywhere" has ended a session, no
\* refresh token of it works (the route says it "revokes the session").  Violated:
\* a rotation that commits while the UPDATE waits for its row has inserted a token
\* that the UPDATE's snapshot does not have.
SessionsEnd == \A t \in DOMAIN tokens : Live(t) => tokens[t].family \notin ended

\* Refresh tokens: the rows are well formed, a session has one working token however its
\* refreshes race, and a suspended user is given no new one.
SessionsAreSafe == AccountsTypeOK /\ OneLiveTokenPerSession /\ SuspendedGetsNoTokens
=================================================================================
