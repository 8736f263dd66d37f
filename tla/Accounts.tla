------------------------------ MODULE Accounts ------------------------------
(***************************************************************************)
(* Users, roles, sessions and tenants (storage/users.rs, sessions.rs,      *)
(* tenants.rs, access/session.rs, access/rbac.rs, http/admin): what is in  *)
(* memory in front of the database, the handlers that change both, logins  *)
(* and the bootstrap.  Nothing holds a read, the statement and the change  *)
(* in memory together: each is a step of its own, and blocking tasks go on *)
(* when their client leaves.  A handler's look at its target and the one   *)
(* of the storage function are one step.  Passwords are not told apart,    *)
(* the outcome of argon2 is open.  Keys of a user: module KeyStore; the    *)
(* limiter in front of login: module Limiters.                             *)
(***************************************************************************)
EXTENDS Naturals, FiniteSets

CONSTANTS
    Users,          \* users by id and name, neither of which is used twice
    Tenants,        \* tenants by id
    DefaultTenant,
    Sessions,       \* sessions by token hash
    Tasks,          \* requests of administrators and users that change something
    Logins,         \* login requests
    Boots,          \* bootstrap requests
    Budgets,        \* bounds: how many requests of each kind and how many failing statements
    None

Kinds == {"user", "tenant", "session", "login", "boot", "fault"}

ASSUME AccountsAssumption ==
    /\ DefaultTenant \in Tenants /\ Budgets \subseteq [Kinds -> Nat]
    /\ Users \cap Tenants = {} /\ "super_admin" \notin Users \cup Tenants
    /\ None \notin Users \cup Tenants \cup Sessions \cup Boots

VARIABLES
    users, userRows,            \* per user: its record in memory, its row
    tenants, tenantRows,
    sessions, sessionRows,      \* per session: the user it belongs to, None without one
    expired,                    \* sessions past expires_at
    task, login, boot,          \* where each request is
    bootstrap_lock,
    minted, issued,             \* users and tenants, and sessions, that were ever inserted
    left,                       \* what is left of the budget
    dead, kept,                 \* sessions a revocation took out of memory; DELETEs that failed
    booted, abandoned,          \* users bootstrap made; a bootstrap client left half-way
    raced                       \* what two requests of this process were about at the same time

userVars    == <<users, userRows, minted>>
tenantVars  == <<tenants, tenantRows>>
sessionVars == <<sessions, sessionRows, expired, issued, dead, kept>>
bootVars    == <<boot, bootstrap_lock, booted, abandoned>>
vars        == <<userVars, tenantVars, sessionVars, bootVars, task, login, left, raced>>

Roles == {"super_admin", "tenant_admin", "user"}

User(role, tenant, enabled) == [role |-> role, tenant |-> tenant, enabled |-> enabled]
NoUser      == User("none", None, FALSE)
Tenant(enabled, token)      == [enabled |-> enabled, token |-> token]
NoTenant    == Tenant(FALSE, "none")
IdleTask    == [at |-> "idle", op |-> None, id |-> None, new |-> None, hashes |-> {}, about |-> {}]
IdleLogin   == [at |-> "idle", user |-> None, session |-> None]
IdleBoot    == [at |-> "idle", user |-> None]

(* the default tenant is made when the database is opened *)
Init ==
    /\ users = [u \in Users |-> NoUser] /\ userRows = users
    /\ tenants = [t \in Tenants |-> IF t = DefaultTenant THEN Tenant(TRUE, "old") ELSE NoTenant]
    /\ tenantRows = tenants /\ minted = {DefaultTenant}
    /\ sessions = [s \in Sessions |-> None] /\ sessionRows = sessions
    /\ expired = {} /\ issued = {} /\ dead = {} /\ kept = {}
    /\ task = [t \in Tasks |-> IdleTask] /\ login = [l \in Logins |-> IdleLogin]
    /\ boot = [b \in Boots |-> IdleBoot] /\ bootstrap_lock = None
    /\ booted = {} /\ abandoned = FALSE /\ raced = {} /\ left \in Budgets

Spend(kind) == left[kind] > 0 /\ left' = [left EXCEPT ![kind] = @ - 1]
Fault       == Spend("fault")

-----------------------------------------------------------------------------
(* who may do what *)

TenantOn(t) == t \in {None} \cup {n \in Tenants : tenants[n].enabled}

(* authorize_session *)
Authorizes(s) ==
    /\ sessions[s] # None /\ s \notin expired
    /\ users[sessions[s]].enabled /\ TenantOn(users[sessions[s]].tenant)

BreakGlass == [id |-> None, role |-> "super_admin", tenant |-> None]

(* admin_auth: the bearer admin_token, or a session with its CSRF token and origin *)
Principals ==
    {BreakGlass} \cup
    {[id |-> sessions[s], role |-> users[sessions[s]].role, tenant |-> users[sessions[s]].tenant] :
        s \in {r \in Sessions : Authorizes(r)}}

IsSuper(p) == p.role = "super_admin"

Allowed(role) ==
    CASE role = "tenant_admin" -> {"AgentTokenRotate", "UserWrite"}
      [] role = "user"         -> {}
      [] OTHER                 -> {"AgentTokenRotate", "UserWrite", "TenantWrite"}

Authorize(p, action, tenant) ==
    \/ IsSuper(p)
    \/ p.tenant # None /\ tenant \in {None, p.tenant} /\ action \in Allowed(p.role)

CanCreateUser(p, role, tenant) ==
    IsSuper(p) \/ (p.role = "tenant_admin" /\ role = "user" /\ tenant = p.tenant)

CanManageUser(p, target) ==
    \/ IsSuper(p)
    \/ p.role = "tenant_admin" /\ target.role = "user" /\ target.tenant = p.tenant

(* ensure_role_tenant *)
RoleTenantOk(role, tenant) ==
    IF role = "super_admin" THEN tenant = None ELSE tenant # None /\ tenants[tenant] # NoTenant

EnabledSuper(rec)     == rec.role = "super_admin" /\ rec.enabled

(* mutant of NotLastSuper: one that is disabled counts *)
NotLastSuperOfAll(u) ==
    EnabledSuper(users[u]) => \E v \in Users \ {u} : users[v].role = "super_admin"

(* ensure_not_last_super *)
NotLastSuper(u) == EnabledSuper(users[u]) => \E v \in Users \ {u} : EnabledSuper(users[v])

-----------------------------------------------------------------------------
(* requests that change users: the checks, then the statement, then memory *)

(* What a request read and writes later on trust: the record of its user or tenant, and, if it
   takes an enabled super admin away, that another one remains.  One that creates has read
   nothing, and a logout writes neither. *)
Lowers(op, id, new) ==
    /\ op \in {"update_user", "rename_user", "delete_user"} /\ EnabledSuper(users[id])
    /\ op = "delete_user" \/ ~EnabledSuper(new)

About(op, id, new) ==
    IF op \in {"create_user", "create_tenant", "logout"} THEN {}
    ELSE {id} \cup (IF Lowers(op, id, new) THEN {"super_admin"} ELSE {})

Start(t, op, id, at, new, hashes) ==
    /\ task[t].at = "idle"
    /\ task' = [task EXCEPT ![t] = [at |-> at, op |-> op, id |-> id, new |-> new, hashes |-> hashes,
                                    about |-> About(op, id, new)]]
    /\ raced' = raced \cup UNION {task[r].about \cap About(op, id, new) : r \in Tasks}
    /\ UNCHANGED <<userVars, tenantVars, sessionVars, bootVars, login>>

Goto(t, at) == task' = [task EXCEPT ![t].at = at]
Done(t)     == task' = [task EXCEPT ![t] = IdleTask]
SessionsOf(u) == {s \in Sessions : sessions[s] = u}

CreateChecks(u, role, tenant) == u \notin minted /\ RoleTenantOk(role, tenant)

CreateUser(t, p, u, role, tenant) ==
    /\ CanCreateUser(p, role, tenant) /\ Authorize(p, "UserWrite", tenant)
    /\ CreateChecks(u, role, tenant)
    /\ Spend("user")
    /\ Start(t, "create_user", u, "row", User(role, tenant, TRUE), {})

UpdateChecks(u, new) ==
    /\ RoleTenantOk(new.role, new.tenant)
    /\ ~new.enabled /\ EnabledSuper(users[u]) => NotLastSuper(u)
    /\ new.role # "super_admin" /\ users[u].role = "super_admin" => NotLastSuper(u)

(* The sessions go when the user is disabled, moved, has another role or a new password *)
Revokes(cur, new, password) ==
    ~new.enabled \/ new.role # cur.role \/ new.tenant # cur.tenant \/ password

(* Nobody disables himself; only a super admin changes a role or a tenant. *)
UpdateUser(t, p, u, new, password) ==
    LET cur == users[u] IN
    /\ cur # NoUser /\ CanManageUser(p, cur)
    /\ ~(p.id = u /\ ~new.enabled)
    /\ IsSuper(p) \/ (new.role = cur.role /\ new.tenant = cur.tenant)
    /\ UpdateChecks(u, new)
    /\ new # cur \/ password
    /\ Spend("user")
    /\ Start(t, IF Revokes(cur, new, password) THEN "update_user" ELSE "rename_user", u, "row", new, {})

DeleteChecks(u) == users[u].role = "super_admin" => NotLastSuper(u)

DeleteUser(t, p, u) ==
    /\ users[u] # NoUser /\ p.id # u /\ CanManageUser(p, users[u])
    /\ DeleteChecks(u)
    /\ Spend("user")
    /\ Start(t, "delete_user", u, "unrow", users[u], SessionsOf(u))

(* change_password of the session s, which survives; the record read here is written back *)
ChangePassword(t, s) ==
    /\ Authorizes(s)
    /\ Spend("session")
    /\ Start(t, "password", sessions[s], "row", users[sessions[s]], {s})

At(t, stage, ops) == task[t].at = stage /\ task[t].op \in ops

(* mutant of Write: the error of the statement is dropped *)
WriteUnchecked(t, row) ==
    /\ Goto(t, "memory")
    /\ \/ userRows' = [userRows EXCEPT ![task[t].id] = row] /\ UNCHANGED left
       \/ Fault /\ UNCHANGED userRows

(* a statement leaves this row, or it fails and so does the request *)
Write(t, row) ==
    \/ userRows' = [userRows EXCEPT ![task[t].id] = row] /\ Goto(t, "memory") /\ UNCHANGED left
    \/ Fault /\ Done(t) /\ UNCHANGED userRows

UserRowStep == UNCHANGED <<users, tenantVars, sessionVars, bootVars, login>>

(* the unique name may refuse the INSERT *)
InsertUser(t) ==
    /\ At(t, "row", {"create_user"})
    /\ IF task[t].id \in minted THEN Done(t) /\ UNCHANGED <<userRows, left>> ELSE Write(t, task[t].new)
    /\ minted' = minted \cup {u \in Users : userRows'[u] # NoUser}
    /\ UserRowStep

(* UPDATE ... WHERE id: nothing happens to a row that is gone *)
UpdateUserRow(t) ==
    /\ At(t, "row", {"update_user", "rename_user"})
    /\ Write(t, IF userRows[task[t].id] = NoUser THEN NoUser ELSE task[t].new)
    /\ UNCHANGED minted /\ UserRowStep

DeleteUserRow(t) == At(t, "row", {"delete_user"}) /\ Write(t, NoUser) /\ UNCHANGED minted /\ UserRowStep

(* of the row only the hash changes *)
PasswordRow(t) ==
    /\ At(t, "row", {"password"})
    /\ Write(t, userRows[task[t].id])
    /\ UNCHANGED minted /\ UserRowStep

Publish(t, rec) ==
    /\ users' = [users EXCEPT ![task[t].id] = rec]
    /\ UNCHANGED <<userRows, minted, tenantVars, sessionVars, bootVars, login, left>>

(* revoke_user_sessions: the sessions in memory now, but for those that are kept *)
CollectSessions(t) ==
    LET gone == SessionsOf(task[t].id) \ task[t].hashes IN
    IF gone = {} THEN Done(t) ELSE task' = [task EXCEPT ![t].at = "unrow", ![t].hashes = gone]

PublishCreated(t) == At(t, "memory", {"create_user"}) /\ Publish(t, task[t].new) /\ Done(t)

(* what was read and changed is inserted, even if the user is gone by now *)
PublishUpdated(t) ==
    /\ At(t, "memory", {"update_user", "rename_user"})
    /\ Publish(t, task[t].new)
    /\ IF task[t].op = "update_user" THEN CollectSessions(t) ELSE Done(t)

PublishDeleted(t) == At(t, "memory", {"delete_user"}) /\ Publish(t, NoUser) /\ Done(t)

(* get_mut: a user that is gone stays so *)
PublishPassword(t) ==
    /\ At(t, "memory", {"password"})
    /\ Publish(t, IF users[task[t].id] = NoUser THEN NoUser ELSE task[t].new)
    /\ CollectSessions(t)

-----------------------------------------------------------------------------
(* revoke_session and revoke_user_sessions *)

Logout(t, s) ==
    /\ Authorizes(s)
    /\ Spend("session")
    /\ Start(t, "logout", sessions[s], "unrow", None, {s})

(* the DELETEs; an error of one is ignored *)
DeleteSessions(t) ==
    /\ task[t].at = "unrow"
    /\ \E failed \in SUBSET task[t].hashes :
          /\ IF failed = {} THEN UNCHANGED left ELSE Fault
          /\ sessionRows' = [s \in Sessions |-> IF s \in task[t].hashes \ failed THEN None
                                                ELSE sessionRows[s]]
          /\ kept' = kept \cup failed
    /\ Goto(t, "forget")
    /\ UNCHANGED <<userVars, tenantVars, sessions, expired, issued, dead, bootVars, login>>

(* mutant of ForgetSessions: memory keeps the sessions *)
ForgetSessionsNot(t) ==
    /\ task[t].at = "forget"
    /\ dead' = dead \cup task[t].hashes
    /\ IF task[t].op = "delete_user" THEN Goto(t, "row") ELSE Done(t)
    /\ UNCHANGED <<userVars, tenantVars, sessions, sessionRows, expired, issued, kept, bootVars, login, left>>

ForgetSessions(t) ==
    /\ task[t].at = "forget"
    /\ sessions' = [s \in Sessions |-> IF s \in task[t].hashes THEN None ELSE sessions[s]]
    /\ dead' = dead \cup task[t].hashes
    /\ IF task[t].op = "delete_user" THEN Goto(t, "row") ELSE Done(t)
    /\ UNCHANGED <<userVars, tenantVars, sessionRows, expired, issued, kept, bootVars, login, left>>

-----------------------------------------------------------------------------
(* requests that change tenants *)

(* a new id, and a name no tenant has *)
CreateTenant(t, p, n) ==
    /\ Authorize(p, "TenantWrite", None) /\ tenants[n] = NoTenant /\ n \notin minted
    /\ Spend("tenant")
    /\ Start(t, "create_tenant", n, "row", Tenant(TRUE, "old"), {})

(* the default tenant cannot be disabled *)
UpdateTenantChecks(n, enabled) == tenants[n] # NoTenant /\ (n = DefaultTenant => enabled)

(* the token hash read here is written back *)
UpdateTenant(t, p, n, enabled) ==
    /\ Authorize(p, "TenantWrite", n) /\ UpdateTenantChecks(n, enabled)
    /\ Spend("tenant")
    /\ Start(t, "update_tenant", n, "row", Tenant(enabled, tenants[n].token), {})

DeleteTenantChecks(n) ==
    /\ n # DefaultTenant /\ tenants[n] # NoTenant
    /\ ~ \E u \in Users : users[u] # NoUser /\ users[u].tenant = n

DeleteTenant(t, p, n) ==
    /\ Authorize(p, "TenantWrite", n) /\ DeleteTenantChecks(n)
    /\ Spend("tenant")
    /\ Start(t, "delete_tenant", n, "row", NoTenant, {})

RotateAgentToken(t, p, n) ==
    /\ Authorize(p, "AgentTokenRotate", n) /\ tenants[n] # NoTenant
    /\ Spend("tenant")
    /\ Start(t, "rotate", n, "row", Tenant(tenants[n].enabled, "new"), {})

TenantWrite(t, row) ==
    /\ \/ tenantRows' = [tenantRows EXCEPT ![task[t].id] = row] /\ Goto(t, "memory") /\ UNCHANGED left
       \/ Fault /\ Done(t) /\ UNCHANGED tenantRows
    /\ UNCHANGED <<users, userRows, tenants, sessionVars, bootVars, login>>

(* the unique name may refuse the INSERT *)
InsertTenant(t) ==
    /\ At(t, "row", {"create_tenant"})
    /\ \/ task[t].id \notin minted /\ TenantWrite(t, task[t].new)
       \/ /\ task[t].id \in minted /\ Done(t)
          /\ UNCHANGED <<users, userRows, tenantVars, sessionVars, bootVars, login, left>>
    /\ minted' = minted \cup {n \in Tenants : tenantRows'[n] # NoTenant}

(* each UPDATE sets its own columns of the row, if it is there *)
UpdateTenantRow(t) ==
    LET row == tenantRows[task[t].id] IN
    /\ At(t, "row", {"update_tenant"})
    /\ TenantWrite(t, IF row = NoTenant THEN row ELSE [row EXCEPT !.enabled = task[t].new.enabled])
    /\ UNCHANGED minted

RotateTokenRow(t) ==
    LET row == tenantRows[task[t].id] IN
    /\ At(t, "row", {"rotate"})
    /\ TenantWrite(t, IF row = NoTenant THEN row ELSE [row EXCEPT !.token = task[t].new.token])
    /\ UNCHANGED minted

DeleteTenantRow(t) == At(t, "row", {"delete_tenant"}) /\ TenantWrite(t, NoTenant) /\ UNCHANGED minted

PublishTenant(t) ==
    /\ At(t, "memory", {"create_tenant", "update_tenant", "delete_tenant", "rotate"})
    /\ tenants' = [tenants EXCEPT ![task[t].id] = task[t].new]
    /\ Done(t)
    /\ UNCHANGED <<userVars, tenantRows, sessionVars, bootVars, login, left>>

-----------------------------------------------------------------------------
(* login *)

(* the password is right, the user enabled and so is the tenant *)
Verify(l, u) ==
    /\ Spend("login") /\ login[l].at = "idle" /\ users[u].enabled /\ TenantOn(users[u].tenant)
    /\ login' = [login EXCEPT ![l] = [IdleLogin EXCEPT !.at = "check", !.user = u]]
    /\ UNCHANGED <<userVars, tenantVars, sessionVars, bootVars, task>>

(* create_session, in another task: the user is looked up again *)
CheckEnabled(l) ==
    /\ login[l].at = "check"
    /\ login' = IF users[login[l].user].enabled THEN [login EXCEPT ![l].at = "insert"]
                                                ELSE [login EXCEPT ![l] = IdleLogin]
    /\ UNCHANGED <<userVars, tenantVars, sessionVars, bootVars, task, left>>

InsertSession(l) ==
    /\ login[l].at = "insert"
    /\ \/ \E s \in Sessions \ issued :
             /\ sessionRows' = [sessionRows EXCEPT ![s] = login[l].user]
             /\ issued' = issued \cup {s}
             /\ login' = [login EXCEPT ![l].at = "memory", ![l].session = s]
             /\ UNCHANGED left
       \/ /\ Fault /\ login' = [login EXCEPT ![l] = IdleLogin]
          /\ UNCHANGED <<sessionRows, issued>>
    /\ UNCHANGED <<userVars, tenantVars, sessions, expired, dead, kept, bootVars, task>>

PublishSession(l) ==
    /\ login[l].at = "memory"
    /\ sessions' = [sessions EXCEPT ![login[l].session] = login[l].user]
    /\ login' = [login EXCEPT ![l].at = "prune"]
    /\ UNCHANGED <<userVars, tenantVars, sessionRows, expired, issued, dead, kept, bootVars, task,
                   left>>

(* prune_expired_sessions; record_login changes nothing that matters here *)
Prune(l) ==
    /\ login[l].at = "prune"
    /\ sessions' = [s \in Sessions |-> IF s \in expired THEN None ELSE sessions[s]]
    /\ sessionRows' = [s \in Sessions |-> IF s \in expired /\ sessions[s] # None THEN None
                                          ELSE sessionRows[s]]
    /\ login' = [login EXCEPT ![l] = IdleLogin]
    /\ UNCHANGED <<userVars, tenantVars, expired, issued, dead, kept, bootVars, task, left>>

(* expires_at passes *)
Expire(s) ==
    /\ sessions[s] # None /\ s \notin expired
    /\ expired' = expired \cup {s}
    /\ UNCHANGED <<userVars, tenantVars, sessions, sessionRows, issued, dead, kept, bootVars, task,
                   login, left>>

-----------------------------------------------------------------------------
(* bootstrap, with the admin token *)

(* mutant of BootLock: the count is read before the lock is taken *)
BootUnlocked(b, u) ==
    /\ Spend("boot") /\ boot[b].at = "idle" /\ u \notin minted
    /\ \A v \in Users : users[v] = NoUser
    /\ boot' = [boot EXCEPT ![b] = [at |-> "insert", user |-> u]]
    /\ UNCHANGED <<userVars, tenantVars, sessionVars, bootstrap_lock, booted, abandoned, task, login>>

(* bootstrap_lock, under which no user may exist; then create_user in a blocking task *)
BootLock(b, u) ==
    /\ Spend("boot") /\ boot[b].at = "idle" /\ bootstrap_lock = None /\ u \notin minted
    /\ \A v \in Users : users[v] = NoUser
    /\ bootstrap_lock' = b
    /\ boot' = [boot EXCEPT ![b] = [at |-> "insert", user |-> u]]
    /\ UNCHANGED <<userVars, tenantVars, sessionVars, booted, abandoned, task, login>>

BootEnd(b) ==
    /\ boot' = [boot EXCEPT ![b] = IdleBoot]
    /\ bootstrap_lock' = IF bootstrap_lock = b THEN None ELSE bootstrap_lock

BootInsert(b) ==
    /\ boot[b].at = "insert"
    /\ \/ /\ boot[b].user \notin minted
          /\ userRows' = [userRows EXCEPT ![boot[b].user] = User("super_admin", None, TRUE)]
          /\ minted' = minted \cup {boot[b].user}
          /\ boot' = [boot EXCEPT ![b].at = "memory"] /\ UNCHANGED <<bootstrap_lock, left>>
       \/ /\ boot[b].user \in minted
          /\ BootEnd(b) /\ UNCHANGED <<userRows, minted, left>>
       \/ Fault /\ BootEnd(b) /\ UNCHANGED <<userRows, minted>>
    /\ UNCHANGED <<users, tenantVars, sessionVars, booted, abandoned, task, login>>

BootMemory(b) ==
    /\ boot[b].at = "memory"
    /\ users' = [users EXCEPT ![boot[b].user] = User("super_admin", None, TRUE)]
    /\ booted' = booted \cup {boot[b].user}
    /\ BootEnd(b)
    /\ UNCHANGED <<userRows, minted, tenantVars, sessionVars, abandoned, task, login, left>>

(* the client leaves: the handler and its guard are dropped, the blocking task goes on *)
BootAbandon(b) ==
    /\ boot[b].at # "idle" /\ bootstrap_lock = b
    /\ bootstrap_lock' = None /\ abandoned' = TRUE
    /\ UNCHANGED <<userVars, tenantVars, sessionVars, boot, booted, task, login, left>>

-----------------------------------------------------------------------------
(* the process dies; load_users, load_tenants and load_sessions, which drops the expired *)
Restart ==
    /\ users' = userRows /\ tenants' = tenantRows
    /\ sessionRows' = [s \in Sessions |-> IF s \in expired THEN None ELSE sessionRows[s]]
    /\ sessions' = sessionRows'
    /\ task' = [t \in Tasks |-> IdleTask] /\ login' = [l \in Logins |-> IdleLogin]
    /\ boot' = [b \in Boots |-> IdleBoot] /\ bootstrap_lock' = None /\ raced' = {}
    /\ UNCHANGED <<userRows, minted, tenantRows, expired, issued, dead, kept, booted, abandoned,
                   left>>

UserRequest(t) ==
    \E p \in Principals, u \in Users :
       \/ \E role \in Roles, n \in Tenants \cup {None} : CreateUser(t, p, u, role, n)
       \/ \E new \in [role : Roles, tenant : Tenants \cup {None}, enabled : BOOLEAN], pw \in BOOLEAN :
             UpdateUser(t, p, u, new, pw)
       \/ DeleteUser(t, p, u)

TenantRequest(t) ==
    \E p \in Principals, n \in Tenants :
       \/ CreateTenant(t, p, n) \/ DeleteTenant(t, p, n) \/ RotateAgentToken(t, p, n)
       \/ \E on \in BOOLEAN : UpdateTenant(t, p, n, on)

Request(t) == UserRequest(t) \/ TenantRequest(t) \/ \E s \in Sessions : ChangePassword(t, s) \/ Logout(t, s)

TaskStep(t) ==
    \/ InsertUser(t) \/ UpdateUserRow(t) \/ DeleteUserRow(t) \/ PasswordRow(t)
    \/ PublishCreated(t) \/ PublishUpdated(t) \/ PublishDeleted(t) \/ PublishPassword(t)
    \/ DeleteSessions(t) \/ ForgetSessions(t)
    \/ InsertTenant(t) \/ UpdateTenantRow(t) \/ RotateTokenRow(t) \/ DeleteTenantRow(t)
    \/ PublishTenant(t)

LoginStep(l) ==
    \/ \E u \in Users : Verify(l, u)
    \/ CheckEnabled(l) \/ InsertSession(l) \/ PublishSession(l) \/ Prune(l)

BootStep(b) ==
    \/ \E u \in Users : BootLock(b, u)
    \/ BootInsert(b) \/ BootMemory(b) \/ BootAbandon(b)

Next ==
    \/ \E t \in Tasks : Request(t)
    \/ /\ \/ \E t \in Tasks : TaskStep(t)
          \/ \E l \in Logins : LoginStep(l)
          \/ \E b \in Boots : BootStep(b)
          \/ \E s \in Sessions : Expire(s)
       /\ UNCHANGED raced
    \/ Restart

Spec == Init /\ [][Next]_vars

-----------------------------------------------------------------------------
HasSuper == \E u \in Users : EnabledSuper(userRows[u]) /\ EnabledSuper(users[u])

(* README.md: the last super_admin cannot be deleted, disabled or demoted.  Once memory and
   database hold an enabled super admin, they always do. *)
SuperRemains == [][HasSuper => HasSuper']_vars

(* The most of it that holds, with any number of administrators: memory and database keep an
   enabled super admin unless, since the process started, two requests about one user ran at
   the same time or two that each took a super admin away.  Requests about different users,
   creations, logins, bootstraps, failed statements and crashes cannot do it
   (users.rs:308, ensure_not_last_super). *)
SuperRemainsUnlessRaced == [][HasSuper /\ raced \subseteq Tenants => HasSuper']_vars

(* the row of this user or tenant was written, memory is to follow *)
UnderWay(i) ==
    \/ \E t \in Tasks : task[t].at = "memory" /\ task[t].id = i
    \/ \E b \in Boots : boot[b].at = "memory" /\ boot[b].user = i

SessionUnderWay(s) ==
    \/ \E t \in Tasks : task[t].at = "forget" /\ s \in task[t].hashes
    \/ \E l \in Logins : login[l].at = "memory" /\ login[l].session = s

(* Memory holds what the next start would load: each user, each tenant with its token, as
   long as no request is between the statement and the change in memory for this one and no
   two requests about it ever ran at the same time - whatever else runs meanwhile, fails or
   dies.  Of the sessions this holds but for those whose ignored DELETE failed.  Of a record
   that two requests did change at the same time, memory may differ until the next start
   (users.rs:245, tenants.rs:155). *)
RestartChangesNothing ==
    /\ \A u \in Users \ raced : users[u] = userRows[u] \/ UnderWay(u)
    /\ \A n \in Tenants \ raced : tenants[n] = tenantRows[n] \/ UnderWay(n)
    /\ \A s \in Sessions \ (kept \cup expired) : sessions[s] = sessionRows[s] \/ SessionUnderWay(s)

(* A session that a logout, a change of password, of role or of tenant, a disabling or a
   deletion took away does not authorize again, not after a restart either, unless its
   DELETE failed and was ignored (sessions.rs:96). *)
RevokedSessionStaysDead == \A s \in dead \ kept : ~Authorizes(s)

(* However many bootstrap requests arrive at once, the database never holds two users that
   bootstrap made, unless a client left while its blocking task ran on and gave the lock
   away (access/session.rs:216). *)
OneBootstrap ==
    abandoned \/ \A u, v \in booted : userRows[u] # NoUser /\ userRows[v] # NoUser => u = v
=============================================================================
