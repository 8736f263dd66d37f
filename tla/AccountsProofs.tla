---------------------------- MODULE AccountsProofs ----------------------------
(***************************************************************************)
(* Proofs about Accounts, for every set of users, tenants, sessions and    *)
(* any number of administrators, logins and bootstraps at the same time:   *)
(* a revoked session stays dead, the database never holds two bootstrapped *)
(* users, and, of what no two requests were about at the same time, memory *)
(* and database agree and a super admin remains.                           *)
(***************************************************************************)
EXTENDS Accounts, FiniteSetTheorems, TLAPS

-----------------------------------------------------------------------------
(* Types *)

UserRec   == [role : Roles \cup {"none"}, tenant : Tenants \cup {None}, enabled : BOOLEAN]
TenantRec == [enabled : BOOLEAN, token : {"none", "old", "new"}]

UserOps   == {"create_user", "update_user", "rename_user", "delete_user", "password"}
TenantOps == {"create_tenant", "update_tenant", "delete_tenant", "rotate"}

TaskType ==
    [at : {"idle", "row", "memory", "unrow", "forget"}, op : UserOps \cup TenantOps \cup {"logout", None},
     id : Users \cup Tenants \cup {None}, new : UserRec \cup TenantRec \cup {None}, hashes : SUBSET Sessions,
     about : SUBSET (Users \cup Tenants \cup {"super_admin"})]

TaskShape(m) ==
    /\ m.at = "idle" => m = IdleTask
    /\ m.at \in {"row", "memory"} => m.op \in UserOps \cup TenantOps
    /\ m.at \in {"unrow", "forget"} => m.op \in {"update_user", "delete_user", "password", "logout"}
    /\ m.at # "idle" /\ m.op \in UserOps => m.id \in Users /\ m.new \in UserRec
    /\ m.at # "idle" /\ m.op \in TenantOps => m.id \in Tenants /\ m.new \in TenantRec
    /\ m.at # "idle" /\ m.op \in UserOps \cup TenantOps /\ m.op \notin {"create_user", "create_tenant"} =>
          m.id \in m.about

RecordTypes ==
    /\ users \in [Users -> UserRec] /\ userRows \in [Users -> UserRec]
    /\ tenants \in [Tenants -> TenantRec] /\ tenantRows \in [Tenants -> TenantRec]
    /\ task \in [Tasks -> TaskType] /\ \A t \in Tasks : TaskShape(task[t])

LoginTypes ==
    /\ sessions \in [Sessions -> Users \cup {None}] /\ sessionRows \in [Sessions -> Users \cup {None}]
    /\ dead \subseteq Sessions
    /\ login \in [Logins -> [at : {"idle", "check", "insert", "memory", "prune"},
                             user : Users \cup {None}, session : Sessions \cup {None}]]
    /\ \A l \in Logins : login[l].at # "idle" => login[l].user \in Users

BootTypes ==
    /\ boot \in [Boots -> [at : {"idle", "insert", "memory"}, user : Users \cup {None}]]
    /\ \A b \in Boots : boot[b].at # "idle" => boot[b].user \in Users

Types == RecordTypes /\ LoginTypes /\ BootTypes

-----------------------------------------------------------------------------
(* Sessions, for any number of tasks *)

(* A token hash is never issued twice. *)
IssuedOnce ==
    /\ \A s \in Sessions : sessions[s] # None \/ sessionRows[s] # None => s \in issued
    /\ dead \subseteq issued /\ \A t \in Tasks : task[t].hashes \subseteq issued

(* The session a login is about to publish is known to nobody else. *)
Landing(l, s) == login[l].at = "memory" /\ login[l].session = s

LandingSound ==
    \A l \in Logins : login[l].at = "memory" =>
        LET s == login[l].session IN
        /\ s \in Sessions /\ s \in issued /\ sessions[s] = None /\ s \notin dead
        /\ sessionRows[s] = login[l].user
        /\ \A t \in Tasks : s \notin task[t].hashes
        /\ \A k \in Logins : Landing(k, s) => k = l

(* The row of a session goes before its record in memory, unless the DELETE failed. *)
Forgetting(t, s) == task[t].at = "forget" /\ s \in task[t].hashes

DeadSound ==
    /\ \A t \in Tasks, s \in Sessions \ kept : Forgetting(t, s) => sessionRows[s] = None
    /\ \A s \in dead \ kept : sessions[s] = None /\ sessionRows[s] = None

(* Memory and database agree on a session but between the two steps of a change. *)
SessionAgrees(s) ==
    \/ sessions[s] = sessionRows[s]
    \/ \E l \in Logins : Landing(l, s)
    \/ \E t \in Tasks : Forgetting(t, s)

SessionInv ==
    /\ Types /\ IssuedOnce /\ LandingSound /\ DeadSound
    /\ \A s \in Sessions \ (kept \cup expired) : SessionAgrees(s)

-----------------------------------------------------------------------------
(* Users, tenants and bootstraps *)

Super == User("super_admin", None, TRUE)

(* What two requests are about at the same time is raced. *)
Alone == \A s, t \in Tasks : s # t => task[s].about \cap task[t].about \subseteq raced

Writes(t, u) == task[t].at = "memory" /\ task[t].op \in UserOps /\ task[t].id = u
Booting(b, u) == boot[b].at = "memory" /\ boot[b].user = u
Concerns(t, u) == task[t].at # "idle" /\ task[t].op \in UserOps /\ task[t].id = u

UserAgrees(u) ==
    \/ u \in raced
    \/ users[u] = userRows[u]
    \/ \E t \in Tasks : Writes(t, u)
    \/ \E b \in Boots : Booting(b, u)

Unminted == \A u \in Users : u \notin minted => users[u] = NoUser /\ userRows[u] = NoUser

(* a request that has not inserted its user or tenant yet *)
Inserting(m) == m.op \in {"create_user", "create_tenant"} /\ m.at = "row"

(* What a task knows of its user where it is; some of it only if nobody else changes it. *)
UserTask(m) ==
    LET u == m.id IN
    /\ m.op \in UserOps /\ ~Inserting(m) => u \in minted
    /\ m.op \in UserOps \ {"delete_user"} => m.new # NoUser
    /\ m.at = "memory" /\ m.op = "create_user" => users[u] = NoUser /\ userRows[u] = m.new
    /\ m.at = "memory" /\ m.op = "delete_user" => userRows[u] = NoUser
    /\ u \notin raced =>
          /\ m.at = "row" /\ m.op \in {"update_user", "rename_user", "password"} =>
                users[u] = userRows[u] /\ userRows[u] # NoUser
          /\ m.at = "memory" /\ m.op \in {"update_user", "rename_user", "password"} => userRows[u] = m.new
          /\ m.at \in {"row", "memory"} /\ m.op = "password" => users[u] = m.new

(* The user a request or a bootstrap has inserted is known to nobody else. *)
CreateSound ==
    \A t, k \in Tasks : Writes(t, task[t].id) /\ task[t].op = "create_user" /\ k # t /\ Concerns(k, task[t].id) =>
        Inserting(task[k])

BootSound ==
    \A b \in Boots : boot[b].at = "memory" =>
        LET u == boot[b].user IN
        /\ u \in minted /\ userRows[u] = Super /\ users[u] = NoUser
        /\ \A t \in Tasks : Concerns(t, u) => Inserting(task[t])
        /\ \A c \in Boots : Booting(c, u) => c = b

UserInv ==
    /\ Alone /\ Unminted /\ CreateSound /\ BootSound
    /\ \A u \in Users : UserAgrees(u)
    /\ \A t \in Tasks : task[t].at # "idle" => UserTask(task[t])

(* A task that is about to take an enabled super admin away leaves another one. *)
BothSuper(v) == EnabledSuper(users[v]) /\ EnabledSuper(userRows[v])

MayLower(m) ==
    \/ m.op \in {"update_user", "rename_user"} /\ m.at \in {"row", "memory"} /\ ~EnabledSuper(m.new)
    \/ m.op = "delete_user"

LeavesSuper(m) ==
    MayLower(m) /\ (EnabledSuper(users[m.id]) \/ EnabledSuper(userRows[m.id])) =>
        "super_admin" \in m.about /\ \E v \in Users \ {m.id} : BothSuper(v)

SuperInv == raced \subseteq Tenants => \A t \in Tasks : task[t].at # "idle" => LeavesSuper(task[t])

(* A row that is gone stays so; the row of a bootstrapped user goes before its record, and
   under bootstrap_lock there is no such row. *)
BootInv ==
    /\ booted \subseteq Users \cap minted
    /\ \A u \in booted : users[u] = NoUser => userRows[u] = NoUser
    /\ ~abandoned => \A b \in Boots : boot[b].at # "idle" =>
                        bootstrap_lock = b /\ \A u \in booted : userRows[u] = NoUser
    /\ OneBootstrap

(* The same of tenants. *)
TenantWrites(t, n) == task[t].at = "memory" /\ task[t].op \in TenantOps /\ task[t].id = n
TenantConcerns(t, n) == task[t].at # "idle" /\ task[t].op \in TenantOps /\ task[t].id = n

TenantTask(m) ==
    LET n == m.id IN
    /\ m.op \in TenantOps /\ ~Inserting(m) => n \in minted
    /\ m.at = "memory" /\ m.op = "create_tenant" => tenants[n] = NoTenant /\ tenantRows[n] = m.new
    /\ m.op = "delete_tenant" => m.new = NoTenant
    /\ m.op = "create_tenant" => m.new # NoTenant
    /\ n \notin raced =>
          /\ m.at = "row" /\ m.op \in {"update_tenant", "rotate"} =>
                tenants[n] = tenantRows[n] /\ tenantRows[n] # NoTenant
          /\ m.at = "row" /\ m.op = "update_tenant" => tenants[n].token = m.new.token
          /\ m.at = "row" /\ m.op = "rotate" => tenants[n].enabled = m.new.enabled
          /\ m.at = "memory" /\ m.op \in TenantOps => tenantRows[n] = m.new

TenantAgrees(n) ==
    \/ n \in raced
    \/ tenants[n] = tenantRows[n]
    \/ \E t \in Tasks : TenantWrites(t, n)

TenantInv ==
    /\ \A n \in Tenants : n \notin minted => tenants[n] = NoTenant /\ tenantRows[n] = NoTenant
    /\ \A t, k \in Tasks :
          TenantWrites(t, task[t].id) /\ task[t].op = "create_tenant" /\ k # t /\ TenantConcerns(k, task[t].id) =>
             Inserting(task[k])
    /\ \A n \in Tenants : TenantAgrees(n)
    /\ \A t \in Tasks : task[t].at # "idle" => TenantTask(task[t])

AgreeInv == SessionInv /\ UserInv /\ SuperInv /\ TenantInv /\ BootInv

-----------------------------------------------------------------------------
(* The records the model is made of are well typed. *)
LEMMA Constants ==
    /\ NoUser \in UserRec /\ Super \in UserRec /\ NoTenant \in TenantRec
    /\ IdleTask \in TaskType /\ TaskShape(IdleTask) /\ IdleTask.at = "idle" /\ IdleTask.hashes = {}
    /\ IdleTask.about = {}
    /\ IdleLogin.at = "idle" /\ IdleBoot.at = "idle"
    /\ IdleLogin \in [at : {"idle", "check", "insert", "memory", "prune"},
                      user : Users \cup {None}, session : Sessions \cup {None}]
    /\ IdleBoot \in [at : {"idle", "insert", "memory"}, user : Users \cup {None}]
    /\ None \notin Users /\ None \notin Tenants /\ None \notin Sessions
  BY AccountsAssumption DEF NoUser, Super, User, UserRec, Roles, NoTenant, Tenant, TenantRec, IdleTask,
     TaskType, TaskShape, IdleLogin, IdleBoot

(* A request begins. *)
LEMMA Begins ==
    ASSUME Types, NEW t \in Tasks, NEW op, NEW id, NEW at, NEW new, NEW hashes \in SUBSET Sessions,
           Start(t, op, id, at, new, hashes),
           \/ op \in UserOps /\ id \in Users /\ new \in UserRec /\ at = "row"
           \/ op = "delete_user" /\ id \in Users /\ new \in UserRec /\ at = "unrow"
           \/ op \in TenantOps /\ id \in Tenants /\ new \in TenantRec /\ at = "row"
           \/ op = "logout" /\ id \in Users /\ new = None /\ at = "unrow"
    PROVE  /\ task[t] = IdleTask
           /\ \E m \in TaskType :
                 /\ m.at = at /\ m.op = op /\ m.id = id /\ m.new = new /\ m.hashes = hashes /\ TaskShape(m)
                 /\ m.about = About(op, id, new) /\ task' = [task EXCEPT ![t] = m]
  <1> DEFINE m == [at |-> at, op |-> op, id |-> id, new |-> new, hashes |-> hashes,
                   about |-> About(op, id, new)]
  <1>1. /\ m.at = at /\ m.op = op /\ m.id = id /\ m.new = new /\ m.hashes = hashes
        /\ m.about = About(op, id, new)
    OBVIOUS
  <1>0. About(op, id, new) \subseteq {id, "super_admin"} /\ (op \notin {"create_user", "create_tenant", "logout"} =>
          id \in About(op, id, new))
    BY DEF About
  <1>2. m \in TaskType
    BY <1>0 DEF TaskType, UserOps, TenantOps
  <1>3. TaskShape(m)
    BY <1>0, <1>1 DEF TaskShape, UserOps, TenantOps
  <1>4. task' = [task EXCEPT ![t] = m] /\ task[t].at = "idle"
    BY DEF Start
  <1>5. task[t] = IdleTask
    BY <1>4 DEF Types, RecordTypes, TaskShape
  <1> HIDE DEF m
  <1> QED
    BY <1>1, <1>2, <1>3, <1>4, <1>5

(* A task goes on. *)
LEMMA GoesOn ==
    ASSUME Types, NEW t \in Tasks, NEW s, Goto(t, s), task[t].at # "idle",
           \/ task[t].at = "row" /\ s = "memory"
           \/ task[t].at = "unrow" /\ s = "forget"
           \/ task[t].at = "forget" /\ s = "row" /\ task[t].op = "delete_user"
    PROVE  \E m \in TaskType :
              /\ m.at = s /\ m.op = task[t].op /\ m.id = task[t].id /\ m.new = task[t].new
              /\ m.hashes = task[t].hashes /\ m.about = task[t].about
              /\ TaskShape(m) /\ task' = [task EXCEPT ![t] = m]
  <1>a. task[t] \in TaskType /\ TaskShape(task[t])
    BY DEF Types, RecordTypes
  <1> DEFINE m == [task[t] EXCEPT !.at = s]
  <1>1. /\ m \in TaskType /\ m.at = s /\ m.op = task[t].op /\ m.id = task[t].id /\ m.new = task[t].new
        /\ m.hashes = task[t].hashes /\ m.about = task[t].about
    BY <1>a DEF TaskType
  <1>2. task' = [task EXCEPT ![t] = m]
    BY DEF Goto
  <1> HIDE DEF m
  <1>3. TaskShape(m)
    BY <1>a, <1>1 DEF TaskShape, UserOps
  <1> QED
    BY <1>1, <1>2, <1>3

(* revoke_user_sessions collects the sessions it takes away, or there are none. *)
LEMMA Collects ==
    ASSUME Types, NEW t \in Tasks, CollectSessions(t), task[t].at = "memory",
           task[t].op \in {"update_user", "password"}
    PROVE  \E m \in TaskType :
              /\ m = IdleTask \/ (m.at = "unrow" /\ m.op = task[t].op /\ m.id = task[t].id /\ m.new = task[t].new)
              /\ \A s \in m.hashes : sessions[s] # None
              /\ m.about \subseteq task[t].about /\ TaskShape(m) /\ task' = [task EXCEPT ![t] = m]
  <1>a. task[t] \in TaskType /\ TaskShape(task[t]) /\ task \in [Tasks -> TaskType]
    BY DEF Types, RecordTypes
  <1> DEFINE gone == SessionsOf(task[t].id) \ task[t].hashes
  <1>b. task[t].id \in Users
    BY <1>a DEF TaskShape, UserOps
  <1>c. gone \subseteq Sessions /\ \A s \in gone : sessions[s] # None
    BY <1>b, Constants DEF SessionsOf
  <1>1. CASE gone = {}
    BY <1>1, Constants DEF CollectSessions, Done
  <1>2. CASE gone # {}
    <2> DEFINE m == [task[t] EXCEPT !.at = "unrow", !.hashes = gone]
    <2>1. /\ m \in TaskType /\ m.at = "unrow" /\ m.op = task[t].op /\ m.id = task[t].id /\ m.new = task[t].new
          /\ m.hashes = gone /\ m.about = task[t].about
      BY <1>a, <1>c DEF TaskType
    <2>2. task' = [task EXCEPT ![t].at = "unrow", ![t].hashes = gone]
      BY <1>2 DEF CollectSessions
    <2>3. task' = [task EXCEPT ![t] = m]
      BY <1>a, <2>2
    <2> HIDE DEF m, gone
    <2>4. TaskShape(m)
      BY <1>a, <2>1 DEF TaskShape, UserOps
    <2> QED
      BY <1>c, <2>1, <2>3, <2>4
  <1> QED
    BY <1>1, <1>2

-----------------------------------------------------------------------------
(* A step of a task that leaves sessions and logins alone: what it is going to take away it
   found in memory, so it is no session that a login is still to publish. *)
LEMMA SessionsKept ==
    ASSUME SessionInv, NEW t \in Tasks, NEW m \in TaskType, TaskShape(m),
           task' = [task EXCEPT ![t] = m], m.at # "forget", task[t].at # "forget",
           \A s \in m.hashes : s \in task[t].hashes \/ sessions[s] # None,
           UNCHANGED <<sessionVars, bootVars, login>>,
           users' \in [Users -> UserRec], userRows' \in [Users -> UserRec],
           tenants' \in [Tenants -> TenantRec], tenantRows' \in [Tenants -> TenantRec]
    PROVE  SessionInv'
  <1>a. UNCHANGED <<sessions, sessionRows, expired, issued, dead, kept, boot, login>>
    BY DEF sessionVars, bootVars
  <1>b. \A k \in Tasks : task'[k] = IF k = t THEN m ELSE task[k]
    BY DEF SessionInv, Types, RecordTypes
  <1>c. m.hashes \subseteq Sessions
    BY DEF TaskType
  <1>1. Types'
    <2>1. task' \in [Tasks -> TaskType] /\ \A k \in Tasks : TaskShape(task'[k])
      BY <1>b DEF SessionInv, Types, RecordTypes
    <2>2. \A k \in Tasks : TaskShape(task[k])'
      BY <2>1 DEF TaskShape
    <2> QED
      BY <1>a, <2>1, <2>2 DEF SessionInv, Types, RecordTypes, LoginTypes, BootTypes
  <1>2. IssuedOnce'
    BY <1>a, <1>b, <1>c DEF SessionInv, IssuedOnce
  <1>3. LandingSound'
    <2> SUFFICES ASSUME NEW l \in Logins, login[l].at = "memory", NEW s, s = login[l].session
                 PROVE  /\ s \in Sessions /\ s \in issued /\ sessions[s] = None /\ s \notin dead
                        /\ sessionRows[s] = login[l].user
                        /\ \A k \in Tasks : s \notin task'[k].hashes
                        /\ \A k \in Logins : Landing(k, s) => k = l
      BY <1>a DEF LandingSound, Landing
    <2>1. /\ s \in Sessions /\ s \in issued /\ sessions[s] = None /\ s \notin dead
          /\ sessionRows[s] = login[l].user
          /\ \A k \in Tasks : s \notin task[k].hashes
          /\ \A k \in Logins : Landing(k, s) => k = l
      BY DEF SessionInv, LandingSound
    <2> QED
      BY <1>b, <2>1
  <1>4. DeadSound'
    BY <1>a, <1>b DEF SessionInv, DeadSound, Forgetting
  <1>5. \A s \in Sessions \ (kept' \cup expired') : SessionAgrees(s)'
    BY <1>a, <1>b DEF SessionInv, SessionAgrees, Landing, Forgetting
  <1> QED
    BY <1>1, <1>2, <1>3, <1>4, <1>5 DEF SessionInv

(* A step that changes neither sessions nor tasks nor logins. *)
LEMMA SessionsSame ==
    ASSUME SessionInv, UNCHANGED <<sessionVars, login, task, tenants, tenantRows>>,
           users' \in [Users -> UserRec], userRows' \in [Users -> UserRec], BootTypes'
    PROVE  SessionInv'
  <1>a. UNCHANGED <<sessions, sessionRows, expired, issued, dead, kept, login, task>>
    BY DEF sessionVars
  <1>1. Types'
    BY <1>a DEF SessionInv, Types, RecordTypes, LoginTypes, TaskShape
  <1> QED
    BY <1>a, <1>1 DEF SessionInv, IssuedOnce, LandingSound, DeadSound, SessionAgrees, Landing, Forgetting

-----------------------------------------------------------------------------
(* The principals are users and the holder of the admin token; who authorizes is in memory. *)
LEMMA AuthorizedUser ==
    ASSUME Types, NEW s \in Sessions, Authorizes(s)
    PROVE  sessions[s] \in Users /\ users[sessions[s]].enabled /\ sessions[s] # None
  BY Constants DEF Types, LoginTypes, Authorizes

(* A request about a tenant begins with the statement. *)
LEMMA TenantRequests ==
    ASSUME tenants \in [Tenants -> TenantRec], NEW t \in Tasks, TenantRequest(t)
    PROVE  \E n \in Tenants, op \in TenantOps, new \in TenantRec :
              /\ Start(t, op, n, "row", new, {})
              /\ op # "create_tenant" => tenants[n] # NoTenant
              /\ op = "update_tenant" => new.token = tenants[n].token
              /\ op = "rotate" => new.enabled = tenants[n].enabled
              /\ op = "delete_tenant" => new = NoTenant
              /\ op = "create_tenant" => new # NoTenant
  <1>1. PICK p \in Principals, n \in Tenants :
            \/ CreateTenant(t, p, n) \/ DeleteTenant(t, p, n) \/ RotateAgentToken(t, p, n)
            \/ \E on \in BOOLEAN : UpdateTenant(t, p, n, on)
    BY DEF TenantRequest
  <1>2. CASE CreateTenant(t, p, n)
    <2>1. Tenant(TRUE, "old") \in TenantRec /\ Tenant(TRUE, "old") # NoTenant /\ "create_tenant" \in TenantOps
      BY DEF Tenant, TenantRec, TenantOps, NoTenant
    <2> QED
      BY <1>2, <2>1 DEF CreateTenant
  <1>3. CASE DeleteTenant(t, p, n)
    <2>1. NoTenant \in TenantRec /\ "delete_tenant" \in TenantOps
      BY Constants DEF TenantOps
    <2> QED
      BY <1>3, <2>1 DEF DeleteTenant, DeleteTenantChecks
  <1>4. CASE RotateAgentToken(t, p, n)
    <2>1. PICK new \in TenantRec : new = Tenant(tenants[n].enabled, "new")
      BY DEF Tenant, TenantRec
    <2>2. "rotate" \in TenantOps /\ new.enabled = tenants[n].enabled
      BY <2>1 DEF Tenant, TenantOps
    <2>3. Start(t, "rotate", n, "row", new, {}) /\ tenants[n] # NoTenant
      BY <1>4, <2>1 DEF RotateAgentToken
    <2> QED
      BY <2>2, <2>3
  <1>5. ASSUME NEW on \in BOOLEAN, UpdateTenant(t, p, n, on)
        PROVE  \E new \in TenantRec : /\ Start(t, "update_tenant", n, "row", new, {})
                                      /\ tenants[n] # NoTenant /\ new.token = tenants[n].token
    <2>1. PICK new \in TenantRec : new = Tenant(on, tenants[n].token)
      BY DEF Tenant, TenantRec
    <2>2. new.token = tenants[n].token
      BY <2>1 DEF Tenant
    <2>3. Start(t, "update_tenant", n, "row", new, {}) /\ tenants[n] # NoTenant
      BY <1>5, <2>1 DEF UpdateTenant, UpdateTenantChecks
    <2> QED
      BY <2>2, <2>3
  <1>6. "update_tenant" \in TenantOps
    BY DEF TenantOps
  <1> QED
    BY <1>1, <1>2, <1>3, <1>4, <1>5, <1>6

(* Requests: a task begins with the sessions it found. *)
LEMMA RequestSessions ==
    ASSUME SessionInv, NEW t \in Tasks,
           UserRequest(t) \/ TenantRequest(t) \/ \E s \in Sessions : ChangePassword(t, s) \/ Logout(t, s)
    PROVE  SessionInv'
  <1>a. /\ Types /\ users \in [Users -> UserRec] /\ tenants \in [Tenants -> TenantRec]
        /\ userRows \in [Users -> UserRec] /\ tenantRows \in [Tenants -> TenantRec]
    BY DEF SessionInv, Types, RecordTypes
  <1>1. ASSUME NEW op, NEW id, NEW at, NEW new, NEW hashes \in SUBSET Sessions,
               Start(t, op, id, at, new, hashes), \A s \in hashes : sessions[s] # None,
               \/ op \in UserOps /\ id \in Users /\ new \in UserRec /\ at = "row"
               \/ op = "delete_user" /\ id \in Users /\ new \in UserRec /\ at = "unrow"
               \/ op \in TenantOps /\ id \in Tenants /\ new \in TenantRec /\ at = "row"
               \/ op = "logout" /\ id \in Users /\ new = None /\ at = "unrow"
        PROVE  SessionInv'
    <2>1. PICK m \in TaskType : /\ m.at = at /\ m.hashes = hashes /\ TaskShape(m)
                                /\ task' = [task EXCEPT ![t] = m]
      BY <1>a, <1>1, Begins
    <2>2. task[t].at # "forget" /\ m.at # "forget"
      BY <1>1, <2>1 DEF Start
    <2>3. /\ UNCHANGED <<sessionVars, bootVars, login>> /\ UNCHANGED <<users, userRows, tenants, tenantRows>>
      BY <1>1 DEF Start, userVars, tenantVars
    <2> QED
      BY <1>a, <1>1, <2>1, <2>2, <2>3, SessionsKept
  <1>2. CASE UserRequest(t)
    <2>1. PICK p \in Principals, u \in Users :
             \/ \E role \in Roles, n \in Tenants \cup {None} : CreateUser(t, p, u, role, n)
             \/ \E new \in [role : Roles, tenant : Tenants \cup {None}, enabled : BOOLEAN], pw \in BOOLEAN :
                   UpdateUser(t, p, u, new, pw)
             \/ DeleteUser(t, p, u)
      BY <1>2 DEF UserRequest
    <2>2. ASSUME NEW role \in Roles, NEW n \in Tenants \cup {None}, CreateUser(t, p, u, role, n) PROVE SessionInv'
      <3>1. User(role, n, TRUE) \in UserRec /\ "create_user" \in UserOps
        BY DEF User, UserRec, UserOps
      <3>2. PICK new \in UserRec : Start(t, "create_user", u, "row", new, {})
        BY <2>2, <3>1 DEF CreateUser
      <3> QED
        BY <1>1, <3>1, <3>2
    <2>3. ASSUME NEW new \in [role : Roles, tenant : Tenants \cup {None}, enabled : BOOLEAN], NEW pw \in BOOLEAN,
                 UpdateUser(t, p, u, new, pw)
          PROVE  SessionInv'
      <3>1. PICK op \in {"update_user", "rename_user"} : Start(t, op, u, "row", new, {})
        BY <2>3 DEF UpdateUser
      <3>2. new \in UserRec /\ op \in UserOps
        BY DEF UserRec, UserOps
      <3> QED
        BY <1>1, <3>1, <3>2
    <2>4. CASE DeleteUser(t, p, u)
      <3>1. Start(t, "delete_user", u, "unrow", users[u], SessionsOf(u))
        BY <2>4 DEF DeleteUser
      <3>2. users[u] \in UserRec /\ SessionsOf(u) \subseteq Sessions /\ \A s \in SessionsOf(u) : sessions[s] # None
        BY <1>a, Constants DEF SessionsOf
      <3> QED
        BY <1>1, <3>1, <3>2
    <2> QED
      BY <2>1, <2>2, <2>3, <2>4
  <1>3. CASE TenantRequest(t)
    <2>1. PICK n \in Tenants, op \in TenantOps, new \in TenantRec : Start(t, op, n, "row", new, {})
      BY <1>a, <1>3, TenantRequests
    <2> QED
      BY <1>1, <2>1
  <1>4. ASSUME NEW s \in Sessions, ChangePassword(t, s) PROVE SessionInv'
    <2>1. /\ Start(t, "password", sessions[s], "row", users[sessions[s]], {s}) /\ "password" \in UserOps
          /\ sessions[s] \in Users /\ users[sessions[s]] \in UserRec /\ sessions[s] # None
      BY <1>a, <1>4, AuthorizedUser DEF ChangePassword, UserOps
    <2> QED
      BY <1>1, <2>1
  <1>5. ASSUME NEW s \in Sessions, Logout(t, s) PROVE SessionInv'
    <2>1. Start(t, "logout", sessions[s], "unrow", None, {s}) /\ sessions[s] \in Users /\ sessions[s] # None
      BY <1>a, <1>5, AuthorizedUser DEF Logout
    <2> QED
      BY <1>1, <2>1
  <1> QED
    BY <1>2, <1>3, <1>4, <1>5

(* Statements and changes in memory: the task goes on, collects the sessions or ends. *)
LEMMA MovesOn ==
    ASSUME SessionInv, NEW t \in Tasks,
           \/ task[t].at = "row" /\ Goto(t, "memory")
           \/ task[t].at \in {"row", "memory"} /\ Done(t)
           \/ task[t].at = "memory" /\ task[t].op \in {"update_user", "password"} /\ CollectSessions(t),
           UNCHANGED <<sessionVars, bootVars, login>>,
           users' \in [Users -> UserRec], userRows' \in [Users -> UserRec],
           tenants' \in [Tenants -> TenantRec], tenantRows' \in [Tenants -> TenantRec]
    PROVE  SessionInv'
  <1>a. Types
    BY DEF SessionInv
  <1>1. CASE task[t].at = "row" /\ Goto(t, "memory")
    <2>1. PICK m \in TaskType : /\ m.at = "memory" /\ m.hashes = task[t].hashes /\ TaskShape(m)
                                /\ task' = [task EXCEPT ![t] = m]
      BY <1>a, <1>1, GoesOn
    <2> QED
      BY <1>1, <2>1, SessionsKept
  <1>2. CASE task[t].at \in {"row", "memory"} /\ Done(t)
    BY <1>2, Constants, SessionsKept DEF Done
  <1>3. CASE task[t].at = "memory" /\ task[t].op \in {"update_user", "password"} /\ CollectSessions(t)
    <2>1. PICK m \in TaskType : /\ m = IdleTask \/ m.at = "unrow"
                                /\ \A s \in m.hashes : sessions[s] # None
                                /\ TaskShape(m) /\ task' = [task EXCEPT ![t] = m]
      BY <1>a, <1>3, Collects
    <2>2. m.at # "forget"
      BY <2>1, Constants
    <2> QED
      BY <1>3, <2>1, <2>2, SessionsKept
  <1> QED
    BY <1>1, <1>2, <1>3

(* The rows and records of users are not those of sessions. *)
LEMMA UserSteps ==
    ASSUME SessionInv, NEW t \in Tasks,
           \/ InsertUser(t) \/ UpdateUserRow(t) \/ DeleteUserRow(t) \/ PasswordRow(t)
           \/ PublishCreated(t) \/ PublishUpdated(t) \/ PublishDeleted(t) \/ PublishPassword(t)
    PROVE  SessionInv'
  <1>a. /\ task[t] \in TaskType /\ TaskShape(task[t])
        /\ users \in [Users -> UserRec] /\ tenants \in [Tenants -> TenantRec]
        /\ userRows \in [Users -> UserRec] /\ tenantRows \in [Tenants -> TenantRec]
    BY DEF SessionInv, Types, RecordTypes
  <1>b. task[t].at \in {"row", "memory"} /\ task[t].op \in UserOps
    BY DEF InsertUser, UpdateUserRow, DeleteUserRow, PasswordRow, PublishCreated, PublishUpdated, PublishDeleted,
           PublishPassword, At, UserOps
  <1>c. task[t].id \in Users /\ task[t].new \in UserRec /\ NoUser \in UserRec
    BY <1>a, <1>b, Constants DEF TaskShape
  <1>1. CASE InsertUser(t) \/ UpdateUserRow(t) \/ DeleteUserRow(t) \/ PasswordRow(t)
    <2>1. UNCHANGED <<sessionVars, bootVars, login>> /\ UNCHANGED <<users, tenants, tenantRows>>
      BY <1>1 DEF InsertUser, UpdateUserRow, DeleteUserRow, PasswordRow, UserRowStep, tenantVars
    <2>2. task[t].at = "row"
      BY <1>1 DEF InsertUser, UpdateUserRow, DeleteUserRow, PasswordRow, At
    <2>3. \/ Done(t) /\ UNCHANGED userRows
          \/ \E row \in UserRec : Write(t, row)
      <3>1. CASE InsertUser(t)
        BY <1>c, <3>1 DEF InsertUser
      <3>2. CASE UpdateUserRow(t)
        <4>1. (IF userRows[task[t].id] = NoUser THEN NoUser ELSE task[t].new) \in UserRec
          BY <1>c
        <4> QED
          BY <3>2, <4>1 DEF UpdateUserRow
      <3>3. CASE DeleteUserRow(t)
        BY <1>c, <3>3 DEF DeleteUserRow
      <3>4. CASE PasswordRow(t)
        <4>1. userRows[task[t].id] \in UserRec
          BY <1>a, <1>c
        <4> QED
          BY <3>4, <4>1 DEF PasswordRow
      <3> QED
        BY <1>1, <3>1, <3>2, <3>3, <3>4
    <2>4. (Goto(t, "memory") \/ Done(t)) /\ userRows' \in [Users -> UserRec]
      BY <1>a, <1>c, <2>3 DEF Write
    <2> QED
      BY <1>a, <2>1, <2>2, <2>4, MovesOn
  <1>2. CASE PublishCreated(t) \/ PublishUpdated(t) \/ PublishDeleted(t) \/ PublishPassword(t)
    <2>1. UNCHANGED <<sessionVars, bootVars, login>> /\ UNCHANGED <<userRows, tenants, tenantRows>>
      BY <1>2 DEF PublishCreated, PublishUpdated, PublishDeleted, PublishPassword, Publish, tenantVars
    <2>2. users' \in [Users -> UserRec]
      BY <1>a, <1>c, <1>2 DEF PublishCreated, PublishUpdated, PublishDeleted, PublishPassword, Publish
    <2>3. \/ Done(t)
          \/ task[t].op \in {"update_user", "password"} /\ CollectSessions(t)
      BY <1>2 DEF PublishCreated, PublishUpdated, PublishDeleted, PublishPassword, At
    <2>4. task[t].at = "memory"
      BY <1>2 DEF PublishCreated, PublishUpdated, PublishDeleted, PublishPassword, At
    <2> QED
      BY <1>a, <2>1, <2>2, <2>3, <2>4, MovesOn
  <1> QED
    BY <1>1, <1>2

(* ... nor are those of tenants. *)
LEMMA TenantSteps ==
    ASSUME SessionInv, NEW t \in Tasks,
           InsertTenant(t) \/ UpdateTenantRow(t) \/ RotateTokenRow(t) \/ DeleteTenantRow(t) \/ PublishTenant(t)
    PROVE  SessionInv'
  <1>a. /\ task[t] \in TaskType /\ TaskShape(task[t])
        /\ users \in [Users -> UserRec] /\ tenants \in [Tenants -> TenantRec]
        /\ userRows \in [Users -> UserRec] /\ tenantRows \in [Tenants -> TenantRec]
    BY DEF SessionInv, Types, RecordTypes
  <1>b. task[t].at \in {"row", "memory"} /\ task[t].op \in TenantOps
    BY DEF InsertTenant, UpdateTenantRow, RotateTokenRow, DeleteTenantRow, PublishTenant, At, TenantOps
  <1>c. task[t].id \in Tenants /\ task[t].new \in TenantRec /\ NoTenant \in TenantRec
    BY <1>a, <1>b, Constants DEF TaskShape
  <1>d. tenantRows[task[t].id] \in TenantRec
    BY <1>a, <1>c
  <1>1. CASE InsertTenant(t) \/ UpdateTenantRow(t) \/ RotateTokenRow(t) \/ DeleteTenantRow(t)
    <2>0. CASE Done(t) /\ UNCHANGED <<users, userRows, tenantVars, sessionVars, bootVars, login, left>>
      BY <1>a, <1>b, <2>0, MovesOn DEF tenantVars
    <2>1. CASE \E row \in TenantRec : TenantWrite(t, row)
      <3>1. PICK row \in TenantRec : TenantWrite(t, row)
        BY <2>1
      <3>2. UNCHANGED <<sessionVars, bootVars, login>> /\ UNCHANGED <<users, userRows, tenants>>
        BY <3>1 DEF TenantWrite
      <3>3. (Goto(t, "memory") \/ Done(t)) /\ tenantRows' \in [Tenants -> TenantRec]
        BY <1>a, <1>c, <3>1 DEF TenantWrite
      <3>4. task[t].at = "row"
        BY <1>1 DEF InsertTenant, UpdateTenantRow, RotateTokenRow, DeleteTenantRow, At
      <3> QED
        BY <1>a, <3>2, <3>3, <3>4, MovesOn
    <2>2. \/ Done(t) /\ UNCHANGED <<users, userRows, tenantVars, sessionVars, bootVars, login, left>>
          \/ \E row \in TenantRec : TenantWrite(t, row)
      <3>1. CASE InsertTenant(t)
        BY <1>c, <3>1 DEF InsertTenant
      <3>2. CASE UpdateTenantRow(t)
        <4>1. [tenantRows[task[t].id] EXCEPT !.enabled = task[t].new.enabled] \in TenantRec
          BY <1>c, <1>d DEF TenantRec
        <4> QED
          BY <1>d, <3>2, <4>1 DEF UpdateTenantRow
      <3>3. CASE RotateTokenRow(t)
        <4>1. [tenantRows[task[t].id] EXCEPT !.token = task[t].new.token] \in TenantRec
          BY <1>c, <1>d DEF TenantRec
        <4> QED
          BY <1>d, <3>3, <4>1 DEF RotateTokenRow
      <3>4. CASE DeleteTenantRow(t)
        BY <1>c, <3>4 DEF DeleteTenantRow
      <3> QED
        BY <1>1, <3>1, <3>2, <3>3, <3>4
    <2> QED
      BY <2>0, <2>1, <2>2
  <1>2. CASE PublishTenant(t)
    <2>1. UNCHANGED <<sessionVars, bootVars, login>> /\ UNCHANGED <<users, userRows, tenantRows>>
      BY <1>2 DEF PublishTenant, userVars
    <2>2. tenants' \in [Tenants -> TenantRec] /\ Done(t) /\ task[t].at = "memory"
      BY <1>a, <1>c, <1>2 DEF PublishTenant, At
    <2> QED
      BY <1>a, <2>1, <2>2, MovesOn
  <1> QED
    BY <1>1, <1>2

-----------------------------------------------------------------------------
(* The DELETEs come first; a session whose DELETE failed counts as kept. *)
LEMMA DeleteSessionsInv == ASSUME SessionInv, NEW t \in Tasks, DeleteSessions(t) PROVE SessionInv'
  <1>a. /\ Types /\ task[t] \in TaskType /\ TaskShape(task[t]) /\ task[t].at = "unrow" /\ Goto(t, "forget")
    BY DEF SessionInv, Types, RecordTypes, DeleteSessions
  <1>b. PICK m \in TaskType : /\ m.at = "forget" /\ m.hashes = task[t].hashes /\ TaskShape(m)
                              /\ task' = [task EXCEPT ![t] = m]
    BY <1>a, GoesOn
  <1>c. PICK failed \in SUBSET task[t].hashes :
           /\ sessionRows' = [s \in Sessions |-> IF s \in task[t].hashes \ failed THEN None ELSE sessionRows[s]]
           /\ kept' = kept \cup failed
    BY DEF DeleteSessions
  <1>d. /\ UNCHANGED <<sessions, expired, issued, dead, login, boot>>
        /\ UNCHANGED <<users, userRows, tenants, tenantRows>>
    BY DEF DeleteSessions, userVars, tenantVars, bootVars
  <1>e. \A k \in Tasks : task'[k] = IF k = t THEN m ELSE task[k]
    BY <1>b DEF SessionInv, Types, RecordTypes
  <1>f. m.hashes \subseteq Sessions
    BY <1>b DEF TaskType
  <1>1. Types'
    <2>1. task' \in [Tasks -> TaskType] /\ \A k \in Tasks : TaskShape(task'[k])
      BY <1>b, <1>e DEF SessionInv, Types, RecordTypes
    <2>2. \A k \in Tasks : TaskShape(task[k])'
      BY <2>1 DEF TaskShape
    <2>3. sessionRows' \in [Sessions -> Users \cup {None}]
      BY <1>c DEF SessionInv, Types, LoginTypes
    <2> QED
      BY <1>d, <2>1, <2>2, <2>3 DEF SessionInv, Types, RecordTypes, LoginTypes, BootTypes
  <1>2. IssuedOnce'
    BY <1>b, <1>c, <1>d, <1>e DEF SessionInv, IssuedOnce
  <1>3. LandingSound'
    <2> SUFFICES ASSUME NEW l \in Logins, login[l].at = "memory", NEW s, s = login[l].session
                 PROVE  /\ s \in Sessions /\ s \in issued /\ sessions[s] = None /\ s \notin dead
                        /\ sessionRows'[s] = login[l].user
                        /\ \A k \in Tasks : s \notin task'[k].hashes
                        /\ \A k \in Logins : Landing(k, s) => k = l
      BY <1>d DEF LandingSound, Landing
    <2>1. /\ s \in Sessions /\ s \in issued /\ sessions[s] = None /\ s \notin dead
          /\ sessionRows[s] = login[l].user
          /\ \A k \in Tasks : s \notin task[k].hashes
          /\ \A k \in Logins : Landing(k, s) => k = l
      BY DEF SessionInv, LandingSound
    <2> QED
      BY <1>b, <1>c, <1>e, <2>1
  <1>4. DeadSound'
    <2>1. ASSUME NEW k \in Tasks, NEW s \in Sessions \ kept', Forgetting(k, s)' PROVE sessionRows'[s] = None
      <3>1. k = t => s \in task[t].hashes \ failed
        BY <1>b, <1>c, <1>e, <2>1 DEF Forgetting
      <3>2. k # t => sessionRows[s] = None
        BY <1>c, <1>e, <2>1 DEF SessionInv, DeadSound, Forgetting
      <3> QED
        BY <1>c, <3>1, <3>2
    <2>2. \A s \in dead' \ kept' : sessions'[s] = None /\ sessionRows'[s] = None
      BY <1>c, <1>d DEF SessionInv, DeadSound, Types, LoginTypes
    <2> QED
      BY <2>1, <2>2 DEF DeadSound
  <1>5. \A s \in Sessions \ (kept' \cup expired') : SessionAgrees(s)'
    <2> SUFFICES ASSUME NEW s \in Sessions, s \notin kept', s \notin expired' PROVE SessionAgrees(s)'
      OBVIOUS
    <2>1. s \notin kept /\ s \notin failed /\ SessionAgrees(s)
      BY <1>c, <1>d DEF SessionInv
    <2>2. CASE s \in task[t].hashes
      <3>1. Forgetting(t, s)'
        BY <1>b, <1>e, <2>2 DEF Forgetting
      <3> QED
        BY <3>1 DEF SessionAgrees
    <2>3. CASE s \notin task[t].hashes
      <3>1. sessionRows'[s] = sessionRows[s] /\ sessions'[s] = sessions[s]
        BY <1>c, <1>d, <2>3
      <3>2. \A k \in Tasks : Forgetting(k, s) => Forgetting(k, s)'
        BY <1>a, <1>e, <2>3 DEF Forgetting
      <3>3. \A l \in Logins : Landing(l, s) => Landing(l, s)'
        BY <1>d DEF Landing
      <3> QED
        BY <2>1, <3>1, <3>2, <3>3 DEF SessionAgrees
    <2> QED
      BY <2>2, <2>3
  <1> QED
    BY <1>1, <1>2, <1>3, <1>4, <1>5 DEF SessionInv

(* ... then they leave memory, and are dead. *)
LEMMA ForgetSessionsInv == ASSUME SessionInv, NEW t \in Tasks, ForgetSessions(t) PROVE SessionInv'
  <1>a. /\ Types /\ task[t] \in TaskType /\ TaskShape(task[t]) /\ task[t].at = "forget"
        /\ (task[t].op = "delete_user" /\ Goto(t, "row")) \/ Done(t)
    BY DEF SessionInv, Types, RecordTypes, ForgetSessions
  <1>b. PICK m \in TaskType : /\ m.at \in {"idle", "row"} /\ m.hashes \subseteq task[t].hashes /\ TaskShape(m)
                              /\ task' = [task EXCEPT ![t] = m]
    <2>1. CASE Done(t)
      BY <2>1, Constants DEF Done
    <2>2. CASE task[t].op = "delete_user" /\ Goto(t, "row")
      <3>1. PICK m \in TaskType : /\ m.at = "row" /\ m.hashes = task[t].hashes /\ TaskShape(m)
                                  /\ task' = [task EXCEPT ![t] = m]
        BY <1>a, <2>2, GoesOn
      <3> QED
        BY <3>1
    <2> QED
      BY <1>a, <2>1, <2>2
  <1>c. /\ sessions' = [s \in Sessions |-> IF s \in task[t].hashes THEN None ELSE sessions[s]]
        /\ dead' = dead \cup task[t].hashes
    BY DEF ForgetSessions
  <1>d. /\ UNCHANGED <<sessionRows, expired, issued, kept, login, boot>>
        /\ UNCHANGED <<users, userRows, tenants, tenantRows>>
    BY DEF ForgetSessions, userVars, tenantVars, bootVars
  <1>e. \A k \in Tasks : task'[k] = IF k = t THEN m ELSE task[k]
    BY <1>b DEF SessionInv, Types, RecordTypes
  <1>f. task[t].hashes \subseteq Sessions
    BY <1>a DEF TaskType
  <1>1. Types'
    <2>1. task' \in [Tasks -> TaskType] /\ \A k \in Tasks : TaskShape(task'[k])
      BY <1>b, <1>e DEF SessionInv, Types, RecordTypes
    <2>2. \A k \in Tasks : TaskShape(task[k])'
      BY <2>1 DEF TaskShape
    <2>3. sessions' \in [Sessions -> Users \cup {None}] /\ dead' \subseteq Sessions
      BY <1>c, <1>f DEF SessionInv, Types, LoginTypes
    <2> QED
      BY <1>d, <2>1, <2>2, <2>3 DEF SessionInv, Types, RecordTypes, LoginTypes, BootTypes
  <1>2. IssuedOnce'
    BY <1>b, <1>c, <1>d, <1>e DEF SessionInv, IssuedOnce
  <1>3. LandingSound'
    <2> SUFFICES ASSUME NEW l \in Logins, login[l].at = "memory", NEW s, s = login[l].session
                 PROVE  /\ s \in Sessions /\ s \in issued /\ sessions'[s] = None /\ s \notin dead'
                        /\ sessionRows[s] = login[l].user
                        /\ \A k \in Tasks : s \notin task'[k].hashes
                        /\ \A k \in Logins : Landing(k, s) => k = l
      BY <1>d DEF LandingSound, Landing
    <2>1. /\ s \in Sessions /\ s \in issued /\ sessions[s] = None /\ s \notin dead
          /\ sessionRows[s] = login[l].user
          /\ \A k \in Tasks : s \notin task[k].hashes
          /\ \A k \in Logins : Landing(k, s) => k = l
      BY DEF SessionInv, LandingSound
    <2> QED
      BY <1>b, <1>c, <1>e, <2>1
  <1>4. DeadSound'
    <2>1. ASSUME NEW k \in Tasks, NEW s \in Sessions \ kept', Forgetting(k, s)' PROVE sessionRows'[s] = None
      BY <1>b, <1>d, <1>e, <2>1 DEF SessionInv, DeadSound, Forgetting
    <2>2. ASSUME NEW s \in dead' \ kept' PROVE sessions'[s] = None /\ sessionRows'[s] = None
      <3>1. s \in Sessions /\ s \notin kept
        BY <1>c, <1>d, <1>f DEF SessionInv, Types, LoginTypes
      <3>2. CASE s \in task[t].hashes
        BY <1>a, <1>c, <1>d, <3>1, <3>2 DEF SessionInv, DeadSound, Forgetting
      <3>3. CASE s \notin task[t].hashes
        BY <1>c, <1>d, <3>1, <3>3 DEF SessionInv, DeadSound
      <3> QED
        BY <3>2, <3>3
    <2> QED
      BY <2>1, <2>2 DEF DeadSound
  <1>5. \A s \in Sessions \ (kept' \cup expired') : SessionAgrees(s)'
    <2> SUFFICES ASSUME NEW s \in Sessions, s \notin kept', s \notin expired' PROVE SessionAgrees(s)'
      OBVIOUS
    <2>1. s \notin kept /\ SessionAgrees(s)
      BY <1>d DEF SessionInv
    <2>2. CASE s \in task[t].hashes
      <3>1. sessionRows[s] = None
        BY <1>a, <2>1, <2>2 DEF SessionInv, DeadSound, Forgetting
      <3> QED
        BY <1>c, <1>d, <2>2, <3>1 DEF SessionAgrees
    <2>3. CASE s \notin task[t].hashes
      <3>1. sessionRows'[s] = sessionRows[s] /\ sessions'[s] = sessions[s]
        BY <1>c, <1>d, <2>3
      <3>2. \A k \in Tasks : Forgetting(k, s) => Forgetting(k, s)'
        BY <1>a, <1>e, <2>3 DEF Forgetting
      <3>3. \A l \in Logins : Landing(l, s) => Landing(l, s)'
        BY <1>d DEF Landing
      <3> QED
        BY <2>1, <3>1, <3>2, <3>3 DEF SessionAgrees
    <2> QED
      BY <2>2, <2>3
  <1> QED
    BY <1>1, <1>2, <1>3, <1>4, <1>5 DEF SessionInv

-----------------------------------------------------------------------------
LoginType == [at : {"idle", "check", "insert", "memory", "prune"},
              user : Users \cup {None}, session : Sessions \cup {None}]

(* A login before and after its session is in the database and not in memory. *)
LEMMA LoginMoves ==
    ASSUME SessionInv, NEW l \in Logins, NEW k \in LoginType, login' = [login EXCEPT ![l] = k],
           k.at # "memory", k.at # "idle" => k.user \in Users, login[l].at # "memory",
           UNCHANGED <<userVars, tenantVars, sessionVars, bootVars, task>>
    PROVE  SessionInv'
  <1>a. /\ UNCHANGED <<sessions, sessionRows, expired, issued, dead, kept, boot, task>>
        /\ UNCHANGED <<users, userRows, tenants, tenantRows>>
    BY DEF sessionVars, bootVars, userVars, tenantVars
  <1>b. login \in [Logins -> LoginType] /\ \A j \in Logins : login'[j] = IF j = l THEN k ELSE login[j]
    BY DEF SessionInv, Types, LoginTypes, LoginType
  <1>1. Types'
    <2>1. LoginTypes'
      BY <1>a, <1>b DEF SessionInv, Types, LoginTypes, LoginType
    <2> QED
      BY <1>a, <2>1 DEF SessionInv, Types, RecordTypes, BootTypes, TaskShape
  <1>2. \A j \in Logins : \A s : Landing(j, s)' <=> Landing(j, s)
    BY <1>b DEF Landing
  <1>3. IssuedOnce' /\ DeadSound'
    BY <1>a DEF SessionInv, IssuedOnce, DeadSound, Forgetting
  <1>4. LandingSound'
    BY <1>a, <1>b, <1>2 DEF SessionInv, LandingSound
  <1>5. \A s \in Sessions \ (kept' \cup expired') : SessionAgrees(s)'
    BY <1>a, <1>2 DEF SessionInv, SessionAgrees, Forgetting
  <1> QED
    BY <1>1, <1>3, <1>4, <1>5 DEF SessionInv

(* A login that has verified or looked up its user has drawn no token yet. *)
LEMMA VerifyInv ==
    ASSUME SessionInv, NEW l \in Logins, CheckEnabled(l) \/ \E u \in Users : Verify(l, u)
    PROVE  SessionInv'
  <1>a. /\ login \in [Logins -> LoginType] /\ login[l] \in LoginType
        /\ login[l].at # "idle" => login[l].user \in Users
    BY DEF SessionInv, Types, LoginTypes, LoginType
  <1>b. IdleLogin \in LoginType /\ IdleLogin.at = "idle"
    BY Constants DEF LoginType
  <1>c. login[l].at # "memory" /\ UNCHANGED <<userVars, tenantVars, sessionVars, bootVars, task>>
    BY DEF CheckEnabled, Verify
  <1>1. ASSUME NEW u \in Users, Verify(l, u) PROVE SessionInv'
    <2> DEFINE k == [IdleLogin EXCEPT !.at = "check", !.user = u]
    <2>1. k \in LoginType /\ k.at = "check" /\ k.user = u
      BY <1>b DEF LoginType
    <2>2. login' = [login EXCEPT ![l] = k]
      BY <1>1 DEF Verify
    <2> HIDE DEF k
    <2> QED
      BY <1>c, <2>1, <2>2, LoginMoves
  <1>2. CASE CheckEnabled(l) /\ login' = [login EXCEPT ![l] = IdleLogin]
    BY <1>b, <1>c, <1>2, LoginMoves
  <1>3. CASE CheckEnabled(l) /\ login' = [login EXCEPT ![l].at = "insert"]
    <2> DEFINE k == [login[l] EXCEPT !.at = "insert"]
    <2>1. k \in LoginType /\ k.at = "insert" /\ k.user = login[l].user /\ login[l].at = "check"
      BY <1>a, <1>3 DEF LoginType, CheckEnabled
    <2>2. login' = [login EXCEPT ![l] = k]
      BY <1>3
    <2> HIDE DEF k
    <2> QED
      BY <1>a, <1>c, <2>1, <2>2, LoginMoves
  <1> QED
    BY <1>1, <1>2, <1>3 DEF CheckEnabled

(* The row of a session comes first, with a token nobody has. *)
LEMMA InsertSessionInv == ASSUME SessionInv, NEW l \in Logins, InsertSession(l) PROVE SessionInv'
  <1>a. /\ login \in [Logins -> LoginType] /\ login[l] \in LoginType
        /\ login[l].at = "insert" /\ login[l].user \in Users
        /\ sessions \in [Sessions -> Users \cup {None}] /\ sessionRows \in [Sessions -> Users \cup {None}]
    BY DEF SessionInv, Types, LoginTypes, LoginType, InsertSession
  <1>b. IdleLogin \in LoginType /\ IdleLogin.at = "idle" /\ None \notin Users
    BY Constants DEF LoginType
  <1>c. /\ UNCHANGED <<sessions, expired, dead, kept, boot, task>>
        /\ UNCHANGED <<users, userRows, tenants, tenantRows>>
    BY DEF InsertSession, bootVars, userVars, tenantVars
  <1>1. CASE UNCHANGED <<sessionRows, issued>> /\ login' = [login EXCEPT ![l] = IdleLogin]
    <2>1. UNCHANGED <<userVars, tenantVars, sessionVars, bootVars, task>>
      BY <1>1 DEF InsertSession, sessionVars
    <2> QED
      BY <1>a, <1>b, <1>1, <2>1, LoginMoves
  <1>2. ASSUME NEW s \in Sessions \ issued, sessionRows' = [sessionRows EXCEPT ![s] = login[l].user],
               issued' = issued \cup {s},
               login' = [login EXCEPT ![l].at = "memory", ![l].session = s]
        PROVE  SessionInv'
    <2>1. PICK k \in LoginType : /\ k.at = "memory" /\ k.user = login[l].user /\ k.session = s
                                 /\ login' = [login EXCEPT ![l] = k]
      <3> DEFINE k == [login[l] EXCEPT !.at = "memory", !.session = s]
      <3>1. k \in LoginType /\ k.at = "memory" /\ k.user = login[l].user /\ k.session = s
        BY <1>a, <1>2 DEF LoginType
      <3>2. login' = [login EXCEPT ![l] = k]
        BY <1>a, <1>2
      <3> HIDE DEF k
      <3> QED
        BY <3>1, <3>2
    <2>2. /\ \A j \in Logins : login'[j] = IF j = l THEN k ELSE login[j]
          /\ \A r \in Sessions : sessionRows'[r] = IF r = s THEN login[l].user ELSE sessionRows[r]
      BY <1>a, <1>2, <2>1
    <2>3. /\ sessions[s] = None /\ sessionRows[s] = None /\ s \notin dead
          /\ \A t \in Tasks : s \notin task[t].hashes
      BY <1>2 DEF SessionInv, IssuedOnce
    <2>4. \A j \in Logins : ~Landing(j, s)
      BY <1>2 DEF SessionInv, LandingSound, Landing
    <2>5. Types'
      <3>1. LoginTypes'
        BY <1>a, <1>c, <1>2, <2>1, <2>2 DEF SessionInv, Types, LoginTypes, LoginType
      <3> QED
        BY <1>c, <3>1 DEF SessionInv, Types, RecordTypes, BootTypes, TaskShape
    <2>6. IssuedOnce'
      BY <1>c, <1>2, <2>2 DEF SessionInv, IssuedOnce
    <2>7. LandingSound'
      <3> SUFFICES ASSUME NEW j \in Logins, login'[j].at = "memory", NEW r, r = login'[j].session
                   PROVE  /\ r \in Sessions /\ r \in issued' /\ sessions[r] = None /\ r \notin dead
                          /\ sessionRows'[r] = login'[j].user
                          /\ \A t \in Tasks : r \notin task[t].hashes
                          /\ \A i \in Logins : Landing(i, r)' => i = j
        BY <1>c DEF LandingSound
      <3>1. CASE j = l
        <4>1. r = s /\ login'[j].user = login[l].user
          BY <2>1, <2>2, <3>1
        <4>2. \A i \in Logins : Landing(i, s)' => i = l
          BY <2>2, <2>4 DEF Landing
        <4> QED
          BY <1>2, <2>2, <2>3, <3>1, <4>1, <4>2
      <3>2. CASE j # l
        <4>1. /\ login'[j] = login[j] /\ r \in Sessions /\ r \in issued /\ sessions[r] = None /\ r \notin dead
              /\ sessionRows[r] = login[j].user
              /\ \A t \in Tasks : r \notin task[t].hashes
              /\ \A i \in Logins : Landing(i, r) => i = j
          BY <2>2, <3>2 DEF SessionInv, LandingSound
        <4>2. r # s
          BY <1>2, <4>1
        <4>3. \A i \in Logins : Landing(i, r)' => i = j
          BY <2>1, <2>2, <4>1, <4>2 DEF Landing
        <4>4. sessionRows'[r] = sessionRows[r] /\ r \in issued'
          BY <1>2, <2>2, <4>1, <4>2
        <4> QED
          BY <4>1, <4>3, <4>4
      <3> QED
        BY <3>1, <3>2
    <2>8. DeadSound'
      BY <1>c, <2>2, <2>3 DEF SessionInv, DeadSound, Forgetting, Types, LoginTypes
    <2>9. \A r \in Sessions \ (kept' \cup expired') : SessionAgrees(r)'
      <3> SUFFICES ASSUME NEW r \in Sessions, r \notin kept, r \notin expired PROVE SessionAgrees(r)'
        BY <1>c
      <3>1. CASE r = s
        BY <2>1, <2>2, <3>1 DEF SessionAgrees, Landing
      <3>2. CASE r # s
        <4>1. SessionAgrees(r) /\ sessions'[r] = sessions[r] /\ sessionRows'[r] = sessionRows[r]
          BY <1>c, <2>2, <3>2 DEF SessionInv
        <4>2. \A j \in Logins : Landing(j, r) => Landing(j, r)'
          BY <1>a, <2>2 DEF Landing
        <4> QED
          BY <1>c, <4>1, <4>2 DEF SessionAgrees, Forgetting
      <3> QED
        BY <3>1, <3>2
    <2> QED
      BY <2>5, <2>6, <2>7, <2>8, <2>9 DEF SessionInv
  <1> QED
    BY <1>1, <1>2 DEF InsertSession

(* ... then it is published. *)
LEMMA PublishSessionInv == ASSUME SessionInv, NEW l \in Logins, PublishSession(l) PROVE SessionInv'
  <1>a. /\ login \in [Logins -> LoginType] /\ login[l] \in LoginType
        /\ login[l].at = "memory" /\ login[l].user \in Users
        /\ sessions \in [Sessions -> Users \cup {None}] /\ sessionRows \in [Sessions -> Users \cup {None}]
    BY DEF SessionInv, Types, LoginTypes, LoginType, PublishSession
  <1>s. PICK s : s = login[l].session
    OBVIOUS
  <1>b. /\ s \in Sessions /\ s \in issued /\ sessions[s] = None /\ s \notin dead
        /\ sessionRows[s] = login[l].user
        /\ \A t \in Tasks : s \notin task[t].hashes
        /\ \A k \in Logins : Landing(k, s) => k = l
    BY <1>a, <1>s DEF SessionInv, LandingSound
  <1>c. /\ UNCHANGED <<sessionRows, expired, issued, dead, kept, boot, task>>
        /\ UNCHANGED <<users, userRows, tenants, tenantRows>>
    BY DEF PublishSession, bootVars, userVars, tenantVars
  <1>d. PICK k \in LoginType : k.at = "prune" /\ k.user = login[l].user /\ login' = [login EXCEPT ![l] = k]
    <2> DEFINE k == [login[l] EXCEPT !.at = "prune"]
    <2>1. k \in LoginType /\ k.at = "prune" /\ k.user = login[l].user
      BY <1>a DEF LoginType
    <2>2. login' = [login EXCEPT ![l] = k]
      BY DEF PublishSession
    <2> HIDE DEF k
    <2> QED
      BY <2>1, <2>2
  <1>e. /\ \A j \in Logins : login'[j] = IF j = l THEN k ELSE login[j]
        /\ \A r \in Sessions : sessions'[r] = IF r = s THEN login[l].user ELSE sessions[r]
        /\ sessions' \in [Sessions -> Users \cup {None}]
    BY <1>a, <1>s, <1>b, <1>d DEF PublishSession
  <1>1. Types'
    <2>1. LoginTypes'
      BY <1>a, <1>c, <1>d, <1>e DEF SessionInv, Types, LoginTypes, LoginType
    <2> QED
      BY <1>c, <2>1 DEF SessionInv, Types, RecordTypes, BootTypes, TaskShape
  <1>2. IssuedOnce'
    BY <1>b, <1>c, <1>e DEF SessionInv, IssuedOnce
  <1>3. LandingSound'
    <2> SUFFICES ASSUME NEW j \in Logins, login'[j].at = "memory", NEW r, r = login'[j].session
                 PROVE  /\ r \in Sessions /\ r \in issued /\ sessions'[r] = None /\ r \notin dead
                        /\ sessionRows[r] = login'[j].user
                        /\ \A t \in Tasks : r \notin task[t].hashes
                        /\ \A i \in Logins : Landing(i, r)' => i = j
      BY <1>c DEF LandingSound
    <2>1. /\ j # l /\ login'[j] = login[j] /\ r \in Sessions /\ r \in issued /\ sessions[r] = None /\ r \notin dead
          /\ sessionRows[r] = login[j].user
          /\ \A t \in Tasks : r \notin task[t].hashes
          /\ \A i \in Logins : Landing(i, r) => i = j
      BY <1>d, <1>e DEF SessionInv, LandingSound
    <2>2. r # s
      BY <1>b, <2>1 DEF Landing
    <2>3. \A i \in Logins : Landing(i, r)' => i = j
      BY <1>d, <1>e, <2>1 DEF Landing
    <2> QED
      BY <1>e, <2>1, <2>2, <2>3
  <1>4. DeadSound'
    BY <1>b, <1>c, <1>e DEF SessionInv, DeadSound, Forgetting, Types, LoginTypes
  <1>5. \A r \in Sessions \ (kept' \cup expired') : SessionAgrees(r)'
    <2> SUFFICES ASSUME NEW r \in Sessions, r \notin kept, r \notin expired PROVE SessionAgrees(r)'
      BY <1>c
    <2>1. CASE r = s
      BY <1>b, <1>c, <1>e, <2>1 DEF SessionAgrees
    <2>2. CASE r # s
      <3>1. SessionAgrees(r) /\ sessions'[r] = sessions[r] /\ sessionRows'[r] = sessionRows[r]
        BY <1>c, <1>e, <2>2 DEF SessionInv
      <3>2. \A j \in Logins : Landing(j, r) => Landing(j, r)'
        BY <1>e, <1>s, <2>2 DEF Landing
      <3> QED
        BY <1>c, <3>1, <3>2 DEF SessionAgrees, Forgetting
    <2> QED
      BY <2>1, <2>2
  <1> QED
    BY <1>1, <1>2, <1>3, <1>4, <1>5 DEF SessionInv

(* prune_expired_sessions touches the expired alone. *)
LEMMA PruneInv == ASSUME SessionInv, NEW l \in Logins, Prune(l) PROVE SessionInv'
  <1>a. /\ login \in [Logins -> LoginType] /\ login[l].at = "prune"
        /\ sessions \in [Sessions -> Users \cup {None}] /\ sessionRows \in [Sessions -> Users \cup {None}]
    BY DEF SessionInv, Types, LoginTypes, LoginType, Prune
  <1>b. IdleLogin \in LoginType /\ IdleLogin.at = "idle"
    BY Constants DEF LoginType
  <1>c. /\ UNCHANGED <<expired, issued, dead, kept, boot, task>>
        /\ UNCHANGED <<users, userRows, tenants, tenantRows>>
    BY DEF Prune, bootVars, userVars, tenantVars
  <1>d. /\ sessions' = [s \in Sessions |-> IF s \in expired THEN None ELSE sessions[s]]
        /\ sessionRows' = [s \in Sessions |-> IF s \in expired /\ sessions[s] # None THEN None ELSE sessionRows[s]]
        /\ login' = [login EXCEPT ![l] = IdleLogin]
    BY DEF Prune
  <1>e. \A j \in Logins : login'[j] = IF j = l THEN IdleLogin ELSE login[j]
    BY <1>a, <1>d
  <1>f. \A j \in Logins : \A s : Landing(j, s)' <=> Landing(j, s)
    BY <1>a, <1>b, <1>e DEF Landing
  <1>1. Types'
    <2>1. sessions' \in [Sessions -> Users \cup {None}] /\ sessionRows' \in [Sessions -> Users \cup {None}]
      BY <1>a, <1>d
    <2>2. LoginTypes'
      BY <1>a, <1>b, <1>c, <1>d, <1>e, <2>1 DEF SessionInv, Types, LoginTypes, LoginType
    <2> QED
      BY <1>c, <2>2 DEF SessionInv, Types, RecordTypes, BootTypes, TaskShape
  <1>2. IssuedOnce'
    BY <1>c, <1>d DEF SessionInv, IssuedOnce
  <1>3. LandingSound'
    <2> SUFFICES ASSUME NEW j \in Logins, login'[j].at = "memory", NEW r, r = login'[j].session
                 PROVE  /\ r \in Sessions /\ r \in issued /\ sessions'[r] = None /\ r \notin dead
                        /\ sessionRows'[r] = login'[j].user
                        /\ \A t \in Tasks : r \notin task[t].hashes
                        /\ \A i \in Logins : Landing(i, r)' => i = j
      BY <1>c DEF LandingSound
    <2>1. /\ login'[j] = login[j] /\ r \in Sessions /\ r \in issued /\ sessions[r] = None /\ r \notin dead
          /\ sessionRows[r] = login[j].user
          /\ \A t \in Tasks : r \notin task[t].hashes
          /\ \A i \in Logins : Landing(i, r) => i = j
      BY <1>b, <1>e DEF SessionInv, LandingSound
    <2>2. sessionRows'[r] = sessionRows[r] /\ sessions'[r] = None
      BY <1>d, <2>1
    <2> QED
      BY <1>f, <2>1, <2>2
  <1>4. DeadSound'
    BY <1>c, <1>d DEF SessionInv, DeadSound, Forgetting, Types, LoginTypes
  <1>5. \A s \in Sessions \ (kept' \cup expired') : SessionAgrees(s)'
    <2> SUFFICES ASSUME NEW s \in Sessions, s \notin kept, s \notin expired PROVE SessionAgrees(s)'
      BY <1>c
    <2>1. SessionAgrees(s) /\ sessions'[s] = sessions[s] /\ sessionRows'[s] = sessionRows[s]
      BY <1>d DEF SessionInv
    <2> QED
      BY <1>c, <1>f, <2>1 DEF SessionAgrees, Forgetting
  <1> QED
    BY <1>1, <1>2, <1>3, <1>4, <1>5 DEF SessionInv

(* A session expires: the invariant asks less of it. *)
LEMMA ExpireInv == ASSUME SessionInv, NEW s \in Sessions, Expire(s) PROVE SessionInv'
  <1>1. /\ UNCHANGED <<sessions, sessionRows, issued, dead, kept, boot, task, login>> /\ expired \subseteq expired'
        /\ UNCHANGED <<users, userRows, tenants, tenantRows>>
    BY DEF Expire, bootVars, userVars, tenantVars
  <1>2. Types'
    BY <1>1 DEF SessionInv, Types, RecordTypes, LoginTypes, BootTypes, TaskShape
  <1> QED
    BY <1>1, <1>2 DEF SessionInv, IssuedOnce, LandingSound, DeadSound, SessionAgrees, Landing, Forgetting

(* Bootstraps make users and no sessions. *)
LEMMA BootSessions == ASSUME SessionInv, NEW b \in Boots, BootStep(b) PROVE SessionInv'
  <1>a. /\ boot \in [Boots -> [at : {"idle", "insert", "memory"}, user : Users \cup {None}]]
        /\ users \in [Users -> UserRec] /\ userRows \in [Users -> UserRec]
        /\ boot[b].at # "idle" => boot[b].user \in Users
    BY DEF SessionInv, Types, RecordTypes, BootTypes
  <1>b. UNCHANGED <<sessionVars, login, task, tenants, tenantRows>>
    BY DEF BootStep, BootLock, BootInsert, BootMemory, BootAbandon, BootEnd, tenantVars
  <1>c. boot' \in [Boots -> [at : {"idle", "insert", "memory"}, user : Users \cup {None}]]
        /\ \A c \in Boots : boot'[c].at # "idle" => boot'[c].user \in Users
    <2>1. CASE BootEnd(b)
      BY <1>a, <2>1, Constants DEF BootEnd, SessionInv, Types, BootTypes
    <2>2. CASE \E u \in Users : BootLock(b, u)
      BY <1>a, <2>2 DEF BootLock, SessionInv, Types, BootTypes
    <2>3. CASE boot[b].at = "insert" /\ boot' = [boot EXCEPT ![b].at = "memory"]
      BY <1>a, <2>3 DEF SessionInv, Types, BootTypes
    <2>4. CASE UNCHANGED boot
      BY <1>a, <2>4 DEF SessionInv, Types, BootTypes
    <2> QED
      BY <2>1, <2>2, <2>3, <2>4 DEF BootStep, BootInsert, BootMemory, BootAbandon
  <1>d. users' \in [Users -> UserRec] /\ userRows' \in [Users -> UserRec]
    <2>1. CASE \E u \in Users : BootLock(b, u)
      BY <1>a, <2>1 DEF BootLock, userVars
    <2>2. CASE BootInsert(b)
      <3>1. userRows' = userRows \/ userRows' = [userRows EXCEPT ![boot[b].user] = Super]
        BY <2>2 DEF BootInsert, Super
      <3>2. users' = users /\ boot[b].user \in Users
        BY <1>a, <2>2 DEF BootInsert
      <3> QED
        BY <1>a, <3>1, <3>2, Constants
    <2>3. CASE BootMemory(b)
      BY <1>a, <2>3, Constants DEF BootMemory, Super
    <2>4. CASE BootAbandon(b)
      BY <1>a, <2>4 DEF BootAbandon, userVars
    <2> QED
      BY <2>1, <2>2, <2>3, <2>4 DEF BootStep
  <1> QED
    BY <1>b, <1>c, <1>d, SessionsSame DEF BootTypes

(* The process dies: what comes back is what the database holds. *)
LEMMA RestartSessions == ASSUME SessionInv, Restart PROVE SessionInv'
  <1>a. /\ users' = userRows /\ tenants' = tenantRows /\ UNCHANGED <<userRows, tenantRows, expired, issued, dead, kept>>
        /\ sessionRows' = [s \in Sessions |-> IF s \in expired THEN None ELSE sessionRows[s]]
        /\ sessions' = sessionRows'
        /\ task' = [t \in Tasks |-> IdleTask] /\ login' = [l \in Logins |-> IdleLogin]
        /\ boot' = [b \in Boots |-> IdleBoot]
    BY DEF Restart
  <1>b. sessionRows' \in [Sessions -> Users \cup {None}]
    BY <1>a DEF SessionInv, Types, LoginTypes
  <1>c. /\ \A t \in Tasks : task'[t] = IdleTask
        /\ \A l \in Logins : login'[l] = IdleLogin
        /\ \A b \in Boots : boot'[b] = IdleBoot
    BY <1>a
  <1>1. Types'
    <2>1. task' \in [Tasks -> TaskType] /\ \A t \in Tasks : TaskShape(task[t])'
      BY <1>a, <1>c, Constants DEF TaskShape
    <2>2. RecordTypes'
      BY <1>a, <2>1 DEF SessionInv, Types, RecordTypes
    <2>3. LoginTypes'
      BY <1>a, <1>b, <1>c, Constants DEF SessionInv, Types, LoginTypes
    <2>4. BootTypes'
      BY <1>a, <1>c, Constants DEF BootTypes
    <2> QED
      BY <2>2, <2>3, <2>4 DEF Types
  <1>2. IssuedOnce'
    BY <1>a, <1>c, Constants DEF SessionInv, IssuedOnce
  <1>3. LandingSound'
    BY <1>c, Constants DEF LandingSound
  <1>4. DeadSound'
    BY <1>a, <1>c, Constants DEF SessionInv, DeadSound, Forgetting, Types, LoginTypes
  <1>5. \A s \in Sessions \ (kept' \cup expired') : SessionAgrees(s)'
    BY <1>a DEF SessionAgrees
  <1> QED
    BY <1>1, <1>2, <1>3, <1>4, <1>5 DEF SessionInv

(* Initially there are no sessions and nobody is under way. *)
LEMMA SessionStart == Init => SessionInv
  <1> SUFFICES ASSUME Init PROVE SessionInv
    OBVIOUS
  <1>1. /\ \A t \in Tasks : task[t] = IdleTask
        /\ \A l \in Logins : login[l] = IdleLogin
        /\ \A b \in Boots : boot[b] = IdleBoot
        /\ \A s \in Sessions : sessions[s] = None /\ sessionRows[s] = None
    BY DEF Init
  <1>2. Tenant(TRUE, "old") \in TenantRec
    BY DEF Tenant, TenantRec
  <1>3. RecordTypes
    BY <1>1, <1>2, Constants DEF Init, RecordTypes
  <1>4. LoginTypes /\ BootTypes
    BY <1>1, Constants DEF Init, LoginTypes, BootTypes
  <1>5. IssuedOnce /\ LandingSound /\ DeadSound
    BY <1>1, Constants DEF Init, IssuedOnce, LandingSound, DeadSound, Forgetting
  <1>6. \A s \in Sessions : SessionAgrees(s)
    BY <1>1 DEF SessionAgrees
  <1> QED
    BY <1>3, <1>4, <1>5, <1>6 DEF SessionInv, Types

(* Nothing changes. *)
LEMMA SessionStutter == ASSUME SessionInv, UNCHANGED vars PROVE SessionInv'
  <1>1. /\ UNCHANGED <<sessions, sessionRows, expired, issued, dead, kept, boot, task, login>>
        /\ UNCHANGED <<users, userRows, tenants, tenantRows>>
    BY DEF vars, userVars, tenantVars, sessionVars, bootVars
  <1>2. Types'
    BY <1>1 DEF SessionInv, Types, RecordTypes, LoginTypes, BootTypes, TaskShape
  <1> QED
    BY <1>1, <1>2 DEF SessionInv, IssuedOnce, LandingSound, DeadSound, SessionAgrees, Landing, Forgetting

(* Every step preserves SessionInv, for any number of tasks. *)
LEMMA SessionStep == SessionInv /\ [Next]_vars => SessionInv'
  <1> SUFFICES ASSUME SessionInv, [Next]_vars PROVE SessionInv'
    OBVIOUS
  <1>1. ASSUME NEW t \in Tasks, TaskStep(t) PROVE SessionInv'
    BY <1>1, UserSteps, TenantSteps, DeleteSessionsInv, ForgetSessionsInv DEF TaskStep
  <1>0. ASSUME NEW t \in Tasks, Request(t) PROVE SessionInv'
    BY <1>0, RequestSessions DEF Request
  <1>2. ASSUME NEW l \in Logins, LoginStep(l) PROVE SessionInv'
    BY <1>2, VerifyInv, InsertSessionInv, PublishSessionInv, PruneInv DEF LoginStep
  <1> QED
    BY <1>0, <1>1, <1>2, BootSessions, ExpireInv, RestartSessions, SessionStutter DEF Next

(* SessionInv is an invariant. *)
LEMMA SessionInvariant == Spec => []SessionInv
  BY SessionStart, SessionStep, PTL DEF Spec

(* RevokedSessionStaysDead, for any number of requests, logins and bootstraps at the same
   time: the row goes before the record (sessions.rs), a login publishes only a session
   that nobody could have revoked yet, and a token is never drawn twice. *)
THEOREM RevocationIsFinal == Spec => []RevokedSessionStaysDead
  <1>1. SessionInv => RevokedSessionStaysDead
    BY DEF SessionInv, DeadSound, RevokedSessionStaysDead, Authorizes
  <1> QED
    BY <1>1, SessionInvariant, PTL

-----------------------------------------------------------------------------
(* What a step does to users: the invariants, a super admin that memory and database hold
   remains if nothing raced, and what is gone from the database stays so. *)
RowsStay ==
    \A u \in Users \cap minted :
        /\ userRows[u] = NoUser => userRows'[u] = NoUser
        /\ (users[u] = NoUser => userRows[u] = NoUser) => (users'[u] = NoUser => userRows'[u] = NoUser)

UsersStep ==
    /\ UserInv' /\ SuperInv' /\ RowsStay
    /\ raced \subseteq Tenants /\ HasSuper => HasSuper'

(* If only tenants raced, no user did, nor did two requests that each take a super admin away. *)
LEMMA Unraced ==
    ASSUME raced \subseteq Tenants
    PROVE  "super_admin" \notin raced /\ \A u \in Users : u \notin raced
  BY AccountsAssumption

(* A task that goes on is about nothing new. *)
LEMMA AloneStays ==
    ASSUME Types, Alone, NEW t \in Tasks, NEW m \in TaskType, task' = [task EXCEPT ![t] = m],
           m.about \subseteq task[t].about, raced \subseteq raced'
    PROVE  Alone'
  <1>1. \A k \in Tasks : task'[k].about \subseteq task[k].about
    BY DEF Types, RecordTypes
  <1> QED
    BY <1>1 DEF Alone

(* A user that is in memory was inserted, nobody is about to publish it for the first time. *)
LEMMA Present ==
    ASSUME UserInv, NEW u \in Users, users[u] # NoUser
    PROVE  /\ u \in minted /\ \A b \in Boots : ~Booting(b, u)
           /\ \A k \in Tasks : ~(Writes(k, u) /\ task[k].op = "create_user")
  <1>1. u \in minted /\ \A b \in Boots : ~Booting(b, u)
    BY DEF UserInv, Unminted, BootSound, Booting
  <1>2. ASSUME NEW k \in Tasks, Writes(k, u), task[k].op = "create_user" PROVE FALSE
    BY <1>2 DEF Writes, UserInv, UserTask
  <1> QED
    BY <1>1, <1>2

(* A task that does something to a user but insert it meets no bootstrap. *)
LEMMA NotBooting ==
    ASSUME UserInv, NEW t \in Tasks, task[t].at # "idle", task[t].op \in UserOps, ~Inserting(task[t])
    PROVE  \A b \in Boots : ~Booting(b, task[t].id)
  BY DEF UserInv, BootSound, Booting, Concerns

(* Whoever else is about the same user is still to insert it, or the user is raced. *)
LEMMA OnlyOne ==
    ASSUME SessionInv, UserInv, NEW t \in Tasks, NEW u, Concerns(t, u), Inserting(task[t]) => u \notin minted
    PROVE  \A k \in Tasks \ {t} : Concerns(k, u) =>
              \/ Inserting(task[k])
              \/ u \in raced /\ task[k].op # "create_user" /\ task[t].op # "create_user"
  <1> SUFFICES ASSUME NEW k \in Tasks, k # t, Concerns(k, u), ~Inserting(task[k])
               PROVE  u \in raced /\ task[k].op # "create_user" /\ task[t].op # "create_user"
    OBVIOUS
  <1>a. TaskShape(task[t]) /\ TaskShape(task[k]) /\ task[t] \in TaskType /\ task[k] \in TaskType
    BY DEF SessionInv, Types, RecordTypes
  <1>1. u \in minted /\ ~Inserting(task[t])
    BY DEF UserInv, UserTask, Concerns
  <1>2. task[t].op = "create_user" => Writes(t, u)
    BY <1>a, <1>1 DEF Concerns, Writes, TaskShape, Inserting, TaskType
  <1>3. task[k].op = "create_user" => Writes(k, u)
    BY <1>a DEF Concerns, Writes, TaskShape, Inserting, TaskType
  <1>i. task[t].id = u /\ task[k].id = u
    BY DEF Concerns
  <1>4. task[t].op # "create_user"
    BY <1>2, <1>i DEF UserInv, CreateSound
  <1>5. task[k].op # "create_user"
    BY <1>1, <1>3, <1>i DEF UserInv, CreateSound
  <1>6. u \in task[t].about /\ u \in task[k].about
    BY <1>a, <1>4, <1>5, <1>i DEF Concerns, TaskShape, UserOps
  <1>7. u \in raced
    BY <1>6 DEF UserInv, Alone
  <1> QED
    BY <1>4, <1>5, <1>7

(* The task moves, users stay as they are. *)
LEMMA UsersKept ==
    ASSUME SessionInv, UserInv, SuperInv, NEW t \in Tasks, NEW m \in TaskType,
           task' = [task EXCEPT ![t] = m], UNCHANGED <<users, userRows, boot>>, minted \subseteq minted',
           raced \subseteq raced', Alone',
           task[t].at = "memory" => task[t].op \notin UserOps,
           m.at # "idle" /\ m.op \in UserOps =>
              /\ m.at # "memory" /\ UserTask(m)' /\ (raced' \subseteq Tenants => LeavesSuper(m))
              /\ \/ Inserting(m)
                 \/ /\ \A b \in Boots : ~Booting(b, m.id)
                    /\ \A k \in Tasks : ~(Writes(k, m.id) /\ task[k].op = "create_user")
    PROVE  UsersStep
  <1>b. \A k \in Tasks : task'[k] = IF k = t THEN m ELSE task[k]
    BY DEF SessionInv, Types, RecordTypes
  <1>1. Unminted'
    BY DEF UserInv, Unminted
  <1>2. BootSound'
    <2> SUFFICES ASSUME NEW b \in Boots, boot[b].at = "memory", NEW u, u = boot[b].user
                 PROVE  /\ u \in minted' /\ userRows[u] = Super /\ users[u] = NoUser
                        /\ \A k \in Tasks : Concerns(k, u)' => Inserting(task'[k])
                        /\ \A c \in Boots : Booting(c, u) => c = b
      BY DEF BootSound, Booting, Inserting
    <2>1. /\ u \in minted /\ userRows[u] = Super /\ users[u] = NoUser
          /\ \A k \in Tasks : Concerns(k, u) => Inserting(task[k])
          /\ \A c \in Boots : Booting(c, u) => c = b
      BY DEF UserInv, BootSound
    <2>2. ASSUME NEW k \in Tasks, Concerns(k, u)' PROVE Inserting(task'[k])
      <3>1. CASE k = t
        BY <1>b, <2>2, <3>1 DEF Concerns, Booting
      <3>2. CASE k # t
        BY <1>b, <2>1, <2>2, <3>2 DEF Concerns
      <3> QED
        BY <3>1, <3>2
    <2> QED
      BY <2>1, <2>2
  <1>3. ASSUME NEW u \in Users PROVE UserAgrees(u)'
    <2>1. UserAgrees(u)
      BY DEF UserInv
    <2>2. \A k \in Tasks : Writes(k, u) => Writes(k, u)'
      BY <1>b DEF Writes
    <2>3. \A b \in Boots : Booting(b, u) => Booting(b, u)'
      BY DEF Booting
    <2> QED
      BY <2>1, <2>2, <2>3 DEF UserAgrees
  <1>4. ASSUME NEW k \in Tasks, task'[k].at # "idle" PROVE UserTask(task[k])'
    <2>1. CASE k = t
      <3>1. CASE m.op \in UserOps
        BY <1>b, <1>4, <2>1, <3>1 DEF UserTask, Inserting
      <3>2. CASE m.op \notin UserOps
        BY <1>b, <2>1, <3>2 DEF UserTask, UserOps
      <3> QED
        BY <3>1, <3>2
    <2>2. CASE k # t
      <3>1. task'[k] = task[k] /\ UserTask(task[k])
        BY <1>b, <1>4, <2>2 DEF UserInv
      <3> QED
        BY <3>1 DEF UserTask, Inserting
    <2> QED
      BY <2>1, <2>2
  <1>5. CreateSound'
    <2> SUFFICES ASSUME NEW s \in Tasks, NEW k \in Tasks, NEW u, u = task'[s].id, Writes(s, u)',
                        task'[s].op = "create_user", k # s, Concerns(k, u)'
                 PROVE  Inserting(task'[k])
      BY DEF CreateSound, Inserting
    <2>1. s # t
      BY <1>b DEF Writes, UserOps
    <2>2. Writes(s, u) /\ task[s].op = "create_user" /\ task[s].id = u
      BY <1>b, <2>1 DEF Writes
    <2>3. CASE k = t
      BY <1>b, <2>2, <2>3 DEF Concerns
    <2>4. CASE k # t
      <3>1. Concerns(k, u) /\ task'[k] = task[k]
        BY <1>b, <2>4 DEF Concerns
      <3> QED
        BY <2>2, <3>1 DEF UserInv, CreateSound
    <2> QED
      BY <2>3, <2>4
  <1>6. UserInv'
    BY <1>1, <1>2, <1>3, <1>4, <1>5 DEF UserInv
  <1>7. SuperInv'
    <2> SUFFICES ASSUME raced' \subseteq Tenants, NEW k \in Tasks, task'[k].at # "idle" PROVE LeavesSuper(task[k])'
      BY DEF SuperInv
    <2>1. raced \subseteq Tenants
      OBVIOUS
    <2>2. CASE k = t
      <3>1. CASE m.op \in UserOps
        BY <1>b, <2>2, <3>1 DEF LeavesSuper, MayLower, BothSuper
      <3>2. CASE m.op \notin UserOps
        BY <1>b, <2>2, <3>2 DEF LeavesSuper, MayLower, UserOps
      <3> QED
        BY <3>1, <3>2
    <2>3. CASE k # t
      <3>1. task'[k] = task[k] /\ LeavesSuper(task[k])
        BY <1>b, <2>1, <2>3 DEF SuperInv
      <3> QED
        BY <3>1 DEF LeavesSuper, MayLower, BothSuper
    <2> QED
      BY <2>2, <2>3
  <1> QED
    BY <1>6, <1>7 DEF UsersStep, HasSuper, RowsStay

(* The task changes the record or the row of its user. *)
LEMMA UserChanged ==
    ASSUME SessionInv, UserInv, SuperInv, NEW t \in Tasks, NEW m \in TaskType,
           task' = [task EXCEPT ![t] = m], UNCHANGED <<boot, raced>>, m.about \subseteq task[t].about,
           NEW u \in Users, NEW a \in UserRec, NEW r \in UserRec, Concerns(t, u),
           users' = [users EXCEPT ![u] = a], userRows' = [userRows EXCEPT ![u] = r],
           u \in minted', minted \subseteq minted', \A b \in Boots : ~Booting(b, u),
           \A k \in Tasks \ {t} : Concerns(k, u) =>
              \/ Inserting(task[k])
              \/ u \in raced /\ task[k].op # "create_user" /\ task[t].op # "create_user",
           u \in raced \/ a = r \/ (m.at = "memory" /\ m.op \in UserOps /\ m.id = u),
           m.at # "idle" => /\ m.op = task[t].op /\ m.op \in UserOps /\ m.id = u /\ ~Inserting(m)
                            /\ UserTask(m)' /\ (raced \subseteq Tenants => LeavesSuper(m)'),
           u \in minted => /\ userRows[u] = NoUser => r = NoUser
                           /\ (users[u] = NoUser => userRows[u] = NoUser) => (a = NoUser => r = NoUser),
           raced \subseteq Tenants /\ BothSuper(u) =>
              \/ EnabledSuper(a) /\ EnabledSuper(r)
              \/ "super_admin" \in task[t].about /\ \E v \in Users \ {u} : BothSuper(v)
    PROVE  UsersStep
  <1>a. \A k \in Tasks : task'[k] = IF k = t THEN m ELSE task[k]
    BY DEF SessionInv, Types, RecordTypes
  <1>b. \A v \in Users : /\ users'[v] = IF v = u THEN a ELSE users[v]
                         /\ userRows'[v] = IF v = u THEN r ELSE userRows[v]
    BY DEF SessionInv, Types, RecordTypes
  <1>c. Types /\ \A k \in Tasks : TaskShape(task[k])
    BY DEF SessionInv, Types, RecordTypes
  <1>0. Alone'
    BY <1>c, AloneStays DEF UserInv
  <1>1. Unminted'
    BY <1>b DEF UserInv, Unminted
  <1>2. BootSound'
    <2> SUFFICES ASSUME NEW b \in Boots, boot[b].at = "memory", NEW w, w = boot[b].user
                 PROVE  /\ w \in minted' /\ userRows'[w] = Super /\ users'[w] = NoUser
                        /\ \A k \in Tasks : Concerns(k, w)' => Inserting(task'[k])
                        /\ \A c \in Boots : Booting(c, w) => c = b
      BY DEF BootSound, Booting, Inserting
    <2>1. /\ w \in minted /\ userRows[w] = Super /\ users[w] = NoUser
          /\ \A k \in Tasks : Concerns(k, w) => Inserting(task[k])
          /\ \A c \in Boots : Booting(c, w) => c = b
      BY DEF UserInv, BootSound
    <2>2. w # u /\ w \in Users
      BY DEF Booting, SessionInv, Types, BootTypes
    <2>3. ASSUME NEW k \in Tasks, Concerns(k, w)' PROVE Inserting(task'[k])
      <3>1. k # t
        BY <1>a, <2>2, <2>3 DEF Concerns
      <3> QED
        BY <1>a, <2>1, <2>3, <3>1 DEF Concerns
    <2> QED
      BY <1>b, <2>1, <2>2, <2>3
  <1>3. ASSUME NEW v \in Users PROVE UserAgrees(v)'
    <2>1. CASE v = u
      BY <1>a, <1>b, <2>1 DEF UserAgrees, Writes
    <2>2. CASE v # u
      <3>1. UserAgrees(v) /\ users'[v] = users[v] /\ userRows'[v] = userRows[v]
        BY <1>b, <2>2 DEF UserInv
      <3>2. \A k \in Tasks : Writes(k, v) => Writes(k, v)'
        BY <1>a, <2>2 DEF Writes, Concerns
      <3>3. \A b \in Boots : Booting(b, v) => Booting(b, v)'
        BY DEF Booting
      <3> QED
        BY <3>1, <3>2, <3>3 DEF UserAgrees
    <2> QED
      BY <2>1, <2>2
  <1>4. ASSUME NEW k \in Tasks, task'[k].at # "idle" PROVE UserTask(task[k])'
    <2>1. CASE k = t
      BY <1>a, <1>4, <2>1 DEF UserTask, Inserting
    <2>2. CASE k # t
      <3>1. task'[k] = task[k] /\ UserTask(task[k])
        BY <1>a, <1>4, <2>2 DEF UserInv
      <3>2. CASE task[k].op \notin UserOps
        BY <3>1, <3>2 DEF UserTask, UserOps
      <3>3. CASE task[k].op \in UserOps /\ task[k].id # u
        <4>1. task[k].id \in Users
          BY <1>c, <1>4, <3>1, <3>3 DEF TaskShape
        <4>2. users'[task[k].id] = users[task[k].id] /\ userRows'[task[k].id] = userRows[task[k].id]
          BY <1>b, <3>3, <4>1
        <4> QED
          BY <3>1, <4>2 DEF UserTask, Inserting
      <3>4. CASE task[k].op \in UserOps /\ task[k].id = u
        <4>1. Inserting(task[k]) \/ (u \in raced /\ task[k].op # "create_user")
          BY <1>4, <2>2, <3>1, <3>4 DEF Concerns
        <4>2. CASE Inserting(task[k])
          BY <3>1, <3>4, <4>2 DEF UserTask, Inserting, UserOps
        <4>3. CASE u \in raced /\ task[k].op # "create_user"
          <5>1. u \in minted
            BY <3>1, <3>4, <4>3 DEF UserTask, Inserting, UserOps
          <5>2. task[k].at = "memory" /\ task[k].op = "delete_user" => userRows'[u] = NoUser
            BY <1>b, <3>1, <3>4, <5>1 DEF UserTask
          <5> QED
            BY <3>1, <3>4, <4>3, <5>1, <5>2 DEF UserTask, Inserting
        <4> QED
          BY <4>1, <4>2, <4>3
      <3> QED
        BY <3>2, <3>3, <3>4
    <2> QED
      BY <2>1, <2>2
  <1>5. CreateSound'
    <2> SUFFICES ASSUME NEW s \in Tasks, NEW k \in Tasks, NEW v, v = task'[s].id, Writes(s, v)',
                        task'[s].op = "create_user", k # s, Concerns(k, v)'
                 PROVE  Inserting(task'[k])
      BY DEF CreateSound, Inserting
    <2>1. CASE s = t
      BY <1>a, <2>1 DEF Writes, Concerns
    <2>2. CASE s # t
      <3>1. Writes(s, v) /\ task[s].op = "create_user" /\ task[s].id = v /\ Concerns(s, v) /\ ~Inserting(task[s])
        BY <1>a, <2>2 DEF Writes, Concerns, Inserting
      <3>2. k # t
        BY <1>a, <2>2, <3>1 DEF Concerns
      <3>3. Concerns(k, v) /\ task'[k] = task[k]
        BY <1>a, <3>2 DEF Concerns
      <3> QED
        BY <3>1, <3>3 DEF UserInv, CreateSound
    <2> QED
      BY <2>1, <2>2
  <1>6. UserInv'
    BY <1>0, <1>1, <1>2, <1>3, <1>4, <1>5 DEF UserInv
  <1>7. SuperInv'
    <2> SUFFICES ASSUME raced \subseteq Tenants, NEW k \in Tasks, task'[k].at # "idle" PROVE LeavesSuper(task[k])'
      BY DEF SuperInv
    <2>1. CASE k = t
      BY <1>a, <2>1 DEF LeavesSuper, MayLower, BothSuper
    <2>2. CASE k # t
      <3>1. task'[k] = task[k] /\ LeavesSuper(task[k])
        BY <1>a, <2>2 DEF SuperInv
      <3>2. PICK w, ab : w = task[k].id /\ ab = task[k].about
        OBVIOUS
      <3> SUFFICES ASSUME MayLower(task[k]), EnabledSuper(users'[w]) \/ EnabledSuper(userRows'[w])
                   PROVE  "super_admin" \in ab /\ \E v \in Users \ {w} : BothSuper(v)'
        BY <3>1, <3>2 DEF LeavesSuper, MayLower
      <3>3. Concerns(k, w) /\ task[k].op # "create_user" /\ w \in Users
        BY <1>c, <3>1, <3>2 DEF MayLower, Concerns, UserOps, TaskShape
      <3>4. w # u
        BY <2>2, <3>3, Unraced DEF Inserting, MayLower
      <3>5. "super_admin" \in ab /\ \E v \in Users \ {w} : BothSuper(v)
        BY <1>b, <3>1, <3>2, <3>3, <3>4 DEF LeavesSuper
      <3>6. PICK v \in Users \ {w} : BothSuper(v)
        BY <3>5
      <3>7. v = u => EnabledSuper(a) /\ EnabledSuper(r)
        <4>1. "super_admin" \notin task[t].about
          BY <2>2, <3>2, <3>5, Unraced DEF UserInv, Alone
        <4> QED
          BY <3>6, <4>1
      <3>8. BothSuper(v)'
        BY <1>b, <3>6, <3>7 DEF BothSuper
      <3> QED
        BY <3>5, <3>8
    <2> QED
      BY <2>1, <2>2
  <1>8. ASSUME raced \subseteq Tenants, HasSuper PROVE HasSuper'
    <2>1. PICK v \in Users : BothSuper(v) /\ (v = u => EnabledSuper(a) /\ EnabledSuper(r))
      BY <1>8 DEF HasSuper, BothSuper
    <2>2. EnabledSuper(users'[v]) /\ EnabledSuper(userRows'[v])
      BY <1>b, <2>1 DEF BothSuper
    <2> QED
      BY <2>2 DEF HasSuper, EnabledSuper
  <1>9. RowsStay
    BY <1>b DEF RowsStay
  <1> QED
    BY <1>6, <1>7, <1>8, <1>9 DEF UsersStep

(* Memory and database agree on a user that no other request is about. *)
LEMMA AtRest ==
    ASSUME SessionInv, UserInv, NEW u \in Users, users[u] # NoUser, u \notin raced,
           \A k \in Tasks : u \notin task[k].about
    PROVE  users[u] = userRows[u]
  <1>1. ASSUME NEW k \in Tasks, Writes(k, u) PROVE FALSE
    <2>1. TaskShape(task[k])
      BY DEF SessionInv, Types, RecordTypes
    <2>2. task[k].op # "create_user"
      BY <1>1, Present
    <2> QED
      BY <1>1, <2>1, <2>2 DEF Writes, TaskShape, UserOps
  <1> QED
    BY <1>1, Present DEF UserInv, UserAgrees

(* ensure_not_last_super finds another super admin; unless somebody is about to take one
   away, the database has it as well. *)
LEMMA AnotherSuper ==
    ASSUME SessionInv, UserInv, SuperInv, raced \subseteq Tenants, NEW u \in Users,
           EnabledSuper(users[u]), NotLastSuper(u), \A k \in Tasks : "super_admin" \notin task[k].about
    PROVE  \E v \in Users \ {u} : BothSuper(v)
  <1>1. PICK v \in Users \ {u} : EnabledSuper(users[v])
    BY DEF NotLastSuper
  <1>2. users[v] # NoUser /\ v \notin raced
    BY <1>1, Unraced DEF EnabledSuper, NoUser, User
  <1>3. ASSUME NEW k \in Tasks, Writes(k, v) PROVE EnabledSuper(userRows[v])
    <2>1. task[k].op \in UserOps /\ task[k].op # "create_user" /\ task[k].at = "memory" /\ task[k].id = v
      BY <1>2, <1>3, Present DEF Writes
    <2>2. UserTask(task[k]) /\ LeavesSuper(task[k])
      BY <2>1 DEF UserInv, SuperInv
    <2>3. ~MayLower(task[k])
      BY <1>1, <2>1, <2>2 DEF LeavesSuper
    <2>4. task[k].op # "delete_user"
      BY <2>3 DEF MayLower
    <2>5. userRows[v] = task[k].new
      BY <1>2, <2>1, <2>2, <2>4 DEF UserTask, UserOps
    <2>6. task[k].op = "password" => users[v] = task[k].new
      BY <1>2, <2>1, <2>2 DEF UserTask
    <2>7. task[k].op \in {"update_user", "rename_user"} => EnabledSuper(task[k].new)
      BY <2>1, <2>3 DEF MayLower
    <2> QED
      BY <1>1, <2>1, <2>4, <2>5, <2>6, <2>7 DEF UserOps
  <1>4. EnabledSuper(userRows[v])
    BY <1>1, <1>2, <1>3, Present DEF UserInv, UserAgrees
  <1> QED
    BY <1>1, <1>4 DEF BothSuper

(* A request begins: what it reads is at rest unless it is raced from now on. *)
LEMMA BeginUsers ==
    ASSUME SessionInv, UserInv, SuperInv, NEW t \in Tasks,
           NEW op, NEW id, NEW at, NEW new, NEW hashes \in SUBSET Sessions,
           Start(t, op, id, at, new, hashes),
           \/ op \in UserOps /\ id \in Users /\ new \in UserRec /\ at = "row"
           \/ op = "delete_user" /\ id \in Users /\ new \in UserRec /\ at = "unrow"
           \/ op \in TenantOps /\ id \in Tenants /\ new \in TenantRec /\ at = "row"
           \/ op = "logout" /\ id \in Users /\ new = None /\ at = "unrow",
           \/ op \notin UserOps
           \/ op = "create_user" /\ at = "row" /\ new # NoUser
           \/ op = "password" /\ at = "row" /\ users[id] # NoUser /\ new = users[id]
           \/ /\ op \in {"update_user", "rename_user", "delete_user"} /\ users[id] # NoUser
              /\ op # "delete_user" => new # NoUser
              /\ (~EnabledSuper(new) \/ op = "delete_user") /\ EnabledSuper(users[id]) => NotLastSuper(id)
    PROVE  UsersStep /\ Alone'
  <1>a. Types /\ task \in [Tasks -> TaskType]
    BY DEF SessionInv, Types, RecordTypes
  <1>1. PICK m \in TaskType : /\ m.at = at /\ m.op = op /\ m.id = id /\ m.new = new /\ TaskShape(m)
                              /\ m.about = About(op, id, new) /\ task' = [task EXCEPT ![t] = m]
    BY <1>a, Begins
  <1>2. task[t].at = "idle" /\ UNCHANGED <<users, userRows, minted, boot>> /\ task[t].about = {}
    <2>1. task[t] = IdleTask
      BY <1>a, Begins
    <2>2. task[t].at = "idle" /\ UNCHANGED <<users, userRows, minted, boot>>
      BY DEF Start, userVars, bootVars
    <2> QED
      BY <2>1, <2>2, Constants
  <1>3. raced \subseteq raced' /\ \A k \in Tasks : task[k].about \cap m.about \subseteq raced'
    BY <1>1 DEF Start
  <1>4. Alone'
    <2>1. \A k \in Tasks : task'[k] = IF k = t THEN m ELSE task[k]
      BY <1>a, <1>1
    <2> QED
      BY <1>3, <2>1 DEF UserInv, Alone
  <1>5. ASSUME op \in UserOps, op # "create_user"
        PROVE  /\ id \in Users /\ users[id] # NoUser /\ id \in m.about /\ at # "memory" /\ id \in minted
               /\ id \notin raced' => users[id] = userRows[id]
    <2>1. id \in Users /\ at # "memory" /\ users[id] # NoUser
      BY <1>5 DEF UserOps, TenantOps
    <2>2. id \in m.about
      BY <1>1, <1>5 DEF About, UserOps
    <2>3. id \in minted
      BY <2>1, Present
    <2>4. id \notin raced' => users[id] = userRows[id]
      BY <1>3, <2>1, <2>2, AtRest
    <2> QED
      BY <2>1, <2>2, <2>3, <2>4
  <1>6. ASSUME op \in UserOps PROVE UserTask(m)'
    <2>1. CASE op = "create_user"
      <3>1. at = "row" /\ new # NoUser
        BY <2>1 DEF UserOps
      <3> QED
        BY <1>1, <2>1, <3>1 DEF UserTask, Inserting, UserOps
    <2>2. CASE op # "create_user"
      <3>1. op # "delete_user" => new # NoUser
        BY <1>6, <2>2
      <3>2. op = "password" => new = users[id]
        BY <1>6
      <3> QED
        BY <1>1, <1>2, <1>5, <1>6, <2>2, <3>1, <3>2 DEF UserTask, UserOps
    <2> QED
      BY <2>1, <2>2
  <1>7. ASSUME op \in UserOps, raced' \subseteq Tenants PROVE LeavesSuper(m)
    <2> SUFFICES ASSUME MayLower(m), EnabledSuper(users[id]) \/ EnabledSuper(userRows[id])
                 PROVE  "super_admin" \in m.about /\ \E v \in Users \ {id} : BothSuper(v)
      BY <1>1 DEF LeavesSuper
    <2>1. op \in {"update_user", "rename_user", "delete_user"} /\ (~EnabledSuper(new) \/ op = "delete_user")
      BY <1>1 DEF MayLower
    <2>2. id \notin raced' /\ "super_admin" \notin raced'
      BY <1>5, <1>7, <2>1, AccountsAssumption
    <2>3. EnabledSuper(users[id]) /\ NotLastSuper(id)
      BY <1>5, <1>7, <2>1, <2>2
    <2>4. "super_admin" \in m.about
      BY <1>1, <2>1, <2>3 DEF About, Lowers
    <2>5. \A k \in Tasks : "super_admin" \notin task[k].about
      BY <1>3, <2>2, <2>4
    <2>6. raced \subseteq Tenants /\ id \in Users
      BY <1>3, <1>5, <1>7, <2>1
    <2> QED
      BY <2>3, <2>4, <2>5, <2>6, AnotherSuper
  <1>8. ASSUME op \in UserOps
        PROVE  /\ m.at # "memory"
               /\ \/ Inserting(m)
                  \/ /\ \A b \in Boots : ~Booting(b, m.id)
                     /\ \A k \in Tasks : ~(Writes(k, m.id) /\ task[k].op = "create_user")
    <2>1. CASE op = "create_user"
      BY <1>1, <2>1 DEF Inserting
    <2>2. CASE op # "create_user"
      BY <1>1, <1>5, <1>8, <2>2, Present
    <2> QED
      BY <2>1, <2>2
  <1>9. UsersStep
    BY <1>1, <1>2, <1>3, <1>4, <1>6, <1>7, <1>8, UsersKept
  <1> QED
    BY <1>4, <1>9

(* The checks of a request about a user. *)
LEMMA RequestUsers ==
    ASSUME SessionInv, UserInv, SuperInv, NEW t \in Tasks, Request(t)
    PROVE  UsersStep
  <1>a. Types /\ users \in [Users -> UserRec] /\ tenants \in [Tenants -> TenantRec]
    BY DEF SessionInv, Types, RecordTypes
  <1>2. CASE UserRequest(t)
    <2>1. PICK p \in Principals, u \in Users :
             \/ \E role \in Roles, n \in Tenants \cup {None} : CreateUser(t, p, u, role, n)
             \/ \E new \in [role : Roles, tenant : Tenants \cup {None}, enabled : BOOLEAN], pw \in BOOLEAN :
                   UpdateUser(t, p, u, new, pw)
             \/ DeleteUser(t, p, u)
      BY <1>2 DEF UserRequest
    <2>2. ASSUME NEW role \in Roles, NEW n \in Tenants \cup {None}, CreateUser(t, p, u, role, n) PROVE UsersStep
      <3>1. User(role, n, TRUE) \in UserRec /\ User(role, n, TRUE) # NoUser /\ "create_user" \in UserOps
        BY DEF User, UserRec, UserOps, NoUser
      <3>2. PICK new \in UserRec : Start(t, "create_user", u, "row", new, {}) /\ new # NoUser
        BY <2>2, <3>1 DEF CreateUser
      <3> QED
        BY <3>1, <3>2, BeginUsers
    <2>3. ASSUME NEW new \in [role : Roles, tenant : Tenants \cup {None}, enabled : BOOLEAN], NEW pw \in BOOLEAN,
                 UpdateUser(t, p, u, new, pw)
          PROVE  UsersStep
      <3>1. PICK op \in {"update_user", "rename_user"} : Start(t, op, u, "row", new, {})
        BY <2>3 DEF UpdateUser
      <3>2. new \in UserRec /\ op \in UserOps /\ new # NoUser
        BY DEF UserRec, UserOps, NoUser, User, Roles
      <3>3. users[u] # NoUser /\ UpdateChecks(u, new)
        BY <2>3 DEF UpdateUser
      <3>4. ~EnabledSuper(new) /\ EnabledSuper(users[u]) => NotLastSuper(u)
        BY <3>3 DEF UpdateChecks, EnabledSuper
      <3> QED
        BY <3>1, <3>2, <3>3, <3>4, BeginUsers
    <2>4. CASE DeleteUser(t, p, u)
      <3>1. Start(t, "delete_user", u, "unrow", users[u], SessionsOf(u)) /\ users[u] # NoUser
        BY <2>4 DEF DeleteUser
      <3>2. users[u] \in UserRec /\ SessionsOf(u) \subseteq Sessions
        BY <1>a DEF SessionsOf
      <3>3. EnabledSuper(users[u]) => NotLastSuper(u)
        BY <2>4 DEF DeleteUser, DeleteChecks, EnabledSuper
      <3>4. PICK new, hashes : new = users[u] /\ hashes = SessionsOf(u)
        OBVIOUS
      <3> QED
        BY <3>1, <3>2, <3>3, <3>4, BeginUsers
    <2> QED
      BY <2>1, <2>2, <2>3, <2>4
  <1>3. CASE TenantRequest(t)
    <2>1. PICK n \in Tenants, op \in TenantOps, new \in TenantRec : Start(t, op, n, "row", new, {})
      BY <1>a, <1>3, TenantRequests
    <2>2. op \notin UserOps
      BY DEF UserOps, TenantOps
    <2> QED
      BY <2>1, <2>2, BeginUsers
  <1>4. ASSUME NEW s \in Sessions, ChangePassword(t, s) PROVE UsersStep
    <2>1. PICK u, new : u = sessions[s] /\ new = users[u]
      OBVIOUS
    <2>2. /\ Start(t, "password", u, "row", new, {s}) /\ "password" \in UserOps
          /\ u \in Users /\ new \in UserRec /\ new.enabled
      BY <1>a, <1>4, <2>1, AuthorizedUser DEF ChangePassword, UserOps
    <2>3. users[u] # NoUser
      BY <2>1, <2>2 DEF NoUser, User
    <2> QED
      BY <2>1, <2>2, <2>3, BeginUsers
  <1>5. ASSUME NEW s \in Sessions, Logout(t, s) PROVE UsersStep
    <2>1. PICK u : u = sessions[s]
      OBVIOUS
    <2>2. Start(t, "logout", u, "unrow", None, {s}) /\ u \in Users /\ "logout" \notin UserOps
      BY <1>a, <1>5, <2>1, AuthorizedUser DEF Logout, UserOps
    <2> QED
      BY <2>2, BeginUsers
  <1> QED
    BY <1>2, <1>3, <1>4, <1>5 DEF Request

(* A statement that failed, or that the unique name refused: the request ends. *)
LEMMA GivesUp ==
    ASSUME SessionInv, UserInv, SuperInv, NEW t \in Tasks, Done(t),
           UNCHANGED <<users, userRows, boot, raced>>, minted \subseteq minted',
           task[t].at = "memory" => task[t].op \notin UserOps
    PROVE  UsersStep
  <1>1. Alone'
    BY Constants, AloneStays DEF Done, SessionInv, UserInv
  <1> QED
    BY <1>1, Constants, UsersKept DEF Done

(* The statements about users. *)
LEMMA RowUsers ==
    ASSUME SessionInv, UserInv, SuperInv, NEW t \in Tasks, UNCHANGED raced,
           InsertUser(t) \/ UpdateUserRow(t) \/ DeleteUserRow(t) \/ PasswordRow(t)
    PROVE  UsersStep
  <1>a. /\ Types /\ task[t] \in TaskType /\ TaskShape(task[t])
        /\ users \in [Users -> UserRec] /\ userRows \in [Users -> UserRec]
    BY DEF SessionInv, Types, RecordTypes
  <1>b. task[t].at = "row" /\ task[t].op \in UserOps /\ task[t].at # "idle"
    BY DEF InsertUser, UpdateUserRow, DeleteUserRow, PasswordRow, At, UserOps
  <1>c. PICK u, new : u = task[t].id /\ new = task[t].new
    OBVIOUS
  <1>d. u \in Users /\ new \in UserRec /\ users[u] \in UserRec /\ userRows[u] \in UserRec /\ Concerns(t, u)
    BY <1>a, <1>b, <1>c DEF TaskShape, Concerns
  <1>e. UserTask(task[t]) /\ (raced \subseteq Tenants => LeavesSuper(task[t]))
    BY <1>b DEF UserInv, SuperInv
  <1>f. UNCHANGED <<users, boot>>
    BY DEF InsertUser, UpdateUserRow, DeleteUserRow, PasswordRow, UserRowStep, bootVars
  <1>g. users' = [users EXCEPT ![u] = users[u]]
    BY <1>a, <1>d, <1>f
  <1>h. ASSUME Goto(t, "memory")
        PROVE  \E m \in TaskType :
                  /\ m.at = "memory" /\ m.op = task[t].op /\ m.id = u /\ m.new = new /\ m.about = task[t].about
                  /\ TaskShape(m) /\ task' = [task EXCEPT ![t] = m] /\ ~Inserting(m)
    <2>1. PICK m \in TaskType :
              /\ m.at = "memory" /\ m.op = task[t].op /\ m.id = task[t].id /\ m.new = task[t].new
              /\ m.about = task[t].about /\ TaskShape(m) /\ task' = [task EXCEPT ![t] = m]
      BY <1>a, <1>b, <1>h, GoesOn
    <2> QED
      BY <1>c, <2>1 DEF Inserting
  <1>1. CASE InsertUser(t)
    <2>a. task[t].op = "create_user" /\ new # NoUser
      BY <1>b, <1>c, <1>1, <1>e DEF InsertUser, At, UserTask, UserOps
    <2>1. ASSUME Done(t), UNCHANGED userRows PROVE UsersStep
      <3>1. minted \subseteq minted'
        BY <1>1 DEF InsertUser
      <3> QED
        BY <1>b, <1>f, <2>1, <3>1, GivesUp
    <2>2. ASSUME u \notin minted, userRows' = [userRows EXCEPT ![u] = new], Goto(t, "memory") PROVE UsersStep
      <3>1. PICK m \in TaskType :
               /\ m.at = "memory" /\ m.op = task[t].op /\ m.id = u /\ m.new = new /\ m.about = task[t].about
               /\ TaskShape(m) /\ task' = [task EXCEPT ![t] = m] /\ ~Inserting(m)
        BY <1>h, <2>2
      <3>2. userRows'[u] = new
        BY <1>a, <1>d, <2>2
      <3>3. u \in minted' /\ minted \subseteq minted'
        BY <1>1, <1>d, <2>a, <3>2 DEF InsertUser
      <3>4. users[u] = NoUser /\ \A b \in Boots : ~Booting(b, u)
        BY <1>d, <2>2 DEF UserInv, Unminted, BootSound, Booting
      <3>5. UserTask(m)'
        BY <1>f, <2>a, <3>1, <3>2, <3>3, <3>4 DEF UserTask, UserOps
      <3>6. LeavesSuper(m)'
        BY <2>a, <3>1 DEF LeavesSuper, MayLower
      <3>7. ~BothSuper(u)
        BY <3>4 DEF BothSuper, EnabledSuper, NoUser, User
      <3>8. \A k \in Tasks \ {t} : Concerns(k, u) =>
              \/ Inserting(task[k])
              \/ u \in raced /\ task[k].op # "create_user" /\ task[t].op # "create_user"
        BY <1>d, <2>2, OnlyOne
      <3> QED
        BY <1>b, <1>d, <1>f, <1>g, <2>2, <3>1, <3>3, <3>4, <3>5, <3>6, <3>7, <3>8, UserChanged
    <2> QED
      BY <1>1, <1>c, <2>1, <2>2 DEF InsertUser, Write
  <1>2. CASE UpdateUserRow(t) \/ DeleteUserRow(t) \/ PasswordRow(t)
    <2>a. /\ task[t].op \in {"update_user", "rename_user", "delete_user", "password"} /\ UNCHANGED minted
          /\ ~Inserting(task[t])
      BY <1>2 DEF UpdateUserRow, DeleteUserRow, PasswordRow, At, Inserting
    <2>b. u \in minted /\ \A b \in Boots : ~Booting(b, u)
      BY <1>b, <1>c, <1>e, <2>a, NotBooting DEF UserTask
    <2>c. \A k \in Tasks \ {t} : Concerns(k, u) =>
              \/ Inserting(task[k])
              \/ u \in raced /\ task[k].op # "create_user" /\ task[t].op # "create_user"
      BY <1>d, <2>a, OnlyOne
    <2>1. PICK r \in UserRec : /\ Write(t, r) /\ (userRows[u] = NoUser => r = NoUser)
                               /\ task[t].op \in {"update_user", "rename_user"} => r \in {NoUser, new}
                               /\ task[t].op \in {"update_user", "rename_user"} /\ u \notin raced => r = new
                               /\ task[t].op = "delete_user" => r = NoUser
                               /\ task[t].op = "password" => r = userRows[u]
      <3>1. CASE UpdateUserRow(t)
        <4>1. task[t].op \in {"update_user", "rename_user"} /\ (u \notin raced => userRows[u] # NoUser)
          BY <1>b, <1>c, <1>e, <3>1 DEF UpdateUserRow, At, UserTask
        <4>2. Write(t, IF userRows[u] = NoUser THEN NoUser ELSE new)
          BY <1>c, <3>1 DEF UpdateUserRow
        <4> QED
          BY <1>d, <4>1, <4>2, Constants
      <3>2. CASE DeleteUserRow(t)
        BY <3>2, Constants DEF DeleteUserRow, At
      <3>3. CASE PasswordRow(t)
        BY <1>c, <1>d, <3>3 DEF PasswordRow, At
      <3> QED
        BY <1>2, <3>1, <3>2, <3>3
    <2>2. CASE Done(t) /\ UNCHANGED userRows
      BY <1>b, <1>f, <2>2, <2>a, GivesUp
    <2>3. CASE userRows' = [userRows EXCEPT ![u] = r] /\ Goto(t, "memory")
      <3>1. PICK m \in TaskType :
               /\ m.at = "memory" /\ m.op = task[t].op /\ m.id = u /\ m.new = new /\ m.about = task[t].about
               /\ TaskShape(m) /\ task' = [task EXCEPT ![t] = m] /\ ~Inserting(m)
        BY <1>h, <2>3
      <3>2. userRows'[u] = r /\ \A v \in Users \ {u} : userRows'[v] = userRows[v]
        BY <1>a, <1>d, <2>3
      <3>n. task[t].op # "delete_user" => new # NoUser
        BY <1>b, <1>c, <1>e DEF UserTask, UserOps
      <3>p. task[t].op = "password" /\ u \notin raced => users[u] = new /\ users[u] = userRows[u]
        BY <1>b, <1>c, <1>e DEF UserTask
      <3>3. UserTask(m)'
        BY <1>f, <2>a, <2>b, <2>1, <3>1, <3>2, <3>n, <3>p DEF UserTask, UserOps
      <3>q. ~EnabledSuper(NoUser)
        BY DEF EnabledSuper, NoUser, User
      <3>r. raced \subseteq Tenants /\ MayLower(task[t]) /\ EnabledSuper(users[u]) =>
               "super_admin" \in task[t].about /\ \E v \in Users \ {u} : BothSuper(v)
        BY <1>c, <1>e DEF LeavesSuper
      <3>s. MayLower(m) => MayLower(task[t])
        BY <1>b, <1>c, <3>1 DEF MayLower
      <3>4. ASSUME raced \subseteq Tenants PROVE LeavesSuper(m)'
        <4> SUFFICES ASSUME MayLower(m), EnabledSuper(users[u]) \/ EnabledSuper(userRows'[u])
                     PROVE  "super_admin" \in m.about /\ \E v \in Users \ {u} : BothSuper(v)'
          BY <1>f, <3>1 DEF LeavesSuper, MayLower
        <4>1. ~EnabledSuper(r)
          BY <2>1, <3>1, <3>q DEF MayLower
        <4>2. EnabledSuper(users[u])
          BY <3>2, <4>1
        <4>3. PICK v \in Users \ {u} : BothSuper(v)
          BY <3>r, <3>s, <3>4, <4>2
        <4>4. BothSuper(v)'
          BY <1>f, <3>2, <4>3 DEF BothSuper
        <4> QED
          BY <3>1, <3>r, <3>s, <3>4, <4>2, <4>4
      <3>5. raced \subseteq Tenants /\ BothSuper(u) =>
               \/ EnabledSuper(users[u]) /\ EnabledSuper(r)
               \/ "super_admin" \in task[t].about /\ \E v \in Users \ {u} : BothSuper(v)
        <4> SUFFICES ASSUME raced \subseteq Tenants, BothSuper(u), ~EnabledSuper(r)
                     PROVE  "super_admin" \in task[t].about /\ \E v \in Users \ {u} : BothSuper(v)
          BY DEF BothSuper
        <4>0. u \notin raced
          BY <1>d, Unraced
        <4>1. task[t].op # "password"
          BY <2>1 DEF BothSuper
        <4>2. MayLower(task[t])
          BY <1>b, <1>c, <2>a, <2>1, <4>0, <4>1 DEF MayLower
        <4> QED
          BY <3>r, <4>2 DEF BothSuper
      <3>7. /\ m.op = task[t].op /\ m.op \in UserOps /\ m.id = u /\ ~Inserting(m)
            /\ UserTask(m)' /\ (raced \subseteq Tenants => LeavesSuper(m)')
            /\ m.about \subseteq task[t].about /\ m.at = "memory" /\ task' = [task EXCEPT ![t] = m]
        BY <1>b, <3>1, <3>3, <3>4
      <3>8. /\ userRows[u] = NoUser => r = NoUser
            /\ (users[u] = NoUser => userRows[u] = NoUser) => (users[u] = NoUser => r = NoUser)
        BY <2>1
      <3>9. u \in minted' /\ minted \subseteq minted' /\ UNCHANGED <<boot, raced>>
            /\ userRows' = [userRows EXCEPT ![u] = r]
        BY <1>f, <2>a, <2>b, <2>3
      <3>10. PICK a \in UserRec : a = users[u]
        BY <1>d
      <3>11. /\ users' = [users EXCEPT ![u] = a]
             /\ (users[u] = NoUser => userRows[u] = NoUser) => (a = NoUser => r = NoUser)
             /\ raced \subseteq Tenants /\ BothSuper(u) =>
                  \/ EnabledSuper(a) /\ EnabledSuper(r)
                  \/ "super_admin" \in task[t].about /\ \E v \in Users \ {u} : BothSuper(v)
        BY <1>g, <3>5, <3>8, <3>10
      <3> QED
        BY <1>d, <2>b, <2>c, <2>1, <3>1, <3>7, <3>8, <3>9, <3>10, <3>11, UserChanged
    <2> QED
      BY <1>c, <2>1, <2>2, <2>3 DEF Write
  <1> QED
    BY <1>1, <1>2

(* The changes in memory that follow them: what is published is what the row holds, if nobody
   else changes the user; a user that is gone from the database does not lose its record
   before its row. *)
LEMMA PublishUsers ==
    ASSUME SessionInv, UserInv, SuperInv, NEW t \in Tasks, UNCHANGED raced,
           PublishCreated(t) \/ PublishUpdated(t) \/ PublishDeleted(t) \/ PublishPassword(t)
    PROVE  UsersStep
  <1>a. /\ Types /\ task[t] \in TaskType /\ TaskShape(task[t])
        /\ users \in [Users -> UserRec] /\ userRows \in [Users -> UserRec]
    BY DEF SessionInv, Types, RecordTypes
  <1>b. task[t].at = "memory" /\ task[t].op \in UserOps /\ task[t].at # "idle" /\ ~Inserting(task[t])
    BY DEF PublishCreated, PublishUpdated, PublishDeleted, PublishPassword, At, UserOps, Inserting
  <1>c. PICK u, new : u = task[t].id /\ new = task[t].new
    OBVIOUS
  <1>d. u \in Users /\ new \in UserRec /\ users[u] \in UserRec /\ userRows[u] \in UserRec /\ Concerns(t, u)
    BY <1>a, <1>b, <1>c DEF TaskShape, Concerns
  <1>e. UserTask(task[t])
    BY <1>b DEF UserInv
  <1>f. UNCHANGED <<userRows, minted, boot>>
    BY DEF PublishCreated, PublishUpdated, PublishDeleted, PublishPassword, Publish, bootVars
  <1>g. PICK r \in UserRec : r = userRows[u] /\ userRows' = [userRows EXCEPT ![u] = r]
    BY <1>a, <1>d, <1>f
  <1>h. u \in minted' /\ minted \subseteq minted' /\ \A b \in Boots : ~Booting(b, u)
    BY <1>b, <1>c, <1>e, <1>f, NotBooting DEF UserTask
  <1>i. \A k \in Tasks \ {t} : Concerns(k, u) =>
              \/ Inserting(task[k])
              \/ u \in raced /\ task[k].op # "create_user" /\ task[t].op # "create_user"
    BY <1>b, <1>d, OnlyOne
  <1>n. task[t].op # "delete_user" => new # NoUser
    BY <1>b, <1>c, <1>e DEF UserTask, UserOps
  <1>1. PICK a \in UserRec : /\ users' = [users EXCEPT ![u] = a]
                             /\ u \in raced \/ a = r
                             /\ (users[u] = NoUser => userRows[u] = NoUser) => (a = NoUser => r = NoUser)
    <2>1. CASE PublishCreated(t) \/ PublishUpdated(t)
      <3>1. u \in raced \/ r = new
        BY <1>b, <1>c, <1>e, <1>g, <2>1 DEF UserTask, PublishCreated, PublishUpdated, At
      <3>2. new # NoUser
        BY <1>n, <2>1 DEF PublishCreated, PublishUpdated, At
      <3>3. users' = [users EXCEPT ![u] = new]
        BY <1>c, <2>1 DEF PublishCreated, PublishUpdated, Publish
      <3> QED
        BY <1>d, <3>1, <3>2, <3>3
    <2>2. CASE PublishDeleted(t)
      <3>1. r = NoUser
        BY <1>b, <1>c, <1>e, <1>g, <2>2 DEF UserTask, PublishDeleted, At
      <3> QED
        BY <1>c, <2>2, <3>1, Constants DEF PublishDeleted, Publish
    <2>3. CASE PublishPassword(t)
      <3>1. u \in raced \/ (r = new /\ users[u] = new)
        BY <1>b, <1>c, <1>e, <1>g, <2>3 DEF UserTask, PublishPassword, At
      <3>2. new # NoUser
        BY <1>n, <2>3 DEF PublishPassword, At
      <3>3. users' = [users EXCEPT ![u] = IF users[u] = NoUser THEN NoUser ELSE new]
        BY <1>c, <2>3 DEF PublishPassword, Publish
      <3> QED
        BY <1>d, <1>g, <3>1, <3>2, <3>3, Constants
    <2> QED
      BY <2>1, <2>2, <2>3
  <1>2. PICK m \in TaskType :
           /\ \/ m = IdleTask
              \/ m.at = "unrow" /\ m.op \in {"update_user", "password"} /\ m.op = task[t].op /\ m.id = u /\ m.new = new
           /\ m.about \subseteq task[t].about
           /\ task' = [task EXCEPT ![t] = m]
    <2>1. CASE Done(t)
      BY <2>1, Constants DEF Done
    <2>2. CASE task[t].op \in {"update_user", "password"} /\ CollectSessions(t)
      <3>1. PICK m \in TaskType :
               /\ m = IdleTask \/ (m.at = "unrow" /\ m.op = task[t].op /\ m.id = task[t].id /\ m.new = task[t].new)
               /\ m.about \subseteq task[t].about /\ task' = [task EXCEPT ![t] = m]
        BY <1>a, <1>b, <2>2, Collects
      <3> QED
        BY <1>c, <2>2, <3>1
    <2> QED
      BY <2>1, <2>2 DEF PublishCreated, PublishUpdated, PublishDeleted, PublishPassword, At
  <1>3. m.at # "idle" => /\ m.op = task[t].op /\ m.op \in UserOps /\ m.id = u /\ ~Inserting(m)
                         /\ UserTask(m)' /\ (raced \subseteq Tenants => LeavesSuper(m)')
    <2> SUFFICES ASSUME m.at = "unrow", m.op \in {"update_user", "password"}, m.op = task[t].op, m.id = u, m.new = new
                 PROVE  m.op \in UserOps /\ ~Inserting(m) /\ UserTask(m)' /\ LeavesSuper(m)'
      BY <1>2, Constants
    <2>1. new # NoUser
      BY <1>n
    <2> QED
      BY <1>f, <1>h, <2>1 DEF UserTask, UserOps, LeavesSuper, MayLower, Inserting
  <1>4. raced \subseteq Tenants /\ BothSuper(u) =>
              \/ EnabledSuper(a) /\ EnabledSuper(r)
              \/ "super_admin" \in task[t].about /\ \E v \in Users \ {u} : BothSuper(v)
    BY <1>d, <1>g, <1>1, Unraced DEF BothSuper
  <1>5. u \in minted => /\ userRows[u] = NoUser => r = NoUser
                        /\ (users[u] = NoUser => userRows[u] = NoUser) => (a = NoUser => r = NoUser)
    BY <1>g, <1>1
  <1>6. UNCHANGED <<boot, raced>>
    BY <1>f
  <1> QED
    BY <1>d, <1>g, <1>h, <1>i, <1>1, <1>2, <1>3, <1>4, <1>5, <1>6, UserChanged

(* Taking sessions away, and the statements about tenants, leave users alone. *)
LEMMA OtherUsers ==
    ASSUME SessionInv, UserInv, SuperInv, NEW t \in Tasks, UNCHANGED raced,
           \/ DeleteSessions(t) \/ ForgetSessions(t)
           \/ InsertTenant(t) \/ UpdateTenantRow(t) \/ RotateTokenRow(t) \/ DeleteTenantRow(t) \/ PublishTenant(t)
    PROVE  UsersStep
  <1>a. Types /\ task[t] \in TaskType /\ TaskShape(task[t]) /\ Alone
    BY DEF SessionInv, Types, RecordTypes, UserInv
  <1>1. CASE DeleteSessions(t) \/ ForgetSessions(t)
    <2>1. UNCHANGED <<users, userRows, minted, boot>> /\ task[t].at \in {"unrow", "forget"}
      BY <1>1 DEF DeleteSessions, ForgetSessions, userVars, bootVars
    <2>2. CASE Done(t)
      BY <2>1, <2>2, GivesUp
    <2>3. CASE (task[t].at = "unrow" /\ Goto(t, "forget")) \/ (task[t].op = "delete_user" /\ task[t].at = "forget" /\ Goto(t, "row"))
      <3>1. PICK m \in TaskType :
               /\ m.at \in {"forget", "row"} /\ (m.at = "row" => m.op = "delete_user")
               /\ m.op = task[t].op /\ m.id = task[t].id /\ m.new = task[t].new /\ m.about = task[t].about
               /\ TaskShape(m) /\ task' = [task EXCEPT ![t] = m]
        BY <1>a, <2>1, <2>3, GoesOn
      <3>2. task[t].op # "create_user" /\ task[t].at # "idle" /\ ~Inserting(task[t])
        BY <1>a, <2>1 DEF TaskShape, Inserting
      <3>3. UserTask(task[t]) /\ (raced \subseteq Tenants => LeavesSuper(task[t]))
        BY <3>2 DEF UserInv, SuperInv
      <3>4. UserTask(m)'
        BY <2>1, <3>1, <3>2, <3>3 DEF UserTask, UserOps, Inserting
      <3>5. raced' \subseteq Tenants => LeavesSuper(m)
        BY <3>1, <3>3 DEF LeavesSuper, MayLower
      <3>6. m.op \in UserOps => \A b \in Boots : ~Booting(b, m.id)
        BY <3>1, <3>2, NotBooting
      <3>7. task[t].at # "memory" /\ m.at # "memory"
        BY <2>1, <3>1
      <3>8. ASSUME m.op \in UserOps, NEW k \in Tasks, Writes(k, m.id), task[k].op = "create_user" PROVE FALSE
        <4>1. Concerns(t, m.id) /\ k # t /\ task[k].id = m.id
          BY <3>1, <3>2, <3>8 DEF Concerns, Writes
        <4> QED
          BY <3>2, <3>8, <4>1 DEF UserInv, CreateSound
      <3>9. Alone'
        BY <1>a, <3>1, AloneStays
      <3> QED
        BY <2>1, <3>1, <3>4, <3>5, <3>6, <3>7, <3>8, <3>9, UsersKept
    <2> QED
      BY <1>1, <2>2, <2>3 DEF DeleteSessions, ForgetSessions
  <1>2. CASE InsertTenant(t) \/ UpdateTenantRow(t) \/ RotateTokenRow(t) \/ DeleteTenantRow(t) \/ PublishTenant(t)
    <2>1. /\ task[t].op \in TenantOps /\ task[t].op \notin UserOps
          /\ Done(t) \/ (task[t].at = "row" /\ Goto(t, "memory"))
      BY <1>2 DEF InsertTenant, UpdateTenantRow, RotateTokenRow, DeleteTenantRow, PublishTenant, TenantWrite, At,
                  TenantOps, UserOps
    <2>2. UNCHANGED <<users, userRows, boot>> /\ minted \subseteq minted'
      BY <1>2 DEF InsertTenant, UpdateTenantRow, RotateTokenRow, DeleteTenantRow, PublishTenant, TenantWrite,
                  userVars, bootVars
    <2>3. CASE Done(t)
      BY <2>1, <2>2, <2>3, GivesUp
    <2>4. CASE task[t].at = "row" /\ Goto(t, "memory")
      <3>1. PICK m \in TaskType : m.op = task[t].op /\ m.about = task[t].about /\ task' = [task EXCEPT ![t] = m]
        BY <1>a, <2>4, GoesOn
      <3>2. Alone'
        BY <1>a, <3>1, AloneStays
      <3> QED
        BY <2>1, <2>2, <2>4, <3>1, <3>2, UsersKept
    <2> QED
      BY <2>1, <2>3, <2>4
  <1> QED
    BY <1>1, <1>2

(* Logins, and sessions that expire, leave users and tasks alone. *)
LEMMA SameUsers ==
    ASSUME UserInv, SuperInv, UNCHANGED <<users, userRows, minted, task, raced>>,
           \A b \in Boots : boot'[b].at = "memory" => boot'[b] = boot[b],
           \A b \in Boots : boot[b].at = "memory" => boot'[b] = boot[b]
    PROVE  UsersStep
  <1>1. \A b \in Boots, u \in Users : Booting(b, u)' <=> Booting(b, u)
    BY DEF Booting
  <1>2. BootSound'
    BY DEF UserInv, BootSound, Booting, Concerns, Inserting
  <1>3. \A u \in Users : UserAgrees(u)'
    BY <1>1 DEF UserInv, UserAgrees, Writes
  <1>4. UserInv'
    BY <1>2, <1>3 DEF UserInv, Alone, Unminted, UserTask, CreateSound, Writes, Concerns, Inserting
  <1>5. SuperInv'
    BY DEF SuperInv, LeavesSuper, MayLower, BothSuper
  <1> QED
    BY <1>4, <1>5 DEF UsersStep, HasSuper, RowsStay

(* bootstrap inserts a user nobody has, and publishes what it inserted. *)
LEMMA BootUsers ==
    ASSUME SessionInv, UserInv, SuperInv, NEW b \in Boots, BootStep(b), UNCHANGED raced
    PROVE  UsersStep
  <1>a. /\ boot \in [Boots -> [at : {"idle", "insert", "memory"}, user : Users \cup {None}]]
        /\ users \in [Users -> UserRec] /\ userRows \in [Users -> UserRec]
        /\ boot[b].at # "idle" => boot[b].user \in Users
        /\ \A c \in Boots : boot[c].at # "idle" => boot[c].user \in Users
        /\ \A k \in Tasks : TaskShape(task[k])
    BY DEF SessionInv, Types, RecordTypes, BootTypes
  <1>b. UNCHANGED task
    BY DEF BootStep, BootLock, BootInsert, BootMemory, BootAbandon
  <1>c. PICK u : u = boot[b].user
    OBVIOUS
  <1>e. /\ Alone' /\ CreateSound'
        /\ \A k \in Tasks : Inserting(task[k])' <=> Inserting(task[k])
    BY <1>b DEF UserInv, Alone, CreateSound, Writes, Concerns, Inserting
  <1>d. EnabledSuper(Super) /\ Super # NoUser /\ ~EnabledSuper(NoUser)
    BY DEF EnabledSuper, Super, NoUser, User
  <1>1. ASSUME UNCHANGED <<users, userRows, minted>>, boot[b].at # "memory", boot'[b].at # "memory",
               \A c \in Boots \ {b} : boot'[c] = boot[c]
        PROVE  UsersStep
    BY <1>b, <1>1, SameUsers
  <1>2. CASE \E v \in Users : BootLock(b, v)
    <2>1. PICK v \in Users : BootLock(b, v)
      BY <1>2
    <2>2. /\ UNCHANGED <<users, userRows, minted>> /\ boot[b].at = "idle"
          /\ boot' = [boot EXCEPT ![b] = [at |-> "insert", user |-> v]]
      BY <2>1 DEF BootLock, userVars
    <2>3. boot'[b].at = "insert" /\ \A c \in Boots \ {b} : boot'[c] = boot[c]
      BY <1>a, <2>2
    <2> QED
      BY <1>1, <2>2, <2>3
  <1>3. CASE BootInsert(b)
    <2>1. CASE BootEnd(b) /\ UNCHANGED <<userRows, minted>>
      <3>1. boot'[b].at = "idle" /\ \A c \in Boots \ {b} : boot'[c] = boot[c]
        BY <1>a, <2>1, Constants DEF BootEnd
      <3>2. UNCHANGED users /\ boot[b].at = "insert"
        BY <1>3 DEF BootInsert
      <3> QED
        BY <1>1, <2>1, <3>1, <3>2
    <2>2. CASE /\ u \notin minted /\ minted' = minted \cup {u}
               /\ userRows' = [userRows EXCEPT ![u] = Super]
               /\ boot' = [boot EXCEPT ![b].at = "memory"]
      <3>1. users' = users /\ boot[b].at = "insert" /\ u \in Users
        BY <1>a, <1>c, <1>3 DEF BootInsert
      <3>2. \A v \in Users : userRows'[v] = IF v = u THEN Super ELSE userRows[v]
        BY <1>a, <2>2
      <3>3. /\ boot'[b].at = "memory" /\ boot'[b].user = u
            /\ \A c \in Boots : c # b => boot'[c] = boot[c]
        BY <1>a, <1>c, <2>2
      <3>4. users[u] = NoUser /\ userRows[u] = NoUser
        BY <2>2, <3>1 DEF UserInv, Unminted
      <3>5. \A c \in Boots : boot[c].at = "memory" => boot[c].user # u
        BY <2>2 DEF UserInv, BootSound
      <3>6. \A k \in Tasks : Concerns(k, u) => Inserting(task[k])
        BY <2>2 DEF UserInv, UserTask, Concerns
      <3>7. \A k \in Tasks : Concerns(k, u)' <=> Concerns(k, u)
        BY <1>b DEF Concerns
      <3>8. BootSound'
        <4> SUFFICES ASSUME NEW c \in Boots, boot'[c].at = "memory", NEW w, w = boot'[c].user
                     PROVE  /\ w \in minted' /\ userRows'[w] = Super /\ users'[w] = NoUser
                            /\ \A k \in Tasks : Concerns(k, w)' => Inserting(task[k])
                            /\ \A e \in Boots : Booting(e, w)' => e = c
          BY <1>b DEF BootSound
        <4>1. CASE c = b
          <5>1. w = u
            BY <3>3, <4>1
          <5>2. \A e \in Boots : Booting(e, u)' => e = b
            BY <3>3, <3>5 DEF Booting
          <5> QED
            BY <2>2, <3>1, <3>2, <3>4, <3>6, <3>7, <4>1, <5>1, <5>2
        <4>2. CASE c # b
          <5>1. boot[c].at = "memory" /\ w = boot[c].user /\ w # u /\ w \in Users
            BY <1>a, <3>3, <3>5, <4>2
          <5>2. /\ w \in minted /\ userRows[w] = Super /\ users[w] = NoUser
                /\ \A k \in Tasks : Concerns(k, w) => Inserting(task[k])
                /\ \A e \in Boots : Booting(e, w) => e = c
            BY <5>1 DEF UserInv, BootSound
          <5>3. \A e \in Boots : Booting(e, w)' => e = c
            BY <3>3, <5>1, <5>2 DEF Booting
          <5>4. \A k \in Tasks : Concerns(k, w)' <=> Concerns(k, w)
            BY <1>b DEF Concerns
          <5> QED
            BY <2>2, <3>1, <3>2, <5>1, <5>2, <5>3, <5>4
        <4> QED
          BY <4>1, <4>2
      <3>9. Unminted'
        BY <2>2, <3>1, <3>2 DEF UserInv, Unminted
      <3>10. ASSUME NEW v \in Users PROVE UserAgrees(v)'
        <4>1. CASE v = u
          BY <3>3, <4>1 DEF UserAgrees, Booting
        <4>2. CASE v # u
          <5>1. UserAgrees(v) /\ userRows'[v] = userRows[v]
            BY <3>2, <4>2 DEF UserInv
          <5>2. \A c \in Boots : Booting(c, v) => Booting(c, v)'
            BY <3>1, <3>3 DEF Booting
          <5> QED
            BY <1>b, <3>1, <5>1, <5>2 DEF UserAgrees, Writes
        <4> QED
          BY <4>1, <4>2
      <3>11. ASSUME NEW k \in Tasks, task[k].at # "idle"
             PROVE  UserTask(task[k])' /\ (raced \subseteq Tenants => LeavesSuper(task[k])')
        <4>a. UserTask(task[k]) /\ (raced \subseteq Tenants => LeavesSuper(task[k])) /\ TaskShape(task[k])
          BY <1>a, <3>11 DEF UserInv, SuperInv
        <4>1. CASE task[k].op \notin UserOps
          BY <1>b, <4>1 DEF UserTask, Inserting, LeavesSuper, MayLower, UserOps
        <4>2. CASE Inserting(task[k])
          BY <1>b, <4>a, <4>2 DEF UserTask, Inserting, LeavesSuper, MayLower
        <4>3. CASE task[k].op \in UserOps /\ ~(Inserting(task[k]))
          <5>1. task[k].id \in minted /\ task[k].id \in Users
            BY <3>11, <4>a, <4>3 DEF UserTask, TaskShape
          <5>2. userRows'[task[k].id] = userRows[task[k].id]
            BY <2>2, <3>2, <5>1
          <5>3. UserTask(task[k])'
            BY <1>b, <2>2, <3>1, <4>a, <5>1, <5>2 DEF UserTask, Inserting
          <5>4. \A v \in Users : BothSuper(v) => BothSuper(v)'
            BY <1>d, <3>1, <3>2, <3>4 DEF BothSuper
          <5>5. raced \subseteq Tenants => LeavesSuper(task[k])'
            BY <1>b, <3>1, <4>a, <5>2, <5>4 DEF LeavesSuper, MayLower
          <5> QED
            BY <5>3, <5>5
        <4> QED
          BY <4>1, <4>2, <4>3
      <3>12. HasSuper => HasSuper'
        BY <1>d, <3>1, <3>2 DEF HasSuper
      <3>13. RowsStay
        BY <2>2, <3>1, <3>2 DEF RowsStay
      <3> QED
        BY <1>b, <1>e, <3>8, <3>9, <3>10, <3>11, <3>12, <3>13 DEF UsersStep, UserInv, SuperInv
    <2> QED
      BY <1>c, <1>3, <2>1, <2>2 DEF BootInsert, Super
  <1>4. CASE BootMemory(b)
    <2>1. /\ boot[b].at = "memory" /\ u \in Users /\ UNCHANGED <<userRows, minted>>
          /\ users' = [users EXCEPT ![u] = Super] /\ BootEnd(b)
      BY <1>a, <1>c, <1>4 DEF BootMemory, Super
    <2>2. \A v \in Users : users'[v] = IF v = u THEN Super ELSE users[v]
      BY <1>a, <2>1
    <2>3. boot'[b].at = "idle" /\ \A c \in Boots : c # b => boot'[c] = boot[c]
      BY <1>a, <2>1, Constants DEF BootEnd
    <2>4. /\ u \in minted /\ userRows[u] = Super /\ users[u] = NoUser
          /\ \A k \in Tasks : Concerns(k, u) => Inserting(task[k])
          /\ \A c \in Boots : Booting(c, u) => c = b
      BY <1>c, <2>1 DEF UserInv, BootSound
    <2>5. BootSound'
      <3> SUFFICES ASSUME NEW c \in Boots, boot'[c].at = "memory", NEW w, w = boot'[c].user
                   PROVE  /\ w \in minted /\ userRows[w] = Super /\ users'[w] = NoUser
                          /\ \A k \in Tasks : Concerns(k, w)' => Inserting(task[k])
                          /\ \A e \in Boots : Booting(e, w)' => e = c
        BY <1>b, <2>1 DEF BootSound
      <3>1. c # b /\ boot[c].at = "memory" /\ w = boot[c].user /\ w \in Users
        BY <1>a, <2>3
      <3>2. w # u
        BY <2>4, <3>1 DEF Booting
      <3>3. /\ w \in minted /\ userRows[w] = Super /\ users[w] = NoUser
            /\ \A k \in Tasks : Concerns(k, w) => Inserting(task[k])
            /\ \A e \in Boots : Booting(e, w) => e = c
        BY <3>1 DEF UserInv, BootSound
      <3>4. \A e \in Boots : Booting(e, w)' => e = c
        BY <2>3, <3>1, <3>3 DEF Booting
      <3>5. \A k \in Tasks : Concerns(k, w)' <=> Concerns(k, w)
        BY <1>b DEF Concerns
      <3> QED
        BY <2>2, <3>1, <3>2, <3>3, <3>4, <3>5
    <2>6. Unminted'
      BY <2>1, <2>2, <2>4 DEF UserInv, Unminted
    <2>7. ASSUME NEW v \in Users PROVE UserAgrees(v)'
      <3>1. CASE v = u
        BY <2>1, <2>2, <2>4, <3>1 DEF UserAgrees
      <3>2. CASE v # u
        <4>1. UserAgrees(v) /\ users'[v] = users[v]
          BY <2>2, <3>2 DEF UserInv
        <4>2. \A c \in Boots : Booting(c, v) => Booting(c, v)'
          BY <1>c, <2>3, <3>2 DEF Booting
        <4> QED
          BY <1>b, <2>1, <4>1, <4>2 DEF UserAgrees, Writes
      <3> QED
        BY <3>1, <3>2
    <2>8. \A v \in Users : BothSuper(v) => BothSuper(v)'
      BY <1>d, <2>1, <2>2, <2>4 DEF BothSuper
    <2>9. ASSUME NEW k \in Tasks, task[k].at # "idle"
          PROVE  UserTask(task[k])' /\ (raced \subseteq Tenants => LeavesSuper(task[k])')
      <3>a. UserTask(task[k]) /\ (raced \subseteq Tenants => LeavesSuper(task[k])) /\ TaskShape(task[k])
        BY <1>a, <2>9 DEF UserInv, SuperInv
      <3>1. CASE task[k].op \notin UserOps
        BY <1>b, <3>1 DEF UserTask, Inserting, LeavesSuper, MayLower, UserOps
      <3>2. CASE Inserting(task[k])
        BY <1>b, <3>a, <3>2 DEF UserTask, Inserting, LeavesSuper, MayLower
      <3>3. CASE task[k].op \in UserOps /\ ~(Inserting(task[k]))
        <4>1. task[k].id # u /\ task[k].id \in Users
          BY <2>4, <2>9, <3>a, <3>3 DEF Concerns, TaskShape
        <4>2. users'[task[k].id] = users[task[k].id]
          BY <2>2, <4>1
        <4>3. UserTask(task[k])'
          BY <1>b, <2>1, <3>a, <4>1, <4>2 DEF UserTask, Inserting
        <4>4. raced \subseteq Tenants => LeavesSuper(task[k])'
          BY <1>b, <2>1, <2>8, <3>a, <4>2 DEF LeavesSuper, MayLower
        <4> QED
          BY <4>3, <4>4
      <3> QED
        BY <3>1, <3>2, <3>3
    <2>10. HasSuper => HasSuper'
      BY <2>8 DEF HasSuper, BothSuper
    <2>11. RowsStay
      BY <1>d, <2>1, <2>2 DEF RowsStay
    <2> QED
      BY <1>b, <1>e, <2>5, <2>6, <2>7, <2>9, <2>10, <2>11 DEF UsersStep, UserInv, SuperInv
  <1>5. CASE BootAbandon(b)
    BY <1>b, <1>5, SameUsers DEF BootAbandon, userVars
  <1> QED
    BY <1>2, <1>3, <1>4, <1>5 DEF BootStep

(* What is loaded from the rows is what the rows hold. *)
LEMMA RestartUsers == ASSUME UserInv, Restart PROVE UsersStep
  <1>1. /\ users' = userRows /\ UNCHANGED <<userRows, minted>>
        /\ task' = [t \in Tasks |-> IdleTask] /\ boot' = [b \in Boots |-> IdleBoot]
    BY DEF Restart
  <1>2. /\ \A t \in Tasks : task'[t].at = "idle" /\ task'[t].about = {}
        /\ \A b \in Boots : boot'[b].at = "idle"
    BY <1>1, Constants
  <1>3. Alone' /\ CreateSound' /\ BootSound'
    BY <1>2 DEF Alone, CreateSound, Writes, BootSound
  <1>4. UserInv'
    BY <1>1, <1>2, <1>3 DEF UserInv, Unminted, UserAgrees
  <1>5. SuperInv'
    BY <1>2 DEF SuperInv
  <1>6. (HasSuper => HasSuper') /\ RowsStay
    BY <1>1 DEF HasSuper, RowsStay
  <1> QED
    BY <1>4, <1>5, <1>6 DEF UsersStep

-----------------------------------------------------------------------------
(* The task moves, tenants stay as they are. *)
LEMMA TenantsKept ==
    ASSUME SessionInv, TenantInv, NEW t \in Tasks, NEW m \in TaskType,
           task' = [task EXCEPT ![t] = m], UNCHANGED <<tenants, tenantRows>>, minted \subseteq minted',
           raced \subseteq raced',
           task[t].at = "memory" => task[t].op \notin TenantOps,
           m.at # "idle" /\ m.op \in TenantOps =>
              /\ m.at # "memory" /\ TenantTask(m)'
              /\ \/ Inserting(m)
                 \/ \A k \in Tasks : ~(TenantWrites(k, m.id) /\ task[k].op = "create_tenant")
    PROVE  TenantInv'
  <1>a. \A k \in Tasks : task'[k] = IF k = t THEN m ELSE task[k]
    BY DEF SessionInv, Types, RecordTypes
  <1>1. ASSUME NEW n \in Tenants PROVE TenantAgrees(n)'
    <2>1. TenantAgrees(n)
      BY DEF TenantInv
    <2>2. \A k \in Tasks : TenantWrites(k, n) => TenantWrites(k, n)'
      BY <1>a DEF TenantWrites
    <2> QED
      BY <2>1, <2>2 DEF TenantAgrees
  <1>2. ASSUME NEW k \in Tasks, task'[k].at # "idle" PROVE TenantTask(task[k])'
    <2>1. CASE k = t
      <3>1. CASE m.op \in TenantOps
        BY <1>a, <1>2, <2>1, <3>1 DEF TenantTask, Inserting
      <3>2. CASE m.op \notin TenantOps
        BY <1>a, <2>1, <3>2 DEF TenantTask, TenantOps
      <3> QED
        BY <3>1, <3>2
    <2>2. CASE k # t
      <3>1. task'[k] = task[k] /\ TenantTask(task[k])
        BY <1>a, <1>2, <2>2 DEF TenantInv
      <3> QED
        BY <3>1 DEF TenantTask, Inserting
    <2> QED
      BY <2>1, <2>2
  <1>3. ASSUME NEW s \in Tasks, NEW k \in Tasks, NEW n, n = task'[s].id, TenantWrites(s, n)',
               task'[s].op = "create_tenant", k # s, TenantConcerns(k, n)'
        PROVE  Inserting(task'[k])
    <2>1. s # t
      BY <1>a, <1>3 DEF TenantWrites
    <2>2. TenantWrites(s, n) /\ task[s].op = "create_tenant" /\ task[s].id = n
      BY <1>a, <1>3, <2>1 DEF TenantWrites
    <2>3. CASE k = t
      BY <1>a, <1>3, <2>2, <2>3 DEF TenantConcerns
    <2>4. CASE k # t
      <3>1. TenantConcerns(k, n) /\ task'[k] = task[k]
        BY <1>a, <1>3, <2>4 DEF TenantConcerns
      <3> QED
        BY <1>3, <2>2, <3>1 DEF TenantInv
    <2> QED
      BY <2>3, <2>4
  <1>4. \A n \in Tenants : n \notin minted' => tenants'[n] = NoTenant /\ tenantRows'[n] = NoTenant
    BY DEF TenantInv
  <1>5. \A s, k \in Tasks :
          (TenantWrites(s, task[s].id) /\ task[s].op = "create_tenant" /\ k # s /\ TenantConcerns(k, task[s].id))' =>
             Inserting(task[k])'
    BY <1>3 DEF Inserting
  <1> QED
    BY <1>1, <1>2, <1>4, <1>5 DEF TenantInv

(* Whoever else is about the same tenant is still to insert it, or the tenant is raced. *)
LEMMA OnlyOneTenant ==
    ASSUME SessionInv, Alone, TenantInv, NEW t \in Tasks, NEW n, TenantConcerns(t, n),
           Inserting(task[t]) => n \notin minted
    PROVE  \A k \in Tasks \ {t} : TenantConcerns(k, n) =>
              \/ Inserting(task[k])
              \/ n \in raced /\ task[k].op # "create_tenant" /\ task[t].op # "create_tenant"
  <1> SUFFICES ASSUME NEW k \in Tasks, k # t, TenantConcerns(k, n), ~Inserting(task[k])
               PROVE  n \in raced /\ task[k].op # "create_tenant" /\ task[t].op # "create_tenant"
    OBVIOUS
  <1>a. TaskShape(task[t]) /\ TaskShape(task[k]) /\ task[t] \in TaskType /\ task[k] \in TaskType
    BY DEF SessionInv, Types, RecordTypes
  <1>i. task[t].id = n /\ task[k].id = n
    BY DEF TenantConcerns
  <1>1. n \in minted /\ ~Inserting(task[t])
    BY <1>i DEF TenantInv, TenantTask, TenantConcerns
  <1>2. task[t].op = "create_tenant" => TenantWrites(t, n)
    BY <1>a, <1>1 DEF TenantConcerns, TenantWrites, TaskShape, Inserting, TaskType, TenantOps
  <1>3. task[k].op = "create_tenant" => TenantWrites(k, n)
    BY <1>a DEF TenantConcerns, TenantWrites, TaskShape, Inserting, TaskType, TenantOps
  <1>4. task[t].op # "create_tenant"
    BY <1>2, <1>i DEF TenantInv
  <1>5. task[k].op # "create_tenant"
    BY <1>1, <1>3, <1>i DEF TenantInv
  <1>6. n \in task[t].about /\ n \in task[k].about
    BY <1>a, <1>4, <1>5, <1>i DEF TenantConcerns, TaskShape, TenantOps
  <1>7. n \in raced
    BY <1>6 DEF Alone
  <1> QED
    BY <1>4, <1>5, <1>7

(* The task changes the record or the row of its tenant. *)
LEMMA TenantChanged ==
    ASSUME SessionInv, Alone, TenantInv, NEW t \in Tasks, NEW m \in TaskType,
           task' = [task EXCEPT ![t] = m], UNCHANGED raced,
           NEW n \in Tenants, NEW a \in TenantRec, NEW r \in TenantRec, TenantConcerns(t, n),
           Inserting(task[t]) => n \notin minted,
           tenants' = [tenants EXCEPT ![n] = a], tenantRows' = [tenantRows EXCEPT ![n] = r],
           n \in minted', minted \subseteq minted',
           n \in raced \/ a = r \/ (m.at = "memory" /\ m.op \in TenantOps /\ m.id = n),
           m.at # "idle" => /\ m.op = task[t].op /\ m.op \in TenantOps /\ m.id = n /\ ~Inserting(m)
                            /\ TenantTask(m)'
    PROVE  TenantInv'
  <1>a. \A k \in Tasks : task'[k] = IF k = t THEN m ELSE task[k]
    BY DEF SessionInv, Types, RecordTypes
  <1>b. \A v \in Tenants : /\ tenants'[v] = IF v = n THEN a ELSE tenants[v]
                           /\ tenantRows'[v] = IF v = n THEN r ELSE tenantRows[v]
    BY DEF SessionInv, Types, RecordTypes
  <1>c. \A k \in Tasks : TaskShape(task[k])
    BY DEF SessionInv, Types, RecordTypes
  <1>d. \A k \in Tasks \ {t} : TenantConcerns(k, n) =>
              \/ Inserting(task[k])
              \/ n \in raced /\ task[k].op # "create_tenant" /\ task[t].op # "create_tenant"
    BY OnlyOneTenant
  <1>1. \A v \in Tenants : v \notin minted' => tenants'[v] = NoTenant /\ tenantRows'[v] = NoTenant
    BY <1>b DEF TenantInv
  <1>2. ASSUME NEW v \in Tenants PROVE TenantAgrees(v)'
    <2>1. CASE v = n
      BY <1>a, <1>b, <2>1 DEF TenantAgrees, TenantWrites
    <2>2. CASE v # n
      <3>1. TenantAgrees(v) /\ tenants'[v] = tenants[v] /\ tenantRows'[v] = tenantRows[v]
        BY <1>b, <2>2 DEF TenantInv
      <3>2. \A k \in Tasks : TenantWrites(k, v) => TenantWrites(k, v)'
        BY <1>a, <2>2 DEF TenantWrites, TenantConcerns
      <3> QED
        BY <3>1, <3>2 DEF TenantAgrees
    <2> QED
      BY <2>1, <2>2
  <1>3. ASSUME NEW k \in Tasks, task'[k].at # "idle" PROVE TenantTask(task[k])'
    <2>1. CASE k = t
      BY <1>a, <1>3, <2>1 DEF TenantTask, Inserting
    <2>2. CASE k # t
      <3>1. task'[k] = task[k] /\ TenantTask(task[k])
        BY <1>a, <1>3, <2>2 DEF TenantInv
      <3>2. CASE task[k].op \notin TenantOps
        BY <3>1, <3>2 DEF TenantTask, TenantOps
      <3>3. CASE task[k].op \in TenantOps /\ task[k].id # n
        <4>1. task[k].id \in Tenants
          BY <1>c, <1>3, <3>1, <3>3 DEF TaskShape
        <4>2. tenants'[task[k].id] = tenants[task[k].id] /\ tenantRows'[task[k].id] = tenantRows[task[k].id]
          BY <1>b, <3>3, <4>1
        <4> QED
          BY <3>1, <4>2 DEF TenantTask, Inserting
      <3>4. CASE task[k].op \in TenantOps /\ task[k].id = n
        <4>1. Inserting(task[k]) \/ (n \in raced /\ task[k].op # "create_tenant")
          BY <1>d, <1>3, <2>2, <3>1, <3>4 DEF TenantConcerns
        <4>2. CASE Inserting(task[k])
          BY <3>1, <3>4, <4>2 DEF TenantTask, Inserting, TenantOps
        <4>3. CASE n \in raced /\ task[k].op # "create_tenant"
          BY <3>1, <3>4, <4>3 DEF TenantTask, Inserting
        <4> QED
          BY <4>1, <4>2, <4>3
      <3> QED
        BY <3>2, <3>3, <3>4
    <2> QED
      BY <2>1, <2>2
  <1>4. ASSUME NEW s \in Tasks, NEW k \in Tasks, NEW v, v = task'[s].id, TenantWrites(s, v)',
               task'[s].op = "create_tenant", k # s, TenantConcerns(k, v)'
        PROVE  Inserting(task'[k])
    <2>1. CASE s = t
      BY <1>a, <1>d, <1>4, <2>1 DEF TenantWrites, TenantConcerns
    <2>2. CASE s # t
      <3>1. /\ TenantWrites(s, v) /\ task[s].op = "create_tenant" /\ task[s].id = v /\ TenantConcerns(s, v)
            /\ ~Inserting(task[s])
        BY <1>a, <1>4, <2>2 DEF TenantWrites, TenantConcerns, Inserting
      <3>2. k # t
        BY <1>a, <1>d, <1>4, <2>2, <3>1 DEF TenantConcerns
      <3>3. TenantConcerns(k, v) /\ task'[k] = task[k]
        BY <1>a, <1>4, <3>2 DEF TenantConcerns
      <3> QED
        BY <1>4, <3>1, <3>3 DEF TenantInv
    <2> QED
      BY <2>1, <2>2
  <1>5. \A s, k \in Tasks :
          (TenantWrites(s, task[s].id) /\ task[s].op = "create_tenant" /\ k # s /\ TenantConcerns(k, task[s].id))' =>
             Inserting(task[k])'
    BY <1>4 DEF Inserting
  <1> QED
    BY <1>1, <1>2, <1>3, <1>5 DEF TenantInv

(* A request begins: the tenant it reads is at rest unless it is raced from now on. *)
LEMMA RequestTenants ==
    ASSUME SessionInv, TenantInv, NEW t \in Tasks, Request(t)
    PROVE  TenantInv' /\ UNCHANGED bootVars
  <1>a. /\ Types /\ task \in [Tasks -> TaskType] /\ tenants \in [Tenants -> TenantRec]
        /\ \A k \in Tasks : TaskShape(task[k])
    BY DEF SessionInv, Types, RecordTypes
  <1>1. CASE UserRequest(t) \/ \E s \in Sessions : ChangePassword(t, s) \/ Logout(t, s)
    <2>1. PICK op, id, at, new, hashes :
                op \in UserOps \cup {"logout"} /\ Start(t, op, id, at, new, hashes)
      <3>1. {"create_user", "update_user", "rename_user", "delete_user", "password"} \subseteq UserOps
        BY DEF UserOps
      <3>2. ASSUME UserRequest(t) PROVE \E op \in UserOps : \E id, at, new, hashes : Start(t, op, id, at, new, hashes)
        <4>1. PICK p \in Principals, u \in Users :
             \/ \E role \in Roles, n \in Tenants \cup {None} : CreateUser(t, p, u, role, n)
             \/ \E new \in [role : Roles, tenant : Tenants \cup {None}, enabled : BOOLEAN], pw \in BOOLEAN :
                   UpdateUser(t, p, u, new, pw)
             \/ DeleteUser(t, p, u)
          BY <3>2 DEF UserRequest
        <4> QED
          BY <3>1, <4>1 DEF CreateUser, UpdateUser, DeleteUser
      <3> QED
        BY <1>1, <3>1, <3>2 DEF ChangePassword, Logout
    <2> DEFINE m == [at |-> at, op |-> op, id |-> id, new |-> new, hashes |-> hashes, about |-> About(op, id, new)]
    <2>2. /\ task' = [task EXCEPT ![t] = m] /\ m.op = op /\ task[t].at = "idle" /\ raced \subseteq raced'
          /\ UNCHANGED <<tenants, tenantRows, minted, bootVars>>
      BY <2>1 DEF Start, tenantVars, userVars
    <2>3. op \notin TenantOps
      BY <2>1 DEF UserOps, TenantOps
    <2>4. SessionInv' /\ task'[t] = m
      BY <1>a, <1>1, <2>2, RequestSessions DEF Request
    <2>5. m \in TaskType
      BY <2>4 DEF SessionInv, Types, RecordTypes
    <2> HIDE DEF m
    <2> QED
      BY <2>2, <2>3, <2>5, TenantsKept
  <1>2. CASE TenantRequest(t)
    <2>1. PICK n \in Tenants, op \in TenantOps, new \in TenantRec :
              /\ Start(t, op, n, "row", new, {})
              /\ op # "create_tenant" => tenants[n] # NoTenant
              /\ op = "update_tenant" => new.token = tenants[n].token
              /\ op = "rotate" => new.enabled = tenants[n].enabled
              /\ op = "delete_tenant" => new = NoTenant
              /\ op = "create_tenant" => new # NoTenant
      BY <1>a, <1>2, TenantRequests
    <2>2. PICK m \in TaskType : /\ m.at = "row" /\ m.op = op /\ m.id = n /\ m.new = new
                                /\ m.about = About(op, n, new) /\ task' = [task EXCEPT ![t] = m]
      BY <1>a, <2>1, Begins
    <2>3. /\ task[t].at = "idle" /\ UNCHANGED <<tenants, tenantRows, minted, bootVars>> /\ raced \subseteq raced'
          /\ \A k \in Tasks : task[k].about \cap m.about \subseteq raced'
      BY <2>1, <2>2 DEF Start, tenantVars, userVars
    <2>4. ASSUME op # "create_tenant"
          PROVE  /\ n \in minted /\ (n \notin raced' => tenants[n] = tenantRows[n])
                 /\ \A k \in Tasks : ~(TenantWrites(k, n) /\ task[k].op = "create_tenant")
      <3>1. tenants[n] # NoTenant /\ n \in m.about
        BY <2>1, <2>2, <2>4 DEF About, TenantOps
      <3>2. n \in minted
        BY <3>1 DEF TenantInv
      <3>3. ASSUME NEW k \in Tasks, TenantWrites(k, n), task[k].op = "create_tenant" PROVE FALSE
        BY <3>1, <3>3 DEF TenantInv, TenantTask, TenantWrites
      <3>4. ASSUME n \notin raced', NEW k \in Tasks, TenantWrites(k, n) PROVE FALSE
        <4>1. n \in task[k].about
          BY <1>a, <3>3, <3>4 DEF TenantWrites, TaskShape, TenantOps
        <4> QED
          BY <2>3, <3>1, <3>4, <4>1
      <3> QED
        BY <2>3, <3>2, <3>3, <3>4 DEF TenantInv, TenantAgrees
    <2>5. TenantTask(m)'
      <3>1. CASE op = "create_tenant"
        BY <2>1, <2>2, <3>1 DEF TenantTask, Inserting
      <3>2. CASE op # "create_tenant"
        BY <2>1, <2>2, <2>3, <2>4, <3>2 DEF TenantTask, TenantOps, Inserting
      <3> QED
        BY <3>1, <3>2
    <2>6. Inserting(m) \/ \A k \in Tasks : ~(TenantWrites(k, n) /\ task[k].op = "create_tenant")
      BY <2>2, <2>4 DEF Inserting
    <2>7. m.at # "memory" /\ minted \subseteq minted'
      BY <2>2, <2>3
    <2>8. TenantInv'
      BY <2>2, <2>3, <2>5, <2>6, <2>7, TenantsKept
    <2> QED
      BY <2>3, <2>8
  <1> QED
    BY <1>1, <1>2 DEF Request

(* The statements about a tenant and the changes in memory that follow them. *)
LEMMA TenantWritesStep ==
    ASSUME SessionInv, Alone, TenantInv, NEW t \in Tasks, UNCHANGED raced,
           InsertTenant(t) \/ UpdateTenantRow(t) \/ RotateTokenRow(t) \/ DeleteTenantRow(t) \/ PublishTenant(t)
    PROVE  TenantInv'
  <1>a. /\ Types /\ task[t] \in TaskType /\ TaskShape(task[t])
        /\ tenants \in [Tenants -> TenantRec] /\ tenantRows \in [Tenants -> TenantRec]
    BY DEF SessionInv, Types, RecordTypes
  <1>b. task[t].at \in {"row", "memory"} /\ task[t].op \in TenantOps
    BY DEF InsertTenant, UpdateTenantRow, RotateTokenRow, DeleteTenantRow, PublishTenant, At, TenantOps
  <1>c. PICK n, new : n = task[t].id /\ new = task[t].new
    OBVIOUS
  <1>d. /\ n \in Tenants /\ new \in TenantRec /\ TenantTask(task[t]) /\ TenantConcerns(t, n)
        /\ tenants[n] \in TenantRec /\ tenantRows[n] \in TenantRec
    BY <1>a, <1>b, <1>c DEF TaskShape, TenantInv, TenantConcerns
  <1>e. ASSUME Done(t), UNCHANGED <<tenants, tenantRows>>, minted \subseteq minted', task[t].at = "row" PROVE TenantInv'
    BY <1>e, Constants, TenantsKept DEF Done
  <1>1. ASSUME NEW r \in TenantRec, TenantWrite(t, r), task[t].at = "row", minted \subseteq minted',
               Inserting(task[t]) => n \notin minted,
               tenantRows'[n] = r => n \in minted',
               task[t].op = "create_tenant" \/ n \notin raced => r = new
        PROVE  TenantInv'
    <2>1. CASE Done(t) /\ UNCHANGED tenantRows
      BY <1>1, <1>e, <2>1 DEF TenantWrite
    <2>2. CASE tenantRows' = [tenantRows EXCEPT ![n] = r] /\ Goto(t, "memory")
      <3>1. PICK m \in TaskType : /\ m.at = "memory" /\ m.op = task[t].op /\ m.id = n /\ m.new = new
                                  /\ task' = [task EXCEPT ![t] = m]
        BY <1>a, <1>c, <1>1, <2>2, GoesOn
      <3>2. PICK a \in TenantRec : a = tenants[n] /\ tenants' = [tenants EXCEPT ![n] = a]
        BY <1>1, <1>a, <1>d DEF TenantWrite
      <3>3. tenantRows'[n] = r /\ tenants'[n] = tenants[n] /\ n \in minted'
        BY <1>1, <1>a, <1>d, <2>2, <3>2
      <3>4. m.op = "create_tenant" => tenants[n] = NoTenant /\ new # NoTenant
        BY <1>1, <1>c, <1>d, <3>1 DEF Inserting, TenantInv, TenantTask
      <3>5. m.op = "delete_tenant" => new = NoTenant
        BY <1>c, <1>d, <3>1 DEF TenantTask
      <3>6. TenantTask(m)'
        BY <1>b, <1>1, <3>1, <3>3, <3>4, <3>5 DEF TenantTask, Inserting
      <3>7. m.op \in TenantOps /\ ~Inserting(m)
        BY <1>b, <3>1 DEF Inserting
      <3> QED
        BY <1>d, <1>1, <2>2, <3>1, <3>2, <3>3, <3>6, <3>7, TenantChanged
    <2> QED
      BY <1>1, <1>c, <2>1, <2>2 DEF TenantWrite
  <1>2. CASE InsertTenant(t)
    <2>1. task[t].at = "row" /\ task[t].op = "create_tenant" /\ minted \subseteq minted' /\ new # NoTenant
      BY <1>2, <1>c, <1>d DEF InsertTenant, At, TenantTask
    <2>2. CASE n \notin minted /\ TenantWrite(t, new)
      <3>1. tenantRows'[n] = new => n \in minted'
        BY <1>2, <1>d, <2>1 DEF InsertTenant
      <3> QED
        BY <1>1, <1>d, <2>1, <2>2, <3>1
    <2>3. CASE Done(t) /\ UNCHANGED tenantVars
      BY <1>e, <2>1, <2>3 DEF tenantVars
    <2> QED
      BY <1>2, <1>c, <2>2, <2>3 DEF InsertTenant
  <1>3. CASE UpdateTenantRow(t) \/ RotateTokenRow(t) \/ DeleteTenantRow(t)
    <2>1. task[t].at = "row" /\ UNCHANGED minted /\ ~Inserting(task[t]) /\ task[t].op # "create_tenant"
      BY <1>3 DEF UpdateTenantRow, RotateTokenRow, DeleteTenantRow, At, Inserting
    <2>2. n \in minted
      BY <1>b, <1>c, <1>d, <2>1 DEF TenantTask
    <2>3. CASE UpdateTenantRow(t)
      <3>1. PICK r : r = IF tenantRows[n] = NoTenant THEN tenantRows[n] ELSE [tenantRows[n] EXCEPT !.enabled = new.enabled]
        OBVIOUS
      <3>2. r \in TenantRec
        BY <1>d, <3>1 DEF TenantRec
      <3>3. TenantWrite(t, r)
        BY <1>c, <2>3, <3>1 DEF UpdateTenantRow
      <3>4. ASSUME n \notin raced PROVE r = new
        <4>1. tenantRows[n] # NoTenant /\ tenantRows[n].token = new.token
          BY <1>c, <1>d, <2>1, <2>3, <3>4 DEF UpdateTenantRow, At, TenantTask
        <4> QED
          BY <1>d, <3>1, <4>1 DEF TenantRec
      <3> QED
        BY <1>1, <2>1, <2>2, <3>2, <3>3, <3>4
    <2>4. CASE RotateTokenRow(t)
      <3>1. PICK r : r = IF tenantRows[n] = NoTenant THEN tenantRows[n] ELSE [tenantRows[n] EXCEPT !.token = new.token]
        OBVIOUS
      <3>2. r \in TenantRec
        BY <1>d, <3>1 DEF TenantRec
      <3>3. TenantWrite(t, r)
        BY <1>c, <2>4, <3>1 DEF RotateTokenRow
      <3>4. ASSUME n \notin raced PROVE r = new
        <4>1. tenantRows[n] # NoTenant /\ tenantRows[n].enabled = new.enabled
          BY <1>c, <1>d, <2>1, <2>4, <3>4 DEF RotateTokenRow, At, TenantTask
        <4> QED
          BY <1>d, <3>1, <4>1 DEF TenantRec
      <3> QED
        BY <1>1, <2>1, <2>2, <3>2, <3>3, <3>4
    <2>5. CASE DeleteTenantRow(t)
      <3>1. new = NoTenant /\ TenantWrite(t, new)
        BY <1>c, <1>d, <2>5 DEF DeleteTenantRow, At, TenantTask
      <3> QED
        BY <1>1, <1>d, <2>1, <2>2, <3>1
    <2> QED
      BY <1>3, <2>3, <2>4, <2>5
  <1>4. CASE PublishTenant(t)
    <2>1. /\ task[t].at = "memory" /\ ~Inserting(task[t]) /\ UNCHANGED <<tenantRows, minted>>
          /\ tenants' = [tenants EXCEPT ![n] = new] /\ task' = [task EXCEPT ![t] = IdleTask]
      BY <1>4, <1>c DEF PublishTenant, At, Inserting, Done, userVars
    <2>2. PICK r \in TenantRec : r = tenantRows[n] /\ tenantRows' = [tenantRows EXCEPT ![n] = r]
      BY <1>a, <1>d, <2>1
    <2>3. n \in minted /\ (n \in raced \/ new = r)
      BY <1>b, <1>c, <1>d, <2>1, <2>2 DEF TenantTask
    <2> QED
      BY <1>d, <2>1, <2>2, <2>3, Constants, TenantChanged
  <1> QED
    BY <1>2, <1>3, <1>4

(* What requests do to users and sessions leaves tenants alone. *)
LEMMA TenantTaskStep ==
    ASSUME SessionInv, Alone, TenantInv, NEW t \in Tasks, UNCHANGED raced, TaskStep(t)
    PROVE  TenantInv'
  <1>a. Types /\ task[t] \in TaskType /\ TaskShape(task[t])
    BY DEF SessionInv, Types, RecordTypes
  <1>b. \A op : op \in UserOps \cup {"logout"} => op \notin TenantOps
    BY DEF UserOps, TenantOps
  <1>c. ASSUME Done(t), UNCHANGED <<tenants, tenantRows>>, task[t].op \notin TenantOps, minted \subseteq minted'
        PROVE  TenantInv'
    BY <1>c, Constants, TenantsKept DEF Done
  <1>d. ASSUME NEW m \in TaskType, m.op \notin TenantOps, task' = [task EXCEPT ![t] = m],
               UNCHANGED <<tenants, tenantRows>>, task[t].op \notin TenantOps, minted \subseteq minted'
        PROVE  TenantInv'
    BY <1>d, TenantsKept
  <1>3. CASE \/ InsertUser(t) \/ UpdateUserRow(t) \/ DeleteUserRow(t) \/ PasswordRow(t)
             \/ PublishCreated(t) \/ PublishUpdated(t) \/ PublishDeleted(t) \/ PublishPassword(t)
    <2>1. /\ task[t].op \in UserOps /\ task[t].at \in {"row", "memory"} /\ UNCHANGED <<tenants, tenantRows>>
          /\ minted \subseteq minted'
      BY <1>3 DEF InsertUser, UpdateUserRow, DeleteUserRow, PasswordRow, PublishCreated, PublishUpdated,
                  PublishDeleted, PublishPassword, UserRowStep, Publish, At, UserOps, tenantVars
    <2>2. \/ Done(t)
          \/ task[t].at = "row" /\ Goto(t, "memory")
          \/ task[t].at = "memory" /\ task[t].op \in {"update_user", "password"} /\ CollectSessions(t)
      BY <1>3 DEF InsertUser, UpdateUserRow, DeleteUserRow, PasswordRow, PublishCreated, PublishUpdated,
                  PublishDeleted, PublishPassword, Write, At
    <2>3. task[t].op \notin TenantOps
      BY <1>b, <2>1
    <2>4. CASE Done(t)
      BY <1>c, <2>1, <2>3, <2>4
    <2>5. CASE task[t].at = "row" /\ Goto(t, "memory")
      <3>1. PICK m \in TaskType : m.op = task[t].op /\ task' = [task EXCEPT ![t] = m]
        BY <1>a, <2>1, <2>5, GoesOn
      <3> QED
        BY <1>d, <2>1, <2>3, <3>1
    <2>6. CASE task[t].at = "memory" /\ task[t].op \in {"update_user", "password"} /\ CollectSessions(t)
      <3>1. PICK m \in TaskType : (m = IdleTask \/ m.op = task[t].op) /\ task' = [task EXCEPT ![t] = m]
        BY <1>a, <2>6, Collects
      <3>2. CASE m = IdleTask
        BY <1>c, <2>1, <2>3, <3>1, <3>2 DEF Done
      <3>3. CASE m.op = task[t].op
        BY <1>d, <2>1, <2>3, <3>1, <3>3
      <3> QED
        BY <3>1, <3>2, <3>3
    <2> QED
      BY <2>2, <2>4, <2>5, <2>6
  <1>4. CASE DeleteSessions(t) \/ ForgetSessions(t)
    <2>1. task[t].at \in {"unrow", "forget"} /\ UNCHANGED <<tenants, tenantRows, minted>>
      BY <1>4 DEF DeleteSessions, ForgetSessions, tenantVars, userVars
    <2>2. task[t].op \notin TenantOps
      BY <1>a, <2>1 DEF TaskShape, TenantOps
    <2>3. \/ Done(t)
          \/ task[t].at = "unrow" /\ Goto(t, "forget")
          \/ task[t].at = "forget" /\ task[t].op = "delete_user" /\ Goto(t, "row")
      BY <1>4 DEF DeleteSessions, ForgetSessions
    <2>4. CASE Done(t)
      BY <1>c, <2>1, <2>2, <2>4
    <2>5. CASE \/ task[t].at = "unrow" /\ Goto(t, "forget")
               \/ task[t].at = "forget" /\ task[t].op = "delete_user" /\ Goto(t, "row")
      <3>1. PICK m \in TaskType : m.op = task[t].op /\ task' = [task EXCEPT ![t] = m]
        BY <1>a, <2>1, <2>5, GoesOn
      <3> QED
        BY <1>d, <2>1, <2>2, <3>1
    <2> QED
      BY <2>3, <2>4, <2>5
  <1> QED
    BY <1>3, <1>4, TenantWritesStep DEF TaskStep

(* Logins, bootstraps and sessions that expire leave tenants and tasks alone. *)
LEMMA TenantsSame ==
    ASSUME TenantInv, UNCHANGED <<tenants, tenantRows, task, raced>>, minted \subseteq minted'
    PROVE  TenantInv'
  BY DEF TenantInv, TenantAgrees, TenantTask, TenantWrites, TenantConcerns, Inserting

-----------------------------------------------------------------------------
(* The users bootstrap made; another request brings no row of them back. *)
LEMMA BootsSame ==
    ASSUME BootInv, UNCHANGED bootVars, RowsStay, minted \subseteq minted'
    PROVE  BootInv'
  <1>1. UNCHANGED <<boot, bootstrap_lock, booted, abandoned>>
    BY DEF bootVars
  <1>2. \A u \in booted : /\ userRows[u] = NoUser => userRows'[u] = NoUser
                          /\ users'[u] = NoUser => userRows'[u] = NoUser
    BY DEF BootInv, RowsStay
  <1> QED
    BY <1>1, <1>2 DEF BootInv, OneBootstrap

(* Under the lock there is nobody, hence no row of whoever was bootstrapped before: the user
   that follows is the only one, unless a client left and gave the lock away. *)
LEMMA BootOnceStep ==
    ASSUME SessionInv, UserInv, BootInv, RowsStay, NEW b \in Boots, BootStep(b)
    PROVE  BootInv'
  <1>a. /\ boot \in [Boots -> [at : {"idle", "insert", "memory"}, user : Users \cup {None}]]
        /\ users \in [Users -> UserRec] /\ userRows \in [Users -> UserRec]
        /\ boot[b].at # "idle" => boot[b].user \in Users
    BY DEF SessionInv, Types, RecordTypes, BootTypes
  <1>c. None \notin Boots
    BY AccountsAssumption
  <1>d. \A u \in booted : /\ userRows[u] = NoUser => userRows'[u] = NoUser
                          /\ users'[u] = NoUser => userRows'[u] = NoUser
    BY DEF BootInv, RowsStay
  <1>1. CASE \E u \in Users : BootLock(b, u)
    <2>1. PICK u \in Users : BootLock(b, u)
      BY <1>1
    <2>2. /\ boot[b].at = "idle" /\ bootstrap_lock = None /\ bootstrap_lock' = b
          /\ boot' = [boot EXCEPT ![b] = [at |-> "insert", user |-> u]]
          /\ UNCHANGED <<booted, abandoned, users, userRows, minted>> /\ \A v \in Users : users[v] = NoUser
      BY <2>1 DEF BootLock, userVars
    <2>3. \A v \in booted : userRows[v] = NoUser
      BY <2>2 DEF BootInv
    <2>4. ~abandoned => \A c \in Boots : c # b => boot'[c].at = "idle"
      BY <1>a, <1>c, <2>2 DEF BootInv
    <2> QED
      BY <2>2, <2>3, <2>4 DEF BootInv, OneBootstrap
  <1>2. CASE BootInsert(b)
    <2>1. UNCHANGED <<booted, abandoned>> /\ boot[b].at = "insert" /\ minted \subseteq minted'
      BY <1>2 DEF BootInsert
    <2>0. booted' \subseteq Users \cap minted' /\ OneBootstrap'
      BY <1>d, <2>1 DEF BootInv, OneBootstrap
    <2>2. CASE BootEnd(b)
      <3>1. boot'[b].at = "idle" /\ \A c \in Boots : c # b => boot'[c] = boot[c]
        BY <1>a, <2>2, Constants DEF BootEnd
      <3>2. ~abandoned => \A c \in Boots : boot'[c].at = "idle"
        BY <2>1, <3>1 DEF BootInv
      <3> QED
        BY <1>d, <2>0, <2>1, <3>2 DEF BootInv
    <2>3. CASE boot' = [boot EXCEPT ![b].at = "memory"] /\ UNCHANGED bootstrap_lock
      <3>1. \A c \in Boots : boot'[c].at # "idle" => boot[c].at # "idle"
        BY <1>a, <2>1, <2>3
      <3> QED
        BY <1>d, <2>0, <2>1, <2>3, <3>1 DEF BootInv
    <2> QED
      BY <1>2, <2>2, <2>3 DEF BootInsert
  <1>3. CASE BootMemory(b)
    <2>1. PICK u \in Users : u = boot[b].user
      BY <1>a, <1>3 DEF BootMemory
    <2>2. /\ boot[b].at = "memory" /\ users' = [users EXCEPT ![u] = Super] /\ booted' = booted \cup {u}
          /\ BootEnd(b) /\ UNCHANGED <<userRows, abandoned, minted>>
      BY <1>3, <2>1 DEF BootMemory, Super
    <2>3. u \in minted /\ users'[u] # NoUser
      <3>1. Super # NoUser
        BY DEF Super, NoUser, User
      <3> QED
        BY <1>a, <2>1, <2>2, <3>1 DEF UserInv, BootSound
    <2>4. boot'[b].at = "idle" /\ \A c \in Boots : c # b => boot'[c] = boot[c]
      BY <1>a, <2>2, Constants DEF BootEnd
    <2>5. ~abandoned => /\ \A v \in booted : userRows[v] = NoUser
                        /\ \A c \in Boots : boot'[c].at = "idle"
      BY <2>2, <2>4 DEF BootInv
    <2>6. OneBootstrap'
      BY <2>2, <2>5 DEF OneBootstrap
    <2> QED
      BY <1>d, <2>2, <2>3, <2>5, <2>6 DEF BootInv
  <1>4. CASE BootAbandon(b)
    BY <1>4 DEF BootAbandon, BootInv, OneBootstrap, userVars
  <1> QED
    BY <1>1, <1>2, <1>3, <1>4 DEF BootStep

(* A step of a task, as users and a super admin see it. *)
LEMMA TaskUsers ==
    ASSUME AgreeInv, NEW t \in Tasks, TaskStep(t), UNCHANGED raced
    PROVE  UsersStep /\ UNCHANGED bootVars /\ minted \subseteq minted'
  <1>a. SessionInv /\ UserInv /\ SuperInv
    BY DEF AgreeInv
  <1>1. UsersStep
    BY <1>a, RowUsers, PublishUsers, OtherUsers DEF TaskStep
  <1>5. CASE InsertUser(t) \/ UpdateUserRow(t) \/ DeleteUserRow(t) \/ PasswordRow(t)
    BY <1>1, <1>5 DEF InsertUser, UpdateUserRow, DeleteUserRow, PasswordRow, UserRowStep, bootVars
  <1>6. CASE PublishCreated(t) \/ PublishUpdated(t) \/ PublishDeleted(t) \/ PublishPassword(t)
    BY <1>1, <1>6 DEF PublishCreated, PublishUpdated, PublishDeleted, PublishPassword, Publish, bootVars
  <1>7. CASE DeleteSessions(t) \/ ForgetSessions(t) \/ PublishTenant(t)
    BY <1>1, <1>7 DEF DeleteSessions, ForgetSessions, PublishTenant, bootVars, userVars
  <1>8. CASE InsertTenant(t) \/ UpdateTenantRow(t) \/ RotateTokenRow(t) \/ DeleteTenantRow(t)
    BY <1>1, <1>8 DEF InsertTenant, UpdateTenantRow, RotateTokenRow, DeleteTenantRow, TenantWrite, bootVars
  <1> QED
    BY <1>5, <1>6, <1>7, <1>8 DEF TaskStep

(* Everything together: a step keeps the invariants, and a super admin remains if nothing
   raced. *)
LEMMA AgreeStep ==
    ASSUME AgreeInv, [Next]_vars
    PROVE  AgreeInv' /\ (HasSuper /\ raced \subseteq Tenants => HasSuper')
  <1>a. SessionInv /\ UserInv /\ SuperInv /\ TenantInv /\ BootInv /\ Alone
    BY DEF AgreeInv, UserInv
  <1>b. SessionInv'
    BY <1>a, SessionStep
  <1> DEFINE Goal == AgreeInv' /\ (HasSuper /\ raced \subseteq Tenants => HasSuper')
  <1>0. ASSUME UsersStep, TenantInv', BootInv' PROVE Goal
    BY <1>b, <1>0 DEF AgreeInv, UsersStep
  <1>r. ASSUME NEW t \in Tasks, Request(t) PROVE Goal
    <2>1. UsersStep /\ TenantInv' /\ UNCHANGED bootVars
      BY <1>a, <1>r, RequestUsers, RequestTenants
    <2>2. minted \subseteq minted'
      <3>1. ASSUME NEW op, NEW id, NEW at, NEW new, NEW hashes, Start(t, op, id, at, new, hashes)
            PROVE  UNCHANGED minted
        BY <3>1 DEF Start, userVars
      <3>2. CASE UserRequest(t)
        BY <3>1, <3>2 DEF UserRequest, CreateUser, UpdateUser, DeleteUser
      <3>3. CASE TenantRequest(t)
        BY <3>1, <3>3 DEF TenantRequest, CreateTenant, DeleteTenant, RotateAgentToken, UpdateTenant
      <3>4. CASE \E s \in Sessions : ChangePassword(t, s) \/ Logout(t, s)
        BY <3>1, <3>4 DEF ChangePassword, Logout
      <3> QED
        BY <1>r, <3>2, <3>3, <3>4 DEF Request
    <2>3. BootInv'
      BY <1>a, <2>1, <2>2, BootsSame DEF UsersStep
    <2> QED
      BY <1>0, <2>1, <2>3
  <1>1. ASSUME NEW t \in Tasks, TaskStep(t), UNCHANGED raced PROVE Goal
    <2>1. UsersStep /\ UNCHANGED bootVars /\ minted \subseteq minted'
      BY <1>1, TaskUsers
    <2>2. BootInv'
      BY <1>a, <2>1, BootsSame DEF UsersStep
    <2>3. TenantInv'
      BY <1>a, <1>1, TenantTaskStep
    <2> QED
      BY <1>0, <2>1, <2>2, <2>3
  <1>2. ASSUME UNCHANGED <<userVars, tenantVars, bootVars, task, raced>> PROVE Goal
    <2>1. UNCHANGED <<users, userRows, minted, task, boot, raced>> /\ UNCHANGED <<tenants, tenantRows>>
      BY <1>2 DEF userVars, tenantVars, bootVars
    <2>2. UsersStep
      BY <1>a, <2>1, SameUsers
    <2>3. BootInv'
      BY <1>2, <1>a, <2>1, <2>2, BootsSame DEF UsersStep
    <2>4. TenantInv'
      BY <1>a, <2>1, TenantsSame
    <2> QED
      BY <1>0, <2>2, <2>3, <2>4
  <1>3. ASSUME NEW l \in Logins, LoginStep(l), UNCHANGED raced PROVE Goal
    <2>1. UNCHANGED <<userVars, tenantVars, bootVars, task>>
      BY <1>3 DEF LoginStep, Verify, CheckEnabled, InsertSession, PublishSession, Prune
    <2> QED
      BY <1>2, <1>3, <2>1
  <1>4. ASSUME NEW b \in Boots, BootStep(b), UNCHANGED raced PROVE Goal
    <2>1. UsersStep
      BY <1>a, <1>4, BootUsers
    <2>2. BootInv'
      BY <1>a, <1>4, <2>1, BootOnceStep DEF UsersStep
    <2>3. UNCHANGED <<tenants, tenantRows, task>> /\ minted \subseteq minted'
      BY <1>4 DEF BootStep, BootLock, BootInsert, BootMemory, BootAbandon, tenantVars, userVars
    <2>4. TenantInv'
      BY <1>a, <1>4, <2>3, TenantsSame
    <2> QED
      BY <1>0, <2>1, <2>2, <2>4
  <1>5. ASSUME NEW s \in Sessions, Expire(s), UNCHANGED raced PROVE Goal
    BY <1>2, <1>5 DEF Expire
  <1>6. CASE Restart
    <2>1. UsersStep
      BY <1>a, <1>6, RestartUsers
    <2>2. /\ tenants' = tenantRows /\ UNCHANGED <<tenantRows, booted, abandoned, minted>>
          /\ task' = [t \in Tasks |-> IdleTask] /\ boot' = [b \in Boots |-> IdleBoot]
      BY <1>6 DEF Restart
    <2>3. (\A t \in Tasks : task'[t].at = "idle") /\ (\A b \in Boots : boot'[b].at = "idle")
      BY <2>2, Constants
    <2>4. TenantInv'
      BY <1>a, <2>2, <2>3 DEF TenantInv, TenantAgrees, TenantWrites
    <2>5. BootInv'
      BY <1>a, <2>1, <2>2, <2>3 DEF UsersStep, RowsStay, BootInv, OneBootstrap
    <2> QED
      BY <1>0, <2>1, <2>4, <2>5
  <1>7. CASE UNCHANGED vars
    BY <1>2, <1>7 DEF vars
  <1> QED
    BY <1>r, <1>1, <1>3, <1>4, <1>5, <1>6, <1>7 DEF Next

(* At the start there is nobody but the default tenant. *)
LEMMA AgreeStart == Init => AgreeInv
  <1> SUFFICES ASSUME Init PROVE AgreeInv
    OBVIOUS
  <1>1. /\ \A t \in Tasks : task[t] = IdleTask
        /\ \A b \in Boots : boot[b] = IdleBoot
        /\ users = userRows /\ tenants = tenantRows /\ \A u \in Users : users[u] = NoUser
        /\ \A n \in Tenants : n \notin minted => tenants[n] = NoTenant
        /\ booted = {}
    BY DEF Init
  <1>2. /\ \A t \in Tasks : task[t].at = "idle" /\ task[t].about = {}
        /\ \A b \in Boots : boot[b].at = "idle"
    BY <1>1, Constants
  <1>3. UserInv
    BY <1>1, <1>2 DEF UserInv, Alone, Unminted, CreateSound, Writes, BootSound, UserAgrees
  <1>4. SuperInv /\ TenantInv
    BY <1>1, <1>2 DEF SuperInv, TenantInv, TenantAgrees, TenantWrites
  <1>5. BootInv
    BY <1>1, <1>2 DEF BootInv, OneBootstrap
  <1> QED
    BY <1>3, <1>4, <1>5, SessionStart DEF AgreeInv

(* The invariants always hold. *)
LEMMA AgreeInvariant == Spec => []AgreeInv
  <1>1. AgreeInv /\ [Next]_vars => AgreeInv'
    BY AgreeStep
  <1> QED
    BY <1>1, AgreeStart, PTL DEF Spec

(* RestartChangesNothing, with any number of requests at once: what a start would load is what
   memory holds, user by user and tenant by tenant, as long as no two requests about the same
   one overlapped; logins, bootstraps and requests about others may run beside, statements may
   fail and the process may die at any step.  A record is published only when its row holds
   it, and what a request read of a record nobody else is about cannot have changed when it
   writes it back. *)
THEOREM MemoryFollowsDatabase == Spec => []RestartChangesNothing
  <1>1. AgreeInv => RestartChangesNothing
    <2> SUFFICES ASSUME AgreeInv PROVE RestartChangesNothing
      OBVIOUS
    <2>1. ASSUME NEW u \in Users \ raced PROVE users[u] = userRows[u] \/ UnderWay(u)
      BY DEF AgreeInv, UserInv, UserAgrees, Writes, Booting, UnderWay
    <2>2. ASSUME NEW n \in Tenants \ raced PROVE tenants[n] = tenantRows[n] \/ UnderWay(n)
      BY DEF AgreeInv, TenantInv, TenantAgrees, TenantWrites, UnderWay
    <2>3. ASSUME NEW s \in Sessions \ (kept \cup expired) PROVE sessions[s] = sessionRows[s] \/ SessionUnderWay(s)
      BY DEF AgreeInv, SessionInv, SessionAgrees, Landing, Forgetting, SessionUnderWay
    <2> QED
      BY <2>1, <2>2, <2>3 DEF RestartChangesNothing
  <1> QED
    BY <1>1, AgreeInvariant, PTL

(* SuperRemainsUnlessRaced, with any number of requests at once: ensure_not_last_super finds
   another enabled super admin in memory, which the database has as well; a second request
   that would take it away before the first one ends is the race of accounts_last, and
   nothing else can. *)
THEOREM LastSuperRemains == Spec => SuperRemainsUnlessRaced
  <1>1. AgreeInv /\ [Next]_vars => [HasSuper /\ raced \subseteq Tenants => HasSuper']_vars
    BY AgreeStep
  <1> QED
    BY <1>1, AgreeInvariant, PTL DEF Spec, SuperRemainsUnlessRaced

(* OneBootstrap: of any number of bootstrap requests at once, with changes of users beside
   them, no two leave their user in the database; the count of users under bootstrap_lock is
   enough, because a bootstrapped user loses its row before its record. *)
THEOREM BootstrapIsOnce == Spec => []OneBootstrap
  <1>1. AgreeInv => OneBootstrap
    BY DEF AgreeInv, BootInv
  <1> QED
    BY <1>1, AgreeInvariant, PTL
=============================================================================
