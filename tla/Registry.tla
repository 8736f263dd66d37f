------------------------------ MODULE Registry ------------------------------
(***************************************************************************)
(* The agent registry of the cloud gateway and everything that touches it: *)
(* one task per QUIC connection (tunnel/connection.rs, protocol.rs,        *)
(* registration.rs), the request tasks that take and give back slots and   *)
(* report tunnel failures (registry/admission.rs, eviction.rs, table.rs)   *)
(* and the tasks that close an evicted connection later (evict_close.rs).  *)
(*                                                                         *)
(* An Entry of the source is immutable but for its Arcs, and requests keep *)
(* clones of it, so an entry is named by its stable_id and `ent' holds its *)
(* immutable part; `table' is the HashMap.  Strike counters and last_seen  *)
(* are reached only through the table, so they are kept per key and        *)
(* cleared with the entry.  A step is what the code does under one acquisition of the lock  *)
(* or between two atomic accesses: closing a connection always happens     *)
(* after the lock is released and is a step of its own.                    *)
(***************************************************************************)
EXTENDS Integers, FiniteSets

CONSTANTS
    Conns,          \* QUIC connections ever accepted (identities, not reused)
    Reqs,           \* request tasks of the HTTP side
    Tenants, Agents, Ips,
    PeerIp,         \* the normalised source address of each connection
    Vouched,        \* <<connection, tenant>>: the agent token verifies
    AllowLegacy,    \* allow_legacy_agent_registration
    DefaultTenant,
    Decls,          \* what a Register frame may declare: models, max_concurrency
    Models,         \* model names requests ask for
    AnyModel,       \* the wildcard "*"
    StreamCeiling,  \* max_open_tunnel_streams
    MAX_REGISTRATIONS_PER_CONNECTION,
    TUNNEL_TIMEOUTS_BEFORE_EVICT,
    MaxSid,         \* bound on NEXT_CONN_ID
    NoConn, NoKey

AgentKey == [tenant : Tenants, agent : Agents, ip : Ips]
Sids     == 1 .. MaxSid
Causes   == {"OpenTimeout", "HeadTimeout", "TunnelWriteFailed"}

ASSUME ConstantsAssumption ==
    /\ IsFiniteSet(Reqs) /\ IsFiniteSet(Tenants)
    /\ IsFiniteSet(Agents) /\ IsFiniteSet(Ips)
    /\ PeerIp \in [Conns -> Ips]
    /\ Vouched \subseteq Conns \X Tenants
    /\ AllowLegacy \in BOOLEAN
    /\ DefaultTenant \in Tenants
    /\ Decls \subseteq [models : SUBSET (Models \cup {AnyModel}), max_concurrency : Nat]
    /\ StreamCeiling \in Nat
    /\ MAX_REGISTRATIONS_PER_CONNECTION \in Nat \ {0}
    /\ TUNNEL_TIMEOUTS_BEFORE_EVICT \in Nat \ {0}
    /\ MaxSid \in Nat
    /\ NoConn \notin Conns
    /\ NoKey \notin AgentKey

VARIABLES
    nextSid,    \* NEXT_CONN_ID
    ent,        \* stable_id -> the immutable part of its Entry
    table,      \* key -> stable_id of the entry in the map, 0 when absent
    strikes,    \* key -> the three consecutive-failure counters of that entry
    fresh,      \* key -> last_seen of that entry is within agent_stale_after
    inflight,   \* counter (named by the entry it was created for) -> its value
    conn,       \* "new", "open" or "closed"
    task,       \* the connection task of each connection
    regs,       \* Registration::agent: per connection, key -> stable_id or 0
    req,        \* the request tasks
    deferred    \* pending defer_close tasks

vars == <<nextSid, ent, table, strikes, fresh, inflight, conn, task, regs,
          req, deferred>>

Entries == [conn : Conns, key : AgentKey, cnt : Sids, max_concurrency : Nat,
            models : SUBSET (Models \cup {AnyModel})]
NoEnt == [conn |-> NoConn, key |-> NoKey, cnt |-> 0, max_concurrency |-> 0, models |-> {}]
NoDecl == [models |-> {}, max_concurrency |-> 0]
NoStrikes == [x \in Causes |-> 0]

TaskPcs == {"none", "loop", "frame", "inserted", "closing", "dropping", "ended"}
\* "settled": the response is streaming or the attempt failed; only the slot is left
ReqPcs  == {"idle", "setup", "head", "strike", "closeNow", "closeLater", "settled"}

Tasks    == [pc : TaskPcs, key : AgentKey \cup {NoKey}, decl : Decls \cup {NoDecl},
             sid : 0 .. MaxSid, old : 0 .. MaxSid]
Requests == [pc : ReqPcs, sid : 0 .. MaxSid, tenant : Tenants, cause : Causes \cup {"none"}]

IdleTask(pc) == [pc |-> pc, key |-> NoKey, decl |-> NoDecl, sid |-> 0, old |-> 0]
IdleReq      == [pc |-> "idle", sid |-> 0, tenant |-> DefaultTenant, cause |-> "none"]

-----------------------------------------------------------------------------
(* State functions. *)

Holds(r)   == req[r].pc # "idle"
CntOf(r)   == ent[req[r].sid].cnt
Holders(n) == {r \in Reqs : Holds(r) /\ CntOf(r) = n}

Serves(models, m) == AnyModel \in models \/ m \in models

(* routing.rs: the candidates of pick_for_tenant *)
Candidates(tenant, m, exclude) ==
    {k \in AgentKey : /\ table[k] # 0
                      /\ k.tenant = tenant
                      /\ fresh[k]
                      /\ table[k] \notin exclude
                      /\ Serves(ent[table[k]].models, m)}

HasRoom(s) == \/ ent[s].max_concurrency = 0
              \/ inflight[ent[s].cnt] < ent[s].max_concurrency

(* entry.rs: the node is below what this connection can carry *)
OpenTimeoutIsFatal(s) ==
    LET ceiling   == IF StreamCeiling > 1 THEN StreamCeiling ELSE 1
        effective == IF ent[s].max_concurrency = 0 \/ ent[s].max_concurrency > ceiling
                     THEN ceiling ELSE ent[s].max_concurrency
    IN  inflight[ent[s].cnt] < effective

Registered(c) == {k \in AgentKey : regs[c][k] # 0}

AcceptsAnyTenant(c, key) ==
    regs[c][key] # 0 \/ Cardinality(Registered(c)) < MAX_REGISTRATIONS_PER_CONNECTION
AcceptsForTenant(c, key) ==
    /\ \A k \in Registered(c) : k.tenant = key.tenant
    /\ \/ regs[c][key] # 0
       \/ Cardinality(Registered(c)) < MAX_REGISTRATIONS_PER_CONNECTION

(* table.rs: the replaced connection carries nothing, the caller holds no slot.
   eviction.rs: the only slot left is the caller's own. *)
DrainedUpToOne(s) == inflight[ent[s].cnt] <= 1
Drained(s) == inflight[ent[s].cnt] = 0
CallerAlone(s) == inflight[ent[s].cnt] <= 1

Close(c) == conn' = [conn EXCEPT ![c] = "closed"]

-----------------------------------------------------------------------------
Init ==
    /\ nextSid  = 1
    /\ ent      = [s \in Sids |-> NoEnt]
    /\ table    = [k \in AgentKey |-> 0]
    /\ strikes  = [k \in AgentKey |-> NoStrikes]
    /\ fresh    = [k \in AgentKey |-> FALSE]
    /\ inflight = [n \in Sids |-> 0]
    /\ conn     = [c \in Conns |-> "new"]
    /\ task     = [c \in Conns |-> IdleTask("none")]
    /\ regs     = [c \in Conns |-> [k \in AgentKey |-> 0]]
    /\ req      = [r \in Reqs |-> IdleReq]
    /\ deferred = {}

-----------------------------------------------------------------------------
(* The connection task. *)

(* accept.rs, connection.rs: a connection is accepted and its task starts *)
Connect(c) ==
    /\ conn[c] = "new"
    /\ conn' = [conn EXCEPT ![c] = "open"]
    /\ task' = [task EXCEPT ![c] = IdleTask("loop")]
    /\ UNCHANGED <<nextSid, ent, table, strikes, fresh, inflight, regs, req, deferred>>

(* protocol.rs: a Register / RegisterWithTenant frame that the policy accepts.  The
   frame is read while the connection is open and handled whatever happens next. *)
ReadRegister(c, tenant, agent, decl) ==
    /\ conn[c] = "open"
    /\ task[c].pc = "loop"
    /\ nextSid + Cardinality({b \in Conns : task[b].pc = "frame"}) <= MaxSid
    /\ \/ AllowLegacy /\ tenant = DefaultTenant
       \/ <<c, tenant>> \in Vouched
    /\ task' = [task EXCEPT ![c] =
           [pc |-> "frame", key |-> [tenant |-> tenant, agent |-> agent, ip |-> PeerIp[c]],
            decl |-> decl, sid |-> 0, old |-> 0]]
    /\ UNCHANGED <<nextSid, ent, table, strikes, fresh, inflight, conn, regs, req, deferred>>

(* protocol.rs: the policy refuses the frame; the connection is closed, the task returns *)
RejectRegister(c, tenant) ==
    /\ conn[c] = "open"
    /\ task[c].pc = "loop"
    /\ \/ ~AllowLegacy /\ tenant = DefaultTenant
       \/ <<c, tenant>> \notin Vouched
    /\ Close(c)
    /\ task' = [task EXCEPT ![c] = IdleTask("dropping")]
    /\ UNCHANGED <<nextSid, ent, table, strikes, fresh, inflight, regs, req, deferred>>

(* registration.rs: another tenant, or the per-connection cap; asked before the table
   is touched.  The loop goes on and meets the closed connection. *)
RefuseRegistration(c) ==
    /\ task[c].pc = "frame"
    /\ ~AcceptsForTenant(c, task[c].key)
    /\ Close(c)
    /\ task' = [task EXCEPT ![c] = IdleTask("loop")]
    /\ UNCHANGED <<nextSid, ent, table, strikes, fresh, inflight, regs, req, deferred>>

(* table.rs, register_with_grace_in_tenant under the write lock: a fresh entry that
   inherits the in-flight counter of the one it replaces *)
RegisterInsert(c) ==
    LET key == task[c].key
        old == table[key]
        cnt == IF old = 0 THEN nextSid ELSE ent[old].cnt
    IN
    /\ task[c].pc = "frame"
    /\ nextSid <= MaxSid
    /\ AcceptsForTenant(c, key)
    /\ nextSid' = nextSid + 1
    /\ ent'     = [ent EXCEPT ![nextSid] =
                      [conn |-> c, key |-> key, cnt |-> cnt,
                       max_concurrency |-> task[c].decl.max_concurrency,
                       models |-> task[c].decl.models]]
    /\ table'   = [table EXCEPT ![key] = nextSid]
    /\ strikes' = [strikes EXCEPT ![key] = NoStrikes]
    /\ fresh'   = [fresh EXCEPT ![key] = TRUE]
    /\ task'    = [task EXCEPT ![c].pc = "inserted", ![c].sid = nextSid, ![c].old = old]
    /\ UNCHANGED <<inflight, conn, regs, req, deferred>>

(* mutants of NoteRegistration: the first stable_id is kept; nothing is noted *)
NoteFirstOnly(c) ==
    /\ regs' = [regs EXCEPT ![c][task[c].key] = IF @ = 0 THEN task[c].sid ELSE @]
    /\ task' = [task EXCEPT ![c] = IdleTask("loop")]
NoteNothing(c) ==
    /\ regs' = regs
    /\ task' = [task EXCEPT ![c] = IdleTask("loop")]

(* registration.rs: note_for_tenant, then back to the accept loop *)
NoteRegistration(c) ==
    /\ regs' = [regs EXCEPT ![c][task[c].key] = task[c].sid]
    /\ task' = [task EXCEPT ![c] = IdleTask("loop")]

(* table.rs, after the lock is released: nothing was replaced *)
RegisterFirst(c) ==
    /\ task[c].pc = "inserted"
    /\ task[c].old = 0
    /\ NoteRegistration(c)
    /\ UNCHANGED <<nextSid, ent, table, strikes, fresh, inflight, conn, req, deferred>>

(* table.rs, after the lock is released: the counter of the replaced entry is read *)
RegisterDispose(c) ==
    LET old == task[c].old IN
    /\ task[c].pc = "inserted"
    /\ old # 0
    /\ \/ /\ Drained(old)
          /\ task' = [task EXCEPT ![c].pc = "closing"]
          /\ UNCHANGED <<regs, deferred>>
       \/ /\ ~Drained(old)
          /\ deferred' = deferred \cup {[conn |-> ent[old].conn, cnt |-> ent[old].cnt]}
          /\ NoteRegistration(c)
    /\ UNCHANGED <<nextSid, ent, table, strikes, fresh, inflight, conn, req>>

(* table.rs: old_conn.close() *)
RegisterClose(c) ==
    /\ task[c].pc = "closing"
    /\ Close(ent[task[c].old].conn)
    /\ NoteRegistration(c)
    /\ UNCHANGED <<nextSid, ent, table, strikes, fresh, inflight, req, deferred>>

(* protocol.rs, heartbeat_if_same: only for an id this connection registered, and only
   while the entry in the table is still the one it registered *)
Heartbeat(c, k) ==
    /\ conn[c] = "open"
    /\ task[c].pc = "loop"
    /\ regs[c][k] # 0
    /\ table[k] = regs[c][k]
    /\ fresh' = [fresh EXCEPT ![k] = TRUE]
    /\ UNCHANGED <<nextSid, ent, table, strikes, inflight, conn, task, regs, req, deferred>>

(* connection.rs: the accept loop ends because the connection is closed, or, while it
   is open, on a control stream that fails mid-frame, a panic or gateway shutdown *)
TaskReturns(c) ==
    /\ task[c].pc = "loop"
    /\ task' = [task EXCEPT ![c] = IdleTask("dropping")]
    /\ UNCHANGED <<nextSid, ent, table, strikes, fresh, inflight, conn, regs, req, deferred>>

(* mutant of DropRegistration: removes by key without comparing the stable_id *)
DropByKey(c, k) ==
    /\ task[c].pc = "dropping"
    /\ regs[c][k] # 0
    /\ table'   = [table EXCEPT ![k] = 0]
    /\ strikes' = [strikes EXCEPT ![k] = NoStrikes]
    /\ fresh'   = [fresh EXCEPT ![k] = FALSE]
    /\ regs' = [regs EXCEPT ![c][k] = 0]
    /\ UNCHANGED <<nextSid, ent, inflight, conn, task, req, deferred>>

(* table.rs, Drop for Registration: remove_if_same for one noted registration *)
DropRegistration(c, k) ==
    /\ task[c].pc = "dropping"
    /\ regs[c][k] # 0
    /\ \/ /\ table[k] = regs[c][k]
          /\ table'   = [table EXCEPT ![k] = 0]
          /\ strikes' = [strikes EXCEPT ![k] = NoStrikes]
          /\ fresh'   = [fresh EXCEPT ![k] = FALSE]
       \/ /\ table[k] # regs[c][k]
          /\ UNCHANGED <<table, strikes, fresh>>
    /\ regs' = [regs EXCEPT ![c][k] = 0]
    /\ UNCHANGED <<nextSid, ent, inflight, conn, task, req, deferred>>

DropDone(c) ==
    /\ task[c].pc = "dropping"
    /\ Registered(c) = {}
    /\ task' = [task EXCEPT ![c] = IdleTask("ended")]
    /\ UNCHANGED <<nextSid, ent, table, strikes, fresh, inflight, conn, regs, req, deferred>>

-----------------------------------------------------------------------------
(* The request tasks. *)

Goto(r, pc) == req' = [req EXCEPT ![r].pc = pc, ![r].cause = "none"]
StrikeFor(r, cause) == req' = [req EXCEPT ![r].pc = "strike", ![r].cause = cause]

(* admission.rs, try_acquire_excluding_for_tenant.  The code walks the candidates in
   preference order with values that other tasks change meanwhile (acquirers share the
   read lock, a SlotGuard drops without it): any candidate with room may win. *)
Acquire(r, tenant, m, exclude) ==
    /\ req[r].pc = "idle"
    /\ \E k \in Candidates(tenant, m, exclude) :
          LET s == table[k] IN
          /\ HasRoom(s)
          /\ inflight' = [inflight EXCEPT ![ent[s].cnt] = @ + 1]
          /\ req' = [req EXCEPT ![r] =
                        [pc |-> "setup", sid |-> s, tenant |-> tenant, cause |-> "none"]]
    /\ UNCHANGED <<nextSid, ent, table, strikes, fresh, conn, task, regs, deferred>>

(* proxy/routing.rs: stream opened and request frame written *)
StreamReady(r) ==
    /\ req[r].pc = "setup"
    /\ conn[ent[req[r].sid].conn] = "open"
    /\ Goto(r, "head")
    /\ UNCHANGED <<nextSid, ent, table, strikes, fresh, inflight, conn, task, regs, deferred>>

(* eviction.rs, report_open_timeout: judged before the lock is taken *)
OpenTimeout(r) ==
    /\ req[r].pc = "setup"
    /\ \/ OpenTimeoutIsFatal(req[r].sid) /\ StrikeFor(r, "OpenTimeout")
       \/ ~OpenTimeoutIsFatal(req[r].sid) /\ Goto(r, "settled")
    /\ UNCHANGED <<nextSid, ent, table, strikes, fresh, inflight, conn, task, regs, deferred>>

(* eviction.rs, report_open_failed and report_write_failed strike unconditionally; a
   write that times out is back-pressure and reports nothing *)
SetupFailed(r) ==
    /\ req[r].pc = "setup"
    /\ \/ StrikeFor(r, "OpenTimeout")
       \/ StrikeFor(r, "TunnelWriteFailed")
       \/ Goto(r, "settled")
    /\ UNCHANGED <<nextSid, ent, table, strikes, fresh, inflight, conn, task, regs, deferred>>

(* proxy/head.rs and table.rs, note_tunnel_op_ok *)
HeadArrives(r) ==
    LET s == req[r].sid
        k == ent[s].key
    IN
    /\ req[r].pc = "head"
    /\ conn[ent[s].conn] = "open"
    /\ Goto(r, "settled")
    /\ strikes' = IF table[k] = s THEN [strikes EXCEPT ![k] = NoStrikes] ELSE strikes
    /\ UNCHANGED <<nextSid, ent, table, fresh, inflight, conn, task, regs, deferred>>

(* eviction.rs, report_head_timeout: head_timeout_is_fatal depends on how long the
   tunnel has been silent (module TunnelHealth); either verdict is possible here.
   proxy/head.rs: an error or the end of the stream before the head reports nothing. *)
HeadFails(r) ==
    /\ req[r].pc = "head"
    /\ \/ StrikeFor(r, "HeadTimeout")
       \/ Goto(r, "settled")
    /\ UNCHANGED <<nextSid, ent, table, strikes, fresh, inflight, conn, task, regs, deferred>>

(* eviction.rs, evict under the write lock *)
Evict(r) ==
    LET s == req[r].sid
        k == ent[s].key
        n == strikes[k][req[r].cause] + 1
    IN
    /\ req[r].pc = "strike"
    /\ \/ /\ table[k] # s
          /\ Goto(r, "settled")
          /\ UNCHANGED <<table, strikes, fresh>>
       \/ /\ table[k] = s
          /\ n < TUNNEL_TIMEOUTS_BEFORE_EVICT
          /\ strikes' = [strikes EXCEPT ![k][req[r].cause] = n]
          /\ Goto(r, "settled")
          /\ UNCHANGED <<table, fresh>>
       \/ /\ table[k] = s
          /\ n >= TUNNEL_TIMEOUTS_BEFORE_EVICT
          /\ table'   = [table EXCEPT ![k] = 0]
          /\ strikes' = [strikes EXCEPT ![k] = NoStrikes]
          /\ fresh'   = [fresh EXCEPT ![k] = FALSE]
          /\ Goto(r, IF CallerAlone(s) THEN "closeNow" ELSE "closeLater")
    /\ UNCHANGED <<nextSid, ent, inflight, conn, task, regs, deferred>>

(* eviction.rs, after the lock is released: entry.conn.close(), or defer_close *)
EvictClose(r) ==
    LET e == ent[req[r].sid] IN
    /\ \/ /\ req[r].pc = "closeNow"
          /\ Close(e.conn)
          /\ UNCHANGED deferred
       \/ /\ req[r].pc = "closeLater"
          /\ deferred' = deferred \cup {[conn |-> e.conn, cnt |-> e.cnt]}
          /\ UNCHANGED conn
    /\ Goto(r, "settled")
    /\ UNCHANGED <<nextSid, ent, table, strikes, fresh, inflight, task, regs>>

(* mutant of Release: the counter is looked up through the table *)
ReleaseIfListed(r) ==
    /\ req[r].pc \in {"setup", "head", "settled"}
    /\ inflight' = IF table[ent[req[r].sid].key] = req[r].sid
                   THEN [inflight EXCEPT ![CntOf(r)] = @ - 1] ELSE inflight
    /\ req' = [req EXCEPT ![r] = IdleReq]
    /\ UNCHANGED <<nextSid, ent, table, strikes, fresh, conn, task, regs, deferred>>

(* admission.rs, Drop for SlotGuard: the response ended, the attempt failed, or the
   client left while the task was waiting *)
Release(r) ==
    /\ req[r].pc \in {"setup", "head", "settled"}
    /\ inflight' = [inflight EXCEPT ![CntOf(r)] = @ - 1]
    /\ req' = [req EXCEPT ![r] = IdleReq]
    /\ UNCHANGED <<nextSid, ent, table, strikes, fresh, conn, task, regs, deferred>>

-----------------------------------------------------------------------------
(* The environment: deferred closes, the transport and the clock. *)

(* mutant of DeferredClose: no deadline *)
DeferredCloseDrained(d) ==
    /\ d \in deferred
    /\ inflight[d.cnt] = 0
    /\ Close(d.conn)
    /\ deferred' = deferred \ {d}
    /\ UNCHANGED <<nextSid, ent, table, strikes, fresh, inflight, task, regs, req>>

(* evict_close.rs: the loop sees the counter at zero, or the grace period ends *)
DeferredClose(d) ==
    /\ d \in deferred
    /\ Close(d.conn)
    /\ deferred' = deferred \ {d}
    /\ UNCHANGED <<nextSid, ent, table, strikes, fresh, inflight, task, regs, req>>

(* the peer goes away or the idle timeout of the transport fires *)
PeerLost(c) ==
    /\ conn[c] = "open"
    /\ Close(c)
    /\ UNCHANGED <<nextSid, ent, table, strikes, fresh, inflight, task, regs, req, deferred>>

(* some handle of the connection is alive: its task, an entry, a clone in a request,
   a pending close *)
HasHandle(c) ==
    \/ task[c].pc # "ended"
    \/ \E k \in AgentKey : table[k] # 0 /\ ent[table[k]].conn = c
    \/ \E r \in Reqs : Holds(r) /\ ent[req[r].sid].conn = c
    \/ \E d \in deferred : d.conn = c
    \/ \E b \in Conns : task[b].old # 0 /\ ent[task[b].old].conn = c

(* s2n-quic closes a connection whose last handle is dropped *)
LastHandleDropped(c) ==
    /\ conn[c] = "open"
    /\ ~HasHandle(c)
    /\ Close(c)
    /\ UNCHANGED <<nextSid, ent, table, strikes, fresh, inflight, task, regs, req, deferred>>

(* agent_stale_after passes without a heartbeat *)
GoStale(k) ==
    /\ fresh[k]
    /\ fresh' = [fresh EXCEPT ![k] = FALSE]
    /\ UNCHANGED <<nextSid, ent, table, strikes, inflight, conn, task, regs, req, deferred>>

-----------------------------------------------------------------------------
ConnectionStep(c) ==
    \/ Connect(c)
    \/ \E t \in Tenants, a \in Agents, d \in Decls : ReadRegister(c, t, a, d)
    \/ \E t \in Tenants : RejectRegister(c, t)
    \/ RefuseRegistration(c)
    \/ RegisterInsert(c)
    \/ RegisterFirst(c)
    \/ RegisterDispose(c)
    \/ RegisterClose(c)
    \/ \E k \in AgentKey : Heartbeat(c, k)
    \/ TaskReturns(c)
    \/ \E k \in AgentKey : DropRegistration(c, k)
    \/ DropDone(c)

RequestStep(r) ==
    \/ \E t \in Tenants, m \in Models, x \in SUBSET Sids : Acquire(r, t, m, x)
    \/ StreamReady(r)
    \/ OpenTimeout(r)
    \/ SetupFailed(r)
    \/ HeadArrives(r)
    \/ HeadFails(r)
    \/ Evict(r)
    \/ EvictClose(r)
    \/ Release(r)

EnvironmentStep ==
    \/ \E d \in deferred : DeferredClose(d)
    \/ \E c \in Conns : PeerLost(c)
    \/ \E c \in Conns : LastHandleDropped(c)
    \/ \E k \in AgentKey : GoStale(k)

Next ==
    \/ \E c \in Conns : ConnectionStep(c)
    \/ \E r \in Reqs : RequestStep(r)
    \/ EnvironmentStep

Spec == Init /\ [][Next]_vars

(* A started task is scheduled again; the accept loop notices a closed connection; a
   request ends (request_timeout); a deferred close has a deadline. *)
Fairness ==
    /\ \A c \in Conns :
          /\ WF_vars(RefuseRegistration(c) \/ RegisterInsert(c) \/ RegisterFirst(c)
                     \/ RegisterDispose(c) \/ RegisterClose(c))
          /\ WF_vars(conn[c] = "closed" /\ TaskReturns(c))
          /\ WF_vars(DropDone(c) \/ \E k \in AgentKey : DropRegistration(c, k))
          /\ WF_vars(LastHandleDropped(c))
    /\ \A r \in Reqs : WF_vars(Evict(r)) /\ WF_vars(EvictClose(r)) /\ WF_vars(Release(r))
    /\ \A c \in Conns, n \in Sids : WF_vars(DeferredClose([conn |-> c, cnt |-> n]))

FairSpec == Spec /\ Fairness

-----------------------------------------------------------------------------
(* Properties. *)

TypeOK ==
    /\ nextSid \in 1 .. MaxSid + 1
    /\ ent \in [Sids -> Entries \cup {NoEnt}]
    /\ table \in [AgentKey -> 0 .. MaxSid]
    /\ strikes \in [AgentKey -> [Causes -> Nat]]
    /\ fresh \in [AgentKey -> BOOLEAN]
    /\ inflight \in [Sids -> Nat]
    /\ conn \in [Conns -> {"new", "open", "closed"}]
    /\ task \in [Conns -> Tasks]
    /\ regs \in [Conns -> [AgentKey -> 0 .. MaxSid]]
    /\ req \in [Reqs -> Requests]
    /\ deferred \subseteq [conn : Conns, cnt : Sids]

(* Every in-flight counter equals the number of requests that hold a slot on it, across
   takeovers that hand the counter to a new entry (table.rs, admission.rs).  Draining,
   the busy/dead verdict and the capacity check all read this number. *)
SlotAccounting == \A n \in Sids : inflight[n] = Cardinality(Holders(n))

(* When evict has decided to close a connection at once, the reporting request is the
   only one that still holds a slot of that node: the immediate close of eviction.rs
   interrupts no request of the evicted node. *)
EvictClosesAlone ==
    \A r \in Reqs : req[r].pc = "closeNow" =>
        \A q \in Reqs \ {r} : Holds(q) => CntOf(q) # CntOf(r)

(* When a takeover has decided to close the replaced connection at once, no request
   routed through the replaced entry, or through one replaced earlier, holds a slot
   (table.rs): a reconnect of the agent never cuts a request it left behind. *)
TakeoverClosesDrained ==
    \A c \in Conns : task[c].pc = "closing" =>
        \A q \in Reqs : Holds(q) /\ CntOf(q) = ent[task[c].old].cnt => req[q].sid >= task[c].sid

(* A connection is closed at once, by an eviction or by a takeover, only when the close
   cuts no request of its node but the one that reports (eviction.rs, table.rs). *)
ClosesOnlyDrained == EvictClosesAlone /\ TakeoverClosesDrained

(* An entry in the table is owned by a connection task that will remove it: one that
   noted it, or is about to (table.rs: there is no sweeper, an entry nobody owns stays
   until restart). *)
NoGhostEntry ==
    \A k \in AgentKey : table[k] # 0 =>
        LET s == table[k]
            c == ent[s].conn
        IN  /\ task[c].pc \notin {"none", "ended"}
            /\ \/ regs[c][k] = s
               \/ task[c].pc \in {"inserted", "closing"} /\ task[c].sid = s

(* somebody has undertaken to close connection c *)
Doomed(c) ==
    \/ conn[c] = "closed"
    \/ \E d \in deferred : d.conn = c
    \/ \E r \in Reqs : req[r].pc \in {"closeNow", "closeLater"} /\ ent[req[r].sid].conn = c
    \/ \E b \in Conns : task[b].pc \in {"inserted", "closing"} /\ task[b].old # 0
                            /\ ent[task[b].old].conn = c

(* A connection whose registration is no longer in the table is closed, or somebody has
   undertaken to close it (eviction.rs: no connection that believes it is registered
   stays open while nothing is routed to it). *)
NoZombie ==
    \A c \in Conns, k \in AgentKey : regs[c][k] # 0 /\ table[k] # regs[c][k] => Doomed(c)

(* The table and the connection tasks agree: what is in the table has an owner that will
   take it out, what was taken out has a connection that will be closed (table.rs,
   eviction.rs). *)
TableIsOwned == NoGhostEntry /\ NoZombie

(* A request is only carried by a connection that proved the request's tenant, and all
   the registrations of a connection belong to one tenant (protocol.rs, registration.rs,
   routing.rs). *)
TenantIsolation ==
    \A r \in Reqs : Holds(r) =>
        LET c == ent[req[r].sid].conn IN
        /\ <<c, req[r].tenant>> \in Vouched \/ (AllowLegacy /\ req[r].tenant = DefaultTenant)
        /\ \A s \in Sids : ent[s].conn = c => ent[s].key.tenant = req[r].tenant

(* A request whose node is in the table is counted by the node's entry unless its own
   connection is closed or about to be, or its task has ended (table.rs: a takeover
   inherits the counter, only an eviction or a lost connection starts a new one). *)
UncountedOnlyWhenDoomed ==
    \A r \in Reqs : Holds(r) =>
        LET e == ent[req[r].sid] IN
        \/ table[e.key] = 0
        \/ ent[table[e.key]].cnt = e.cnt
        \/ Doomed(e.conn)
        \/ task[e.conn].pc \in {"dropping", "ended"}

(* What a connection registered and lost from the table is followed by its close
   (eviction.rs, evict_close.rs: the agent notices and reconnects). *)
ZombieIsClosed ==
    \A c \in Conns, k \in AgentKey :
        (regs[c][k] # 0 /\ table[k] # regs[c][k]) ~> (conn[c] = "closed")

(* The entries of a closed connection leave the table (connection.rs, Drop for
   Registration), so they stop being candidates even though nothing sweeps the table. *)
ClosedIsRemoved ==
    \A c \in Conns :
        (conn[c] = "closed") ~> (\A k \in AgentKey : table[k] # 0 => ent[table[k]].conn # c)

=============================================================================
