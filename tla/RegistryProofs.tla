--------------------------- MODULE RegistryProofs ---------------------------
(***************************************************************************)
(* Safety of Registry for every number of connections, requests, keys and  *)
(* stable ids.                                                             *)
(***************************************************************************)
EXTENDS Registry, FiniteSetTheorems, TLAPS

(* Every issued stable_id has an entry, no other has; its counter is older. *)
Issued ==
    \A s \in Sids :
        /\ s < nextSid => ent[s] \in Entries /\ ent[s].cnt <= s
        /\ s >= nextSid => ent[s] = NoEnt

(* A table slot holds an issued entry of that key. *)
TableSound ==
    \A k \in AgentKey : table[k] # 0 => table[k] < nextSid /\ ent[table[k]].key = k

(* A counter is handed on only between entries of one key. *)
CounterOfOneKey ==
    \A s \in Sids, z \in Sids :
        s < nextSid /\ z < nextSid /\ ent[s].cnt = ent[z].cnt => ent[s].key = ent[z].key

(* A request with a slot has an issued entry; once its eviction is decided the counter
   is out of the table for good. *)
ReqSound ==
    \A r \in Reqs :
        /\ Holds(r) => req[r].sid \in Sids /\ req[r].sid < nextSid
        /\ req[r].pc \in {"closeNow", "closeLater"} =>
              \A k \in AgentKey : table[k] # 0 => ent[table[k]].cnt # CntOf(r)
        /\ req[r].pc = "strike" => req[r].cause \in Causes

(* What a connection task knows in the middle of a registration. *)
TaskSound ==
    \A c \in Conns :
        /\ task[c].pc = "frame" => task[c].key \in AgentKey /\ task[c].decl \in Decls
        /\ task[c].pc \in {"inserted", "closing"} =>
              /\ task[c].key \in AgentKey
              /\ task[c].sid \in Sids /\ task[c].sid < nextSid
              /\ ent[task[c].sid].conn = c /\ ent[task[c].sid].key = task[c].key
              /\ table[task[c].key] # 0 => table[task[c].key] >= task[c].sid
              /\ task[c].old # 0 => /\ task[c].old < task[c].sid
                                    /\ ent[task[c].old].key = task[c].key
                                    /\ ent[task[c].old].cnt = ent[task[c].sid].cnt
        /\ task[c].pc = "closing" => task[c].old # 0

(* The inductive invariant for slots and closes. *)
SlotInv ==
    /\ TypeOK
    /\ Issued
    /\ TableSound
    /\ CounterOfOneKey
    /\ ReqSound
    /\ TaskSound
    /\ SlotAccounting
    /\ EvictClosesAlone
    /\ TakeoverClosesDrained

(* A noted registration names an issued entry of that connection and key, and the task
   that noted it has not ended; a connection that was not accepted yet has no task. *)
RegsSound ==
    \A c \in Conns :
        /\ conn[c] = "new" => task[c].pc = "none"
        /\ \A k \in AgentKey : regs[c][k] # 0 =>
              /\ regs[c][k] < nextSid
              /\ ent[regs[c][k]].conn = c
              /\ ent[regs[c][k]].key = k
              /\ task[c].pc \notin {"none", "ended"}
              /\ task[c].pc \in {"inserted", "closing"} => regs[c][k] < task[c].sid

(* Every entry is noted by its connection, or is about to be, until the task ends. *)
EntriesNoted ==
    \A s \in Sids : s < nextSid =>
        LET c == ent[s].conn IN
        \/ regs[c][ent[s].key] # 0
        \/ task[c].pc \in {"inserted", "closing"} /\ task[c].sid = s
        \/ task[c].pc \in {"dropping", "ended"}

(* An entry that is not in the table has a connection that will be closed, or whose task
   is at its end. *)
LeftSound ==
    \A s \in Sids : s < nextSid =>
        \/ table[ent[s].key] = s
        \/ Doomed(ent[s].conn)
        \/ task[ent[s].conn].pc \in {"dropping", "ended"}

(* The inductive invariant for ownership. *)
OwnerInv == RegsSound /\ EntriesNoted /\ LeftSound /\ NoGhostEntry /\ NoZombie

(* the connection proved the tenant *)
Proved(c, t) == <<c, t>> \in Vouched \/ (AllowLegacy /\ t = DefaultTenant)

(* The inductive invariant for tenants: the keys of entries and of registrations under
   way are proved, those of one connection agree, and a request has the tenant of its
   entry. *)
TenantInv ==
    /\ \A s \in Sids : s < nextSid => Proved(ent[s].conn, ent[s].key.tenant)
    /\ \A c \in Conns : task[c].pc = "frame" => Proved(c, task[c].key.tenant)
    /\ \A s \in Sids, z \in Sids :
          s < nextSid /\ z < nextSid /\ ent[s].conn = ent[z].conn
              => ent[s].key.tenant = ent[z].key.tenant
    /\ \A r \in Reqs : Holds(r) => req[r].tenant = ent[req[r].sid].key.tenant

-----------------------------------------------------------------------------
(* Initial states *)

(* What the assumption says of the bounds. *)
LEMMA BoundsAreNat == MaxSid \in Nat /\ IsFiniteSet(Reqs)
  BY ConstantsAssumption

(* A number of strikes is compared with a natural number. *)
LEMMA ThresholdIsNat == TUNNEL_TIMEOUTS_BEFORE_EVICT \in Nat
  BY ConstantsAssumption

(* A counter that no request holds has no holders. *)
LEMMA EmptyHolders ==
    ASSUME \A r \in Reqs : ~Holds(r), NEW n
    PROVE  Holders(n) = {} /\ Cardinality(Holders(n)) = 0
  <1>1. Holders(n) = {}
    BY DEF Holders
  <1>2. QED
    BY <1>1, FS_EmptySet

(* Initially nothing is issued and nothing is held. *)
LEMMA SlotInit == Init => SlotInv
  <1> SUFFICES ASSUME Init PROVE SlotInv
    OBVIOUS
  <1> USE ConstantsAssumption DEF Init, Sids
  <1>1. TypeOK
    BY DEF TypeOK, Entries, NoStrikes, IdleTask, IdleReq, TaskPcs, ReqPcs, NoDecl, Tasks, Requests
  <1>2. \A r \in Reqs : ~Holds(r)
    BY DEF Holds, IdleReq
  <1>3. SlotAccounting
    BY <1>2, EmptyHolders DEF SlotAccounting
  <1>4. Issued /\ TableSound /\ CounterOfOneKey
    BY DEF Issued, TableSound, CounterOfOneKey
  <1>5. ReqSound /\ EvictClosesAlone
    BY <1>2 DEF ReqSound, EvictClosesAlone, IdleReq
  <1>6. TaskSound /\ TakeoverClosesDrained
    BY DEF TaskSound, TakeoverClosesDrained, IdleTask
  <1>7. QED
    BY <1>1, <1>3, <1>4, <1>5, <1>6 DEF SlotInv

-----------------------------------------------------------------------------
(* Steps of a connection task and of the environment that leave the entries, the
   table, the counters and the requests alone. *)

(* Only the connection, its task, what it noted, the pending closes or the strikes and
   freshness of an entry change. *)
QuietStep ==
    \/ \E c \in Conns :
          \/ Connect(c)
          \/ \E t \in Tenants, a \in Agents, d \in Decls : ReadRegister(c, t, a, d)
          \/ \E t \in Tenants : RejectRegister(c, t)
          \/ RefuseRegistration(c)
          \/ RegisterFirst(c)
          \/ RegisterDispose(c)
          \/ RegisterClose(c)
          \/ \E k \in AgentKey : Heartbeat(c, k)
          \/ TaskReturns(c)
          \/ DropDone(c)
          \/ PeerLost(c)
          \/ LastHandleDropped(c)
    \/ \E d \in deferred : DeferredClose(d)
    \/ \E k \in AgentKey : GoStale(k)

(* An idle task is well typed wherever it is, *)
LEMMA IdleTaskType == \A pc \in TaskPcs : IdleTask(pc) \in Tasks
  BY ConstantsAssumption DEF IdleTask, Tasks, NoDecl

(* ... and so is a task that moves on. *)
LEMMA TaskPcType ==
    ASSUME NEW t \in Tasks, NEW pc \in TaskPcs
    PROVE  [t EXCEPT !.pc = pc] \in Tasks
  BY DEF Tasks

(* The steps that neither issue an entry nor change a counter keep the types, *)
LEMMA QuietType == SlotInv /\ QuietStep => TypeOK'
  <1> SUFFICES ASSUME SlotInv, QuietStep PROVE TypeOK'
    OBVIOUS
  <1>a. TypeOK /\ TaskSound /\ Issued
    BY DEF SlotInv
  <1>b. /\ IdleTask("loop") \in Tasks /\ IdleTask("dropping") \in Tasks
        /\ IdleTask("ended") \in Tasks
    BY IdleTaskType DEF TaskPcs
  <1>c. ASSUME NEW c \in Conns PROVE [conn EXCEPT ![c] = "closed"] \in [Conns -> {"new", "open", "closed"}]
    BY <1>a DEF TypeOK
  <1>d. ASSUME NEW c \in Conns, task[c].pc \in {"inserted", "closing"}, NoteRegistration(c)
        PROVE  task' \in [Conns -> Tasks] /\ regs' \in [Conns -> [AgentKey -> 0 .. MaxSid]]
    <2>1. task[c].key \in AgentKey /\ task[c].sid \in 0 .. MaxSid
      BY <1>a, <1>d DEF TaskSound, TypeOK, Tasks
    <2>2. QED
      BY <1>a, <1>b, <1>d, <2>1 DEF NoteRegistration, TypeOK
  <1>1. ASSUME NEW c \in Conns, Connect(c) \/ PeerLost(c) \/ LastHandleDropped(c) PROVE TypeOK'
    BY <1>a, <1>b, <1>c, <1>1 DEF Connect, PeerLost, LastHandleDropped, TypeOK, Close
  <1>2. ASSUME NEW c \in Conns, NEW t \in Tenants, NEW a \in Agents, NEW d \in Decls,
               ReadRegister(c, t, a, d) PROVE TypeOK'
    <2>1. [tenant |-> t, agent |-> a, ip |-> PeerIp[c]] \in AgentKey
      BY ConstantsAssumption DEF AgentKey
    <2>2. [pc |-> "frame", key |-> [tenant |-> t, agent |-> a, ip |-> PeerIp[c]],
           decl |-> d, sid |-> 0, old |-> 0] \in Tasks
      BY <2>1, ConstantsAssumption DEF Tasks, TaskPcs
    <2>3. QED
      BY <1>a, <1>2, <2>2 DEF ReadRegister, TypeOK
  <1>3. ASSUME NEW c \in Conns, NEW t \in Tenants, RejectRegister(c, t) PROVE TypeOK'
    BY <1>a, <1>b, <1>c, <1>3 DEF RejectRegister, TypeOK, Close
  <1>4. ASSUME NEW c \in Conns, RefuseRegistration(c) \/ TaskReturns(c) \/ DropDone(c) PROVE TypeOK'
    BY <1>a, <1>b, <1>c, <1>4 DEF RefuseRegistration, TaskReturns, DropDone, TypeOK, Close
  <1>5. ASSUME NEW c \in Conns, RegisterFirst(c) PROVE TypeOK'
    BY <1>a, <1>d, <1>5 DEF RegisterFirst, TypeOK
  <1>6. ASSUME NEW c \in Conns, RegisterDispose(c) PROVE TypeOK'
    <2>1. [conn |-> ent[task[c].old].conn, cnt |-> ent[task[c].old].cnt] \in [conn : Conns, cnt : Sids]
      <3>1. task[c].old \in Sids /\ task[c].old < nextSid
        BY <1>a, <1>6, ConstantsAssumption DEF RegisterDispose, TaskSound, Sids, TypeOK, Tasks
      <3>2. ent[task[c].old] \in Entries
        BY <1>a, <3>1 DEF Issued
      <3>3. QED
        BY <3>2 DEF Entries
    <2>2. [task[c] EXCEPT !.pc = "closing"] \in Tasks
      BY <1>a, TaskPcType DEF TypeOK, TaskPcs
    <2>3. CASE Drained(task[c].old)
      BY <1>a, <1>6, <2>2, <2>3 DEF RegisterDispose, TypeOK
    <2>4. CASE ~Drained(task[c].old)
      BY <1>a, <1>d, <1>6, <2>1, <2>4 DEF RegisterDispose, TypeOK
    <2>5. QED
      BY <2>3, <2>4
  <1>7. ASSUME NEW c \in Conns, RegisterClose(c) PROVE TypeOK'
    <2>1. ent[task[c].old].conn \in Conns
      <3>1. task[c].old \in Sids /\ task[c].old < nextSid
        BY <1>a, <1>7, ConstantsAssumption DEF RegisterClose, TaskSound, Sids, TypeOK, Tasks
      <3>2. QED
        BY <1>a, <3>1 DEF Issued, Entries
    <2>2. QED
      BY <1>a, <1>c, <1>d, <1>7, <2>1 DEF RegisterClose, TypeOK, Close
  <1>8. ASSUME NEW c \in Conns, NEW k \in AgentKey, Heartbeat(c, k) PROVE TypeOK'
    BY <1>a, <1>8 DEF Heartbeat, TypeOK
  <1>9. ASSUME NEW d \in deferred, DeferredClose(d) PROVE TypeOK'
    BY <1>a, <1>9 DEF DeferredClose, TypeOK, Close
  <1>10. ASSUME NEW k \in AgentKey, GoStale(k) PROVE TypeOK'
    BY <1>a, <1>10 DEF GoStale, TypeOK
  <1>11. QED
    BY <1>1, <1>2, <1>3, <1>4, <1>5, <1>6, <1>7, <1>8, <1>9, <1>10 DEF QuietStep
(* ... leave table, entries, counters and requests alone, *)
LEMMA QuietUnchanged ==
    QuietStep => UNCHANGED <<nextSid, ent, table, inflight, req>>
  BY DEF QuietStep, Connect, ReadRegister, RejectRegister, RefuseRegistration, RegisterFirst,
         RegisterDispose, RegisterClose, Heartbeat, TaskReturns, DropDone, PeerLost,
         LastHandleDropped, DeferredClose, GoStale

(* ... keep what tasks know, *)
LEMMA QuietTask == SlotInv /\ QuietStep => TaskSound' /\ TakeoverClosesDrained'
  <1> SUFFICES ASSUME SlotInv, QuietStep PROVE TaskSound' /\ TakeoverClosesDrained'
    OBVIOUS
  <1>a. TypeOK /\ TaskSound /\ TakeoverClosesDrained /\ SlotAccounting
    BY DEF SlotInv
  <1>b. UNCHANGED <<nextSid, ent, table, inflight, req>>
    BY QuietUnchanged
  <1>c. ASSUME NEW c \in Conns, NEW pc \in {"loop", "dropping", "ended"},
               task' = [task EXCEPT ![c] = IdleTask(pc)]
        PROVE  TaskSound' /\ TakeoverClosesDrained'
    BY <1>a, <1>b, <1>c DEF IdleTask, TaskSound, TakeoverClosesDrained, TypeOK, Holds, CntOf
  <1>d. ASSUME UNCHANGED task PROVE TaskSound' /\ TakeoverClosesDrained'
    BY <1>a, <1>b, <1>d DEF TaskSound, TakeoverClosesDrained, Holds, CntOf
  <1>1. ASSUME NEW c \in Conns, NEW t \in Tenants, NEW a \in Agents, NEW d \in Decls,
               ReadRegister(c, t, a, d)
        PROVE  TaskSound' /\ TakeoverClosesDrained'
    <2>1. [tenant |-> t, agent |-> a, ip |-> PeerIp[c]] \in AgentKey
      BY ConstantsAssumption DEF AgentKey
    <2>2. QED
      BY <1>a, <1>b, <1>1, <2>1 DEF ReadRegister, TaskSound, TakeoverClosesDrained, TypeOK, Holds, CntOf
  <1>2. ASSUME NEW c \in Conns, RegisterDispose(c), Drained(task[c].old)
        PROVE  TaskSound' /\ TakeoverClosesDrained'
    <2> DEFINE old == task[c].old
               n   == ent[old].cnt
    <2>1. n \in Sids /\ inflight[n] = 0
      <3>1. old \in Sids /\ old < nextSid
        BY <1>a, <1>2, ConstantsAssumption DEF RegisterDispose, TaskSound, Sids, TypeOK, Tasks
      <3>2. QED
        BY <1>2, <3>1 DEF Drained, SlotInv, Issued, Entries
    <2>2. Holders(n) = {}
      <3>1. IsFiniteSet(Holders(n))
        BY ConstantsAssumption, FS_Subset DEF Holders
      <3>2. QED
        BY <1>a, <2>1, <3>1, FS_EmptySet DEF SlotAccounting
    <2>3. \A q \in Reqs : ~(Holds(q) /\ CntOf(q) = n)
      BY <2>2 DEF Holders
    <2>4. task' = [task EXCEPT ![c].pc = "closing"]
      BY <1>2 DEF RegisterDispose
    <2>5. /\ task[c].pc = "inserted" /\ old # 0
          /\ task'[c].pc = "closing" /\ task'[c].old = old /\ task'[c].key = task[c].key
          /\ task'[c].sid = task[c].sid /\ task'[c].decl = task[c].decl
          /\ \A b \in Conns \ {c} : task'[b] = task[b]
      BY <1>2, <1>a, <2>4 DEF RegisterDispose, TypeOK, Tasks
    <2>6. TaskSound'
      BY <1>a, <1>b, <2>5 DEF TaskSound
    <2>7. TakeoverClosesDrained'
      BY <1>a, <1>b, <2>3, <2>5 DEF TakeoverClosesDrained, Holds, CntOf
    <2>8. QED
      BY <2>6, <2>7
  <1>3. ASSUME NEW c \in Conns, RegisterDispose(c), ~Drained(task[c].old)
        PROVE  TaskSound' /\ TakeoverClosesDrained'
    BY <1>c, <1>3 DEF RegisterDispose, NoteRegistration
  <1>4. ASSUME NEW c \in Conns, \/ Connect(c) \/ (\E t \in Tenants : RejectRegister(c, t))
                                \/ RefuseRegistration(c) \/ RegisterFirst(c) \/ RegisterClose(c)
                                \/ TaskReturns(c) \/ DropDone(c)
        PROVE  TaskSound' /\ TakeoverClosesDrained'
    BY <1>c, <1>4 DEF Connect, RejectRegister, RefuseRegistration, RegisterFirst, RegisterClose,
                      NoteRegistration, TaskReturns, DropDone
  <1>5. ASSUME \/ \E c \in Conns : \/ PeerLost(c) \/ LastHandleDropped(c)
                                   \/ \E k \in AgentKey : Heartbeat(c, k)
               \/ \E d \in deferred : DeferredClose(d)
               \/ \E k \in AgentKey : GoStale(k)
        PROVE  TaskSound' /\ TakeoverClosesDrained'
    BY <1>d, <1>5 DEF PeerLost, LastHandleDropped, Heartbeat, DeferredClose, GoStale
  <1>6. QED
    BY <1>1, <1>2, <1>3, <1>4, <1>5 DEF QuietStep

(* ... and so preserve SlotInv. *)
LEMMA QuietSlots == SlotInv /\ QuietStep => SlotInv'
  <1> SUFFICES ASSUME SlotInv, QuietStep PROVE SlotInv'
    OBVIOUS
  <1>1. UNCHANGED <<nextSid, ent, table, inflight, req>>
    BY QuietUnchanged
  <1>2. Issued' /\ TableSound' /\ CounterOfOneKey'
    BY <1>1 DEF SlotInv, Issued, TableSound, CounterOfOneKey
  <1>3. ReqSound' /\ EvictClosesAlone'
    BY <1>1 DEF SlotInv, ReqSound, EvictClosesAlone, Holds, CntOf
  <1>4. SlotAccounting'
    BY <1>1 DEF SlotInv, SlotAccounting, Holders, Holds, CntOf
  <1>5. QED
    BY <1>2, <1>3, <1>4, QuietType, QuietTask DEF SlotInv
-----------------------------------------------------------------------------
(* Steps that change the table *)

(* Dropping a registration removes an entry and no counter. *)
LEMMA DropSlots ==
    ASSUME SlotInv, NEW c \in Conns, NEW k \in AgentKey, DropRegistration(c, k)
    PROVE  SlotInv'
  <1>a. TypeOK /\ TableSound /\ ReqSound /\ TaskSound
    BY DEF SlotInv
  <1>b. UNCHANGED <<nextSid, ent, inflight, conn, task, req, deferred>>
    BY DEF DropRegistration
  <1>c. table' \in [AgentKey -> 0 .. MaxSid] /\ \A j \in AgentKey : table'[j] \in {0, table[j]}
    <2>1. CASE table[k] = regs[c][k]
      BY <1>a, <2>1, BoundsAreNat DEF DropRegistration, TypeOK
    <2>2. CASE table[k] # regs[c][k]
      BY <1>a, <2>2 DEF DropRegistration, TypeOK
    <2>3. QED
      BY <2>1, <2>2
  <1>1. TypeOK'
    <2>1. NoStrikes \in [Causes -> Nat]
      BY DEF NoStrikes
    <2>2. strikes' \in [AgentKey -> [Causes -> Nat]]
      <3>1. CASE table[k] = regs[c][k]
        BY <1>a, <2>1, <3>1 DEF DropRegistration, TypeOK
      <3>2. CASE table[k] # regs[c][k]
        BY <1>a, <3>2 DEF DropRegistration, TypeOK
      <3>3. QED
        BY <3>1, <3>2
    <2>3. fresh' \in [AgentKey -> BOOLEAN]
      <3>1. CASE table[k] = regs[c][k]
        BY <1>a, <3>1 DEF DropRegistration, TypeOK
      <3>2. CASE table[k] # regs[c][k]
        BY <1>a, <3>2 DEF DropRegistration, TypeOK
      <3>3. QED
        BY <3>1, <3>2
    <2>4. regs' \in [Conns -> [AgentKey -> 0 .. MaxSid]]
      BY <1>a, BoundsAreNat DEF DropRegistration, TypeOK
    <2>5. QED
      BY <1>a, <1>b, <1>c, <2>2, <2>3, <2>4 DEF TypeOK
  <1>2. Issued' /\ CounterOfOneKey' /\ EvictClosesAlone' /\ TakeoverClosesDrained'
    BY <1>b DEF SlotInv, Issued, CounterOfOneKey, EvictClosesAlone, TakeoverClosesDrained, Holds, CntOf
  <1>3. TableSound'
    BY <1>a, <1>b, <1>c DEF TableSound
  <1>4. ReqSound'
    BY <1>a, <1>b, <1>c DEF ReqSound, Holds, CntOf
  <1>5. TaskSound'
    BY <1>a, <1>b, <1>c DEF TaskSound
  <1>6. SlotAccounting'
    BY <1>b DEF SlotInv, SlotAccounting, Holders, Holds, CntOf
  <1>7. QED
    BY <1>1, <1>2, <1>3, <1>4, <1>5, <1>6 DEF SlotInv

(* Registering gives a new entry the counter of the entry it replaces, or a counter no
   request can hold yet. *)
LEMMA InsertSlots ==
    ASSUME SlotInv, NEW c \in Conns, RegisterInsert(c)
    PROVE  SlotInv'
  <1> DEFINE key == task[c].key
             old == table[key]
             cnt == IF old = 0 THEN nextSid ELSE ent[old].cnt
             new == [conn |-> c, key |-> key, cnt |-> cnt,
                     max_concurrency |-> task[c].decl.max_concurrency,
                     models |-> task[c].decl.models]
  <1>a. /\ TypeOK /\ Issued /\ TableSound /\ CounterOfOneKey /\ ReqSound /\ TaskSound
        /\ SlotAccounting /\ EvictClosesAlone /\ TakeoverClosesDrained
    BY DEF SlotInv
  <1>b. /\ nextSid \in Sids /\ nextSid' = nextSid + 1
        /\ ent' = [ent EXCEPT ![nextSid] = new]
        /\ table' = [table EXCEPT ![key] = nextSid]
        /\ task' = [task EXCEPT ![c].pc = "inserted", ![c].sid = nextSid, ![c].old = old]
        /\ UNCHANGED <<inflight, conn, regs, req, deferred>>
    BY <1>a, ConstantsAssumption DEF RegisterInsert, TypeOK, Sids
  <1>c. key \in AgentKey /\ task[c].decl \in Decls
    BY <1>a DEF RegisterInsert, TaskSound
  <1>d. /\ old \in 0 .. MaxSid
        /\ old # 0 => old \in Sids /\ old < nextSid /\ ent[old] \in Entries /\ ent[old].key = key
                      /\ ent[old].cnt <= old
    BY <1>a, <1>c, ConstantsAssumption DEF TypeOK, TableSound, Issued, Sids
  <1>e. cnt \in Sids /\ cnt <= nextSid
    BY <1>a, <1>b, <1>d, ConstantsAssumption DEF Entries, Sids, TypeOK
  <1>f. new \in Entries
    <2>1. /\ task[c].decl.max_concurrency \in Nat
          /\ task[c].decl.models \in SUBSET (Models \cup {AnyModel})
      BY <1>c, ConstantsAssumption
    <2>2. QED
      BY <1>c, <1>e, <2>1 DEF Entries
  <1>g. /\ ent'[nextSid] = new
        /\ \A s \in Sids : s # nextSid => ent'[s] = ent[s]
        /\ table'[key] = nextSid
        /\ \A k \in AgentKey : k # key => table'[k] = table[k]
    BY <1>a, <1>b, <1>c DEF TypeOK
  <1>h. /\ task'[c].pc = "inserted" /\ task'[c].sid = nextSid /\ task'[c].old = old
        /\ task'[c].key = key /\ task'[c].decl = task[c].decl
        /\ \A b \in Conns \ {c} : task'[b] = task[b]
    BY <1>a, <1>b DEF TypeOK, Tasks
  <1>i. \A r \in Reqs : /\ Holds(r)' = Holds(r)
                        /\ Holds(r) => CntOf(r)' = CntOf(r) /\ req'[r].sid = req[r].sid
    <2> SUFFICES ASSUME NEW r \in Reqs
                 PROVE  /\ Holds(r)' = Holds(r)
                        /\ Holds(r) => CntOf(r)' = CntOf(r) /\ req'[r].sid = req[r].sid
      OBVIOUS
    <2>1. req'[r] = req[r] /\ Holds(r)' = Holds(r)
      BY <1>b DEF Holds
    <2>2. Holds(r) => req[r].sid \in Sids /\ req[r].sid # nextSid
      BY <1>a, <1>b DEF ReqSound, Sids
    <2>3. QED
      BY <1>g, <2>1, <2>2 DEF CntOf
  <1>j. \A s \in Sids : s < nextSid => ent[s].cnt \in Sids /\ ent[s].cnt < nextSid
    BY <1>a, ConstantsAssumption DEF Issued, Entries, Sids, TypeOK
  <1>1. TypeOK'
    <2>1. task' \in [Conns -> Tasks]
      <3>1. [[[task[c] EXCEPT !.pc = "inserted"] EXCEPT !.sid = nextSid] EXCEPT !.old = old] \in Tasks
        <4>1. task[c] \in Tasks /\ nextSid \in 0 .. MaxSid /\ old \in 0 .. MaxSid
          BY <1>a, <1>b, <1>d DEF TypeOK, Sids
        <4>2. QED
          BY <4>1 DEF Tasks, TaskPcs
      <3>2. QED
        BY <1>a, <1>b, <3>1 DEF TypeOK
    <2>2. NoStrikes \in [Causes -> Nat]
      BY DEF NoStrikes
    <2>3. ent' \in [Sids -> Entries \cup {NoEnt}]
      BY <1>a, <1>b, <1>f DEF TypeOK
    <2>4. table' \in [AgentKey -> 0 .. MaxSid] /\ nextSid' \in 1 .. MaxSid + 1
      BY <1>a, <1>b, <1>c, ConstantsAssumption DEF TypeOK, Sids
    <2>5. strikes' \in [AgentKey -> [Causes -> Nat]] /\ fresh' \in [AgentKey -> BOOLEAN]
      BY <1>a, <1>c, <2>2 DEF TypeOK, RegisterInsert
    <2>6. QED
      BY <1>a, <1>b, <2>1, <2>3, <2>4, <2>5 DEF TypeOK
  <1>2. Issued'
    BY <1>a, <1>b, <1>e, <1>f, <1>g, ConstantsAssumption DEF Issued, TypeOK, Sids
  <1>3. TableSound'
    BY <1>a, <1>b, <1>c, <1>g, ConstantsAssumption DEF TableSound, TypeOK, Sids
  <1>4. CounterOfOneKey'
    <2> SUFFICES ASSUME NEW s \in Sids, NEW z \in Sids, s < nextSid', z < nextSid',
                        ent'[s].cnt = ent'[z].cnt
                 PROVE  ent'[s].key = ent'[z].key
      BY <1>a DEF CounterOfOneKey
    <2>1. ASSUME NEW x \in Sids, x < nextSid, ent[x].cnt = cnt PROVE ent[x].key = key
      <3>1. old # 0
        BY <1>b, <1>j, <2>1 DEF Sids
      <3>2. QED
        BY <1>a, <1>d, <2>1, <3>1 DEF CounterOfOneKey
    <2>2. \A x \in Sids : x < nextSid' => x < nextSid \/ x = nextSid
      BY <1>b, ConstantsAssumption DEF Sids
    <2>3. CASE s < nextSid /\ z < nextSid
      <3>1. s # nextSid /\ z # nextSid
        BY <2>3, <1>b DEF Sids
      <3>2. QED
        BY <1>a, <1>g, <2>3, <3>1 DEF CounterOfOneKey
    <2>4. CASE s < nextSid /\ z = nextSid
      <3>1. s # nextSid
        BY <2>4, <1>b DEF Sids
      <3>2. QED
        BY <1>g, <2>1, <2>4, <3>1
    <2>5. CASE s = nextSid /\ z < nextSid
      <3>1. z # nextSid
        BY <2>5, <1>b DEF Sids
      <3>2. QED
        BY <1>g, <2>1, <2>5, <3>1
    <2>6. QED
      BY <2>2, <2>3, <2>4, <2>5
  <1>5. ReqSound'
    <2> SUFFICES ASSUME NEW r \in Reqs PROVE ReqSound!(r)'
      BY DEF ReqSound
    <2>1. (Holds(r) => req[r].sid \in Sids /\ req[r].sid < nextSid)'
      BY <1>a, <1>b, <1>i, ConstantsAssumption DEF ReqSound, TypeOK, Sids
    <2>2. ASSUME req'[r].pc \in {"closeNow", "closeLater"}, NEW k \in AgentKey, table'[k] # 0
          PROVE  ent'[table'[k]].cnt # CntOf(r)'
      <3>0. Holds(r) /\ req[r].pc \in {"closeNow", "closeLater"}
        BY <1>b, <2>2 DEF Holds
      <3>1. CntOf(r)' = CntOf(r) /\ req[r].sid \in Sids /\ req[r].sid < nextSid
        BY <1>a, <1>i, <3>0 DEF ReqSound
      <3>2. CASE k # key
        <4>1. table[k] # 0 /\ table'[k] = table[k] /\ table[k] \in Sids /\ table[k] < nextSid
          BY <1>a, <1>g, <2>2, <3>2 DEF TableSound, TypeOK, Sids
        <4>2. ent'[table[k]] = ent[table[k]]
          BY <1>g, <4>1, <1>b DEF Sids
        <4>3. QED
          BY <1>a, <3>0, <3>1, <4>1, <4>2 DEF ReqSound
      <3>3. CASE k = key /\ old = 0
        BY <1>b, <1>g, <1>j, <3>1, <3>3 DEF CntOf, Sids
      <3>4. CASE k = key /\ old # 0
        BY <1>a, <1>c, <1>g, <3>0, <3>1, <3>4 DEF ReqSound
      <3>5. QED
        BY <3>2, <3>3, <3>4
    <2>3. (req[r].pc = "strike" => req[r].cause \in Causes)'
      BY <1>a, <1>b DEF ReqSound
    <2>4. QED
      BY <2>1, <2>2, <2>3
  <1>6. TaskSound'
    <2> SUFFICES ASSUME NEW b \in Conns PROVE TaskSound!(b)'
      BY DEF TaskSound
    <2>1. CASE b = c
      BY <1>b, <1>c, <1>d, <1>f, <1>g, <1>h, <2>1, ConstantsAssumption DEF Sids
    <2>2. CASE b # c
      <3>1. task'[b] = task[b]
        BY <1>h, <2>2
      <3>2. (task[b].pc = "frame" => task[b].key \in AgentKey /\ task[b].decl \in Decls)'
        BY <1>a, <3>1 DEF TaskSound
      <3>3. ASSUME task[b].pc \in {"inserted", "closing"}
            PROVE  /\ task[b].sid # nextSid /\ task[b].old # nextSid
                   /\ task[b].sid < nextSid'
                   /\ table'[task[b].key] # 0 => table'[task[b].key] >= task[b].sid
        <4>1. /\ task[b].key \in AgentKey /\ task[b].sid \in Sids /\ task[b].sid < nextSid
              /\ table[task[b].key] # 0 => table[task[b].key] >= task[b].sid
              /\ task[b].old # 0 => task[b].old < task[b].sid
          BY <1>a, <3>3 DEF TaskSound
        <4>2. nextSid \in Nat /\ nextSid # 0 /\ task[b].old \in Nat /\ task[b].sid \in Nat
          <5>1. task[b] \in Tasks
            BY <1>a DEF TypeOK
          <5>2. task[b].old \in 0 .. MaxSid
            BY <5>1 DEF Tasks
          <5>3. QED
            BY <1>b, <4>1, <5>2, ConstantsAssumption DEF Sids
        <4>3. nextSid' = nextSid + 1
          BY <1>b
        <4>4. table'[task[b].key] = table[task[b].key] \/ table'[task[b].key] = nextSid
          BY <1>a, <1>b, <1>c, <1>g, <4>1 DEF TypeOK
        <4>5. QED
          BY <4>1, <4>2, <4>3, <4>4
      <3>4. ASSUME task[b].pc \in {"inserted", "closing"}
            PROVE  /\ ent'[task[b].sid] = ent[task[b].sid]
                   /\ task[b].old # 0 => ent'[task[b].old] = ent[task[b].old]
        BY <1>a, <1>g, <3>3, <3>4, ConstantsAssumption DEF TaskSound, TypeOK, Sids, Tasks
      <3>5. QED
        BY <1>a, <3>1, <3>2, <3>3, <3>4 DEF TaskSound
    <2>3. QED
      BY <2>1, <2>2
  <1>7. SlotAccounting'
    <2>1. \A n \in Sids : Holders(n)' = Holders(n)
      BY <1>i DEF Holders
    <2>2. QED
      BY <1>a, <1>b, <2>1 DEF SlotAccounting
  <1>8. EvictClosesAlone'
    BY <1>a, <1>b, <1>i DEF EvictClosesAlone, Holds
  <1>9. TakeoverClosesDrained'
    <2> SUFFICES ASSUME NEW b \in Conns, task'[b].pc = "closing", NEW q \in Reqs,
                        Holds(q)', CntOf(q)' = ent'[task'[b].old].cnt
                 PROVE  req'[q].sid >= task'[b].sid
      BY DEF TakeoverClosesDrained
    <2>1. b # c /\ task'[b] = task[b]
      BY <1>h
    <2>2. task[b].old \in Sids /\ task[b].old < nextSid
      BY <1>a, <2>1, ConstantsAssumption DEF TaskSound, TypeOK, Sids, Tasks
    <2>3. ent'[task[b].old] = ent[task[b].old]
      BY <1>g, <1>b, <2>2 DEF Sids
    <2>4. QED
      BY <1>a, <1>i, <2>1, <2>3 DEF TakeoverClosesDrained
  <1>10. QED
    BY <1>1, <1>2, <1>3, <1>4, <1>5, <1>6, <1>7, <1>8, <1>9 DEF SlotInv
-----------------------------------------------------------------------------
(* Steps of a request that keeps its slot *)

(* What moving a slot holder from one control point to another leaves as it was. *)
LEMMA MoveReq ==
    ASSUME SlotInv, NEW r \in Reqs, req[r].pc # "idle",
           NEW pc \in ReqPcs \ {"idle"}, NEW x \in Causes \cup {"none"},
           req' = [req EXCEPT ![r].pc = pc, ![r].cause = x],
           UNCHANGED <<nextSid, ent, inflight>>
    PROVE  /\ req' \in [Reqs -> Requests]
           /\ req'[r].pc = pc /\ req'[r].cause = x
           /\ \A q \in Reqs \ {r} : req'[q] = req[q]
           /\ \A q \in Reqs : /\ Holds(q)' = Holds(q) /\ req'[q].sid = req[q].sid
                               /\ CntOf(q)' = CntOf(q)
           /\ Issued' /\ CounterOfOneKey' /\ SlotAccounting'
  <1>a. req \in [Reqs -> Requests]
    BY DEF SlotInv, TypeOK
  <1>1. [[req[r] EXCEPT !.pc = pc] EXCEPT !.cause = x] \in Requests
    BY <1>a DEF Requests
  <1>2. req' \in [Reqs -> Requests]
    BY <1>a, <1>1
  <1>3. /\ req'[r].pc = pc /\ req'[r].cause = x /\ req'[r].sid = req[r].sid
        /\ \A q \in Reqs \ {r} : req'[q] = req[q]
    BY <1>a DEF Requests
  <1>4. \A q \in Reqs : /\ Holds(q)' = Holds(q) /\ req'[q].sid = req[q].sid
                        /\ CntOf(q)' = CntOf(q)
    BY <1>3 DEF Holds, CntOf
  <1>5. Issued' /\ CounterOfOneKey'
    BY DEF SlotInv, Issued, CounterOfOneKey
  <1>6. SlotAccounting'
    <2>1. \A n \in Sids : Holders(n)' = Holders(n)
      BY <1>4 DEF Holders
    <2>2. QED
      BY <2>1 DEF SlotInv, SlotAccounting
  <1>7. QED
    BY <1>2, <1>3, <1>4, <1>5, <1>6

(* The steps of a slot holder other than taking part in an eviction. *)
KeepStep(r) ==
    StreamReady(r) \/ OpenTimeout(r) \/ SetupFailed(r) \/ HeadArrives(r) \/ HeadFails(r)
    \/ EvictClose(r)

(* A request that goes on keeps its slot. *)
LEMMA KeepSlots ==
    ASSUME SlotInv, NEW r \in Reqs, KeepStep(r)
    PROVE  SlotInv'
  <1>a. /\ TypeOK /\ Issued /\ TableSound /\ ReqSound /\ TaskSound
        /\ EvictClosesAlone /\ TakeoverClosesDrained
    BY DEF SlotInv
  <1>b. UNCHANGED <<nextSid, ent, inflight, table, task, regs, fresh>> /\ req[r].pc # "idle"
    BY DEF KeepStep, StreamReady, OpenTimeout, SetupFailed, HeadArrives, HeadFails, EvictClose
  <1>c. \E pc \in {"head", "strike", "settled"}, x \in Causes \cup {"none"} :
           /\ pc = "strike" => x \in Causes
           /\ req' = [req EXCEPT ![r].pc = pc, ![r].cause = x]
    <2>1. ASSUME NEW p \in {"head", "settled"}, Goto(r, p)
          PROVE  \E pc \in {"head", "strike", "settled"}, x \in Causes \cup {"none"} :
                    /\ pc = "strike" => x \in Causes
                    /\ req' = [req EXCEPT ![r].pc = pc, ![r].cause = x]
      BY <2>1 DEF Goto
    <2>2. ASSUME NEW y \in Causes, StrikeFor(r, y)
          PROVE  \E pc \in {"head", "strike", "settled"}, x \in Causes \cup {"none"} :
                    /\ pc = "strike" => x \in Causes
                    /\ req' = [req EXCEPT ![r].pc = pc, ![r].cause = x]
      BY <2>2 DEF StrikeFor
    <2>3. \/ Goto(r, "head") \/ Goto(r, "settled") \/ \E y \in Causes : StrikeFor(r, y)
      BY DEF KeepStep, StreamReady, OpenTimeout, SetupFailed, HeadArrives, HeadFails,
             EvictClose, Causes
    <2>4. QED
      BY <2>1, <2>2, <2>3
  <1>d. PICK pc \in {"head", "strike", "settled"}, x \in Causes \cup {"none"} :
           /\ pc = "strike" => x \in Causes
           /\ req' = [req EXCEPT ![r].pc = pc, ![r].cause = x]
    BY <1>c
  <1>e. pc \in ReqPcs \ {"idle"}
    BY DEF ReqPcs
  <1>f. /\ req' \in [Reqs -> Requests]
        /\ req'[r].pc = pc /\ req'[r].cause = x
        /\ \A q \in Reqs \ {r} : req'[q] = req[q]
        /\ \A q \in Reqs : /\ Holds(q)' = Holds(q) /\ req'[q].sid = req[q].sid
                            /\ CntOf(q)' = CntOf(q)
        /\ Issued' /\ CounterOfOneKey' /\ SlotAccounting'
    BY <1>b, <1>d, <1>e, MoveReq
  <1>1. TypeOK'
    <2>1. strikes' \in [AgentKey -> [Causes -> Nat]]
      <3>1. NoStrikes \in [Causes -> Nat]
        BY DEF NoStrikes
      <3>2. strikes' = strikes \/ strikes' = [strikes EXCEPT ![ent[req[r].sid].key] = NoStrikes]
        BY DEF KeepStep, StreamReady, OpenTimeout, SetupFailed, HeadArrives, HeadFails, EvictClose
      <3>3. QED
        BY <1>a, <3>1, <3>2 DEF TypeOK
    <2>2. ent[req[r].sid].conn \in Conns /\ ent[req[r].sid].cnt \in Sids
      BY <1>a, <1>b DEF ReqSound, Holds, Issued, Entries
    <2>3. conn' \in [Conns -> {"new", "open", "closed"}] /\ deferred' \subseteq [conn : Conns, cnt : Sids]
      <3>1. CASE EvictClose(r)
        BY <1>a, <2>2, <3>1 DEF EvictClose, TypeOK, Close
      <3>2. CASE ~EvictClose(r)
        BY <1>a, <3>2 DEF KeepStep, StreamReady, OpenTimeout, SetupFailed, HeadArrives, HeadFails, TypeOK
      <3>3. QED
        BY <3>1, <3>2
    <2>4. QED
      BY <1>a, <1>b, <1>f, <2>1, <2>3 DEF TypeOK
  <1>2. TableSound' /\ TaskSound'
    BY <1>a, <1>b DEF TableSound, TaskSound
  <1>3. ReqSound'
    BY <1>a, <1>b, <1>d, <1>f DEF ReqSound
  <1>4. EvictClosesAlone'
    BY <1>a, <1>f DEF EvictClosesAlone
  <1>5. TakeoverClosesDrained'
    BY <1>a, <1>b, <1>f DEF TakeoverClosesDrained
  <1>6. QED
    BY <1>f, <1>1, <1>2, <1>3, <1>4, <1>5 DEF SlotInv

(* The number of slots on a counter is at least the caller's own; when it is no more
   than that, the caller is alone. *)
LEMMA AloneIfOne ==
    ASSUME SlotInv, NEW r \in Reqs, Holds(r), inflight[CntOf(r)] <= 1
    PROVE  \A q \in Reqs \ {r} : Holds(q) => CntOf(q) # CntOf(r)
  <1> DEFINE n == CntOf(r)
  <1>1. n \in Sids
    BY DEF SlotInv, ReqSound, Issued, Entries, CntOf
  <1>2. IsFiniteSet(Holders(n)) /\ r \in Holders(n)
    BY BoundsAreNat, FS_Subset DEF Holders
  <1>3. /\ IsFiniteSet(Holders(n) \ {r})
        /\ Cardinality(Holders(n) \ {r}) = Cardinality(Holders(n)) - 1
    BY <1>2, FS_RemoveElement
  <1>4. Cardinality(Holders(n)) <= 1 /\ Cardinality(Holders(n) \ {r}) \in Nat
    BY <1>1, <1>3, FS_CardinalityType DEF SlotInv, SlotAccounting
  <1>5. Cardinality(Holders(n)) \in Nat
    BY <1>2, FS_CardinalityType
  <1>6. Holders(n) \ {r} = {}
    BY <1>3, <1>4, <1>5, FS_EmptySet
  <1>7. QED
    BY <1>6 DEF Holders
(* An eviction removes the entry; its counter lives on with its holders. *)
LEMMA EvictSlots ==
    ASSUME SlotInv, NEW r \in Reqs, Evict(r)
    PROVE  SlotInv'
  <1> DEFINE s == req[r].sid
             k == ent[s].key
  <1>a. /\ TypeOK /\ Issued /\ TableSound /\ CounterOfOneKey /\ ReqSound /\ TaskSound
        /\ EvictClosesAlone /\ TakeoverClosesDrained
    BY DEF SlotInv
  <1>b. UNCHANGED <<nextSid, ent, inflight, conn, task, regs, deferred>> /\ req[r].pc = "strike"
    BY DEF Evict
  <1>c. Holds(r) /\ s \in Sids /\ s < nextSid /\ ent[s] \in Entries /\ k \in AgentKey /\ req[r].cause \in Causes
    BY <1>a, <1>b DEF ReqSound, Holds, Issued, Entries
  <1>d. PICK pc \in {"closeNow", "closeLater", "settled"} : Goto(r, pc)
    BY DEF Evict
  <1>e. pc \in ReqPcs \ {"idle"} /\ "none" \in Causes \cup {"none"}
    BY DEF ReqPcs
  <1>f. /\ req' \in [Reqs -> Requests]
        /\ req'[r].pc = pc
        /\ \A q \in Reqs \ {r} : req'[q] = req[q]
        /\ \A q \in Reqs : /\ Holds(q)' = Holds(q) /\ req'[q].sid = req[q].sid
                            /\ CntOf(q)' = CntOf(q)
        /\ Issued' /\ CounterOfOneKey' /\ SlotAccounting'
    <2>1. req' = [req EXCEPT ![r].pc = pc, ![r].cause = "none"]
      BY <1>d DEF Goto
    <2>2. QED
      BY <1>b, <1>e, <2>1, MoveReq
  <1>g. /\ table' \in [AgentKey -> 0 .. MaxSid]
        /\ \A j \in AgentKey : table'[j] \in {0, table[j]}
    BY <1>a, <1>c, BoundsAreNat DEF Evict, TypeOK
  <1>h. req'[r].pc \in {"closeNow", "closeLater"} =>
            table[k] = s /\ table'[k] = 0 /\ \A j \in AgentKey : j # k => table'[j] = table[j]
    <2>1. CASE table[k] = s /\ strikes[k][req[r].cause] + 1 >= TUNNEL_TIMEOUTS_BEFORE_EVICT
      <3>1. strikes[k][req[r].cause] \in Nat
        BY <1>a, <1>c DEF TypeOK
      <3>2. ~(strikes[k][req[r].cause] + 1 < TUNNEL_TIMEOUTS_BEFORE_EVICT)
        BY <2>1, <3>1, ThresholdIsNat
      <3>3. table' = [table EXCEPT ![k] = 0]
        BY <2>1, <3>2 DEF Evict
      <3>4. QED
        BY <1>a, <1>c, <2>1, <3>3 DEF TypeOK
    <2>2. CASE ~(table[k] = s /\ strikes[k][req[r].cause] + 1 >= TUNNEL_TIMEOUTS_BEFORE_EVICT)
      <3>1. Goto(r, "settled")
        BY <2>2 DEF Evict
      <3>2. req'[r].pc = "settled"
        BY <1>a, <3>1 DEF Goto, TypeOK, Requests
      <3>3. QED
        BY <3>2
    <2>3. QED
      BY <2>1, <2>2
  <1>i. req'[r].pc = "closeNow" => inflight[ent[s].cnt] <= 1
    <2>1. CASE CallerAlone(s)
      BY <2>1 DEF CallerAlone
    <2>2. CASE ~CallerAlone(s)
      <3>1. Goto(r, "closeLater") \/ Goto(r, "settled")
        BY <2>2 DEF Evict
      <3>2. req'[r].pc \in {"closeLater", "settled"}
        BY <1>a, <3>1 DEF Goto, TypeOK, Requests
      <3>3. QED
        BY <3>2
    <2>3. QED
      BY <2>1, <2>2
  <1>1. TypeOK'
    <2>1. strikes' \in [AgentKey -> [Causes -> Nat]] /\ fresh' \in [AgentKey -> BOOLEAN]
      <3>1. NoStrikes \in [Causes -> Nat] /\ strikes[k] \in [Causes -> Nat]
        BY <1>a, <1>c DEF NoStrikes, TypeOK
      <3>2. strikes[k][req[r].cause] + 1 \in Nat
        BY <1>c, <3>1
      <3>3. [strikes[k] EXCEPT ![req[r].cause] = strikes[k][req[r].cause] + 1] \in [Causes -> Nat]
        BY <3>1, <3>2
      <3>4. \/ strikes' = strikes
            \/ strikes' = [strikes EXCEPT ![k] = NoStrikes]
            \/ strikes' = [strikes EXCEPT ![k] = [strikes[k] EXCEPT ![req[r].cause] =
                                                     strikes[k][req[r].cause] + 1]]
        BY <1>a DEF Evict, TypeOK
      <3>5. fresh' = fresh \/ fresh' = [fresh EXCEPT ![k] = FALSE]
        BY DEF Evict
      <3>6. QED
        BY <1>a, <3>1, <3>3, <3>4, <3>5 DEF TypeOK
    <2>2. QED
      BY <1>a, <1>b, <1>f, <1>g, <2>1 DEF TypeOK
  <1>2. TableSound' /\ TaskSound'
    BY <1>a, <1>b, <1>g DEF TableSound, TaskSound
  <1>3. ReqSound'
    <2> SUFFICES ASSUME NEW q \in Reqs PROVE ReqSound!(q)'
      BY DEF ReqSound
    <2>1. (Holds(q) => req[q].sid \in Sids /\ req[q].sid < nextSid)'
      BY <1>a, <1>b, <1>f DEF ReqSound
    <2>2. (req[q].pc = "strike" => req[q].cause \in Causes)'
      BY <1>a, <1>d, <1>f DEF ReqSound
    <2>3. ASSUME req'[q].pc \in {"closeNow", "closeLater"}, NEW j \in AgentKey, table'[j] # 0
          PROVE  ent'[table'[j]].cnt # CntOf(q)'
      <3>1. table'[j] = table[j] /\ table[j] # 0
        BY <1>g, <2>3
      <3>2. CASE q = r
        <4>1. j # k /\ table[k] = s
          BY <1>c, <1>h, <2>3, <3>2
        <4>2. table[j] \in Sids /\ table[j] < nextSid /\ ent[table[j]].key = j
          BY <1>a, <3>1, BoundsAreNat DEF TableSound, TypeOK, Sids
        <4>3. ent[table[j]].cnt # ent[s].cnt
          BY <1>a, <1>c, <4>1, <4>2 DEF CounterOfOneKey
        <4>4. QED
          BY <1>b, <1>f, <3>1, <3>2, <4>3 DEF CntOf
      <3>3. CASE q # r
        BY <1>a, <1>b, <1>f, <2>3, <3>1, <3>3 DEF ReqSound
      <3>4. QED
        BY <3>2, <3>3
    <2>4. QED
      BY <2>1, <2>2, <2>3
  <1>4. EvictClosesAlone'
    <2> SUFFICES ASSUME NEW p \in Reqs, req'[p].pc = "closeNow", NEW q \in Reqs \ {p}, Holds(q)'
                 PROVE  CntOf(q)' # CntOf(p)'
      BY DEF EvictClosesAlone
    <2>1. CASE p = r
      <3>1. inflight[CntOf(r)] <= 1
        BY <1>i, <2>1 DEF CntOf
      <3>2. QED
        BY <1>c, <1>f, <2>1, <3>1, AloneIfOne
    <2>2. CASE p # r
      BY <1>a, <1>f, <2>2 DEF EvictClosesAlone
    <2>3. QED
      BY <2>1, <2>2
  <1>5. TakeoverClosesDrained'
    BY <1>a, <1>b, <1>f DEF TakeoverClosesDrained
  <1>6. QED
    BY <1>f, <1>1, <1>2, <1>3, <1>4, <1>5 DEF SlotInv

-----------------------------------------------------------------------------
(* Taking and giving back a slot *)

(* Acquiring adds one to the counter and one to its holders. *)
LEMMA AcquireSlots ==
    ASSUME SlotInv, NEW r \in Reqs, NEW t \in Tenants, NEW m \in Models, NEW x \in SUBSET Sids,
           Acquire(r, t, m, x)
    PROVE  SlotInv'
  <1>a. /\ TypeOK /\ Issued /\ TableSound /\ CounterOfOneKey /\ ReqSound /\ TaskSound
        /\ EvictClosesAlone /\ TakeoverClosesDrained /\ SlotAccounting
    BY DEF SlotInv
  <1>b. UNCHANGED <<nextSid, ent, table, strikes, fresh, conn, task, regs, deferred>>
        /\ req[r].pc = "idle"
    BY DEF Acquire
  <1>c. PICK k \in AgentKey :
           /\ table[k] # 0
           /\ inflight' = [inflight EXCEPT ![ent[table[k]].cnt] = @ + 1]
           /\ req' = [req EXCEPT ![r] = [pc |-> "setup", sid |-> table[k], tenant |-> t, cause |-> "none"]]
    BY DEF Acquire, Candidates
  <1> DEFINE s == table[k]
             n == ent[s].cnt
  <1>d. s \in Sids /\ s < nextSid /\ ent[s].key = k /\ n \in Sids
    BY <1>a, <1>c, BoundsAreNat DEF TypeOK, TableSound, Sids, Issued, Entries
  <1>e. /\ req'[r].pc = "setup" /\ req'[r].sid = s /\ req'[r].cause = "none"
        /\ \A q \in Reqs \ {r} : req'[q] = req[q]
        /\ inflight'[n] = inflight[n] + 1
        /\ \A i \in Sids \ {n} : inflight'[i] = inflight[i]
    BY <1>a, <1>c, <1>d DEF TypeOK
  <1>f. /\ ~Holds(r) /\ Holds(r)' /\ CntOf(r)' = n
        /\ \A q \in Reqs \ {r} : Holds(q)' = Holds(q) /\ CntOf(q)' = CntOf(q)
    BY <1>b, <1>e DEF Holds, CntOf
  <1>1. TypeOK'
    <2>1. [pc |-> "setup", sid |-> s, tenant |-> t, cause |-> "none"] \in Requests
      BY <1>d DEF Requests, ReqPcs, Sids
    <2>2. inflight' \in [Sids -> Nat]
      BY <1>a, <1>c, <1>d DEF TypeOK
    <2>3. QED
      BY <1>a, <1>b, <1>c, <2>1, <2>2 DEF TypeOK
  <1>2. Issued' /\ TableSound' /\ CounterOfOneKey' /\ TaskSound'
    BY <1>a, <1>b DEF Issued, TableSound, CounterOfOneKey, TaskSound
  <1>3. ReqSound'
    BY <1>a, <1>b, <1>d, <1>e, <1>f DEF ReqSound
  <1>4. SlotAccounting'
    <2> SUFFICES ASSUME NEW i \in Sids PROVE inflight'[i] = Cardinality(Holders(i)')
      BY DEF SlotAccounting
    <2>1. IsFiniteSet(Holders(i)) /\ inflight[i] = Cardinality(Holders(i)) /\ r \notin Holders(i)
      BY <1>a, <1>f, BoundsAreNat, FS_Subset DEF Holders, SlotAccounting
    <2>2. CASE i = n
      <3>1. Holders(i)' = Holders(i) \cup {r}
        BY <1>f, <2>2 DEF Holders
      <3>2. Cardinality(Holders(i) \cup {r}) = Cardinality(Holders(i)) + 1
        BY <2>1, FS_AddElement
      <3>3. QED
        BY <1>e, <2>1, <2>2, <3>1, <3>2
    <2>3. CASE i # n
      <3>1. Holders(i)' = Holders(i)
        BY <1>f, <2>3 DEF Holders
      <3>2. QED
        BY <1>e, <2>1, <2>3, <3>1
    <2>4. QED
      BY <2>2, <2>3
  <1>5. EvictClosesAlone'
    <2> SUFFICES ASSUME NEW p \in Reqs, req'[p].pc = "closeNow", NEW q \in Reqs \ {p}, Holds(q)'
                 PROVE  CntOf(q)' # CntOf(p)'
      BY DEF EvictClosesAlone
    <2>1. p # r /\ req'[p] = req[p]
      BY <1>e
    <2>2. CASE q = r
      BY <1>a, <1>c, <1>f, <2>1, <2>2 DEF ReqSound
    <2>3. CASE q # r
      BY <1>a, <1>f, <2>1, <2>3 DEF EvictClosesAlone
    <2>4. QED
      BY <2>2, <2>3
  <1>6. TakeoverClosesDrained'
    <2> SUFFICES ASSUME NEW c \in Conns, task[c].pc = "closing", NEW q \in Reqs,
                        Holds(q)', CntOf(q)' = ent[task[c].old].cnt
                 PROVE  req'[q].sid >= task[c].sid
      BY <1>b DEF TakeoverClosesDrained
    <2>1. CASE q # r
      BY <1>a, <1>e, <1>f, <2>1 DEF TakeoverClosesDrained
    <2>2. CASE q = r
      <3>1. /\ task[c].old \in Sids /\ task[c].old < nextSid
            /\ ent[task[c].old].key = task[c].key
        BY <1>a, BoundsAreNat DEF TaskSound, TypeOK, Sids, Tasks
      <3>2. k = task[c].key
        BY <1>a, <1>d, <1>f, <2>2, <3>1 DEF CounterOfOneKey
      <3>3. QED
        BY <1>a, <1>c, <1>e, <2>2, <3>2 DEF TaskSound
    <2>3. QED
      BY <2>1, <2>2
  <1>7. QED
    BY <1>1, <1>2, <1>3, <1>4, <1>5, <1>6 DEF SlotInv

(* Releasing takes one from both. *)
LEMMA ReleaseSlots ==
    ASSUME SlotInv, NEW r \in Reqs, Release(r)
    PROVE  SlotInv'
  <1> DEFINE n == CntOf(r)
  <1>a. /\ TypeOK /\ Issued /\ TableSound /\ CounterOfOneKey /\ ReqSound /\ TaskSound
        /\ EvictClosesAlone /\ TakeoverClosesDrained /\ SlotAccounting
    BY DEF SlotInv
  <1>b. UNCHANGED <<nextSid, ent, table, strikes, fresh, conn, task, regs, deferred>>
    BY DEF Release
  <1>c. Holds(r) /\ n \in Sids
    BY <1>a DEF Release, Holds, ReqSound, Issued, Entries, CntOf
  <1>d. IsFiniteSet(Holders(n)) /\ r \in Holders(n) /\ inflight[n] = Cardinality(Holders(n))
    BY <1>a, <1>c, BoundsAreNat, FS_Subset DEF Holders, SlotAccounting
  <1>e. /\ Cardinality(Holders(n) \ {r}) = Cardinality(Holders(n)) - 1
        /\ Cardinality(Holders(n) \ {r}) \in Nat /\ Cardinality(Holders(n)) \in Nat
    BY <1>d, FS_RemoveElement, FS_CardinalityType
  <1>f. /\ inflight' = [inflight EXCEPT ![n] = inflight[n] - 1]
        /\ req' = [req EXCEPT ![r] = IdleReq]
    BY <1>a DEF Release, TypeOK
  <1>g. /\ req'[r] = IdleReq
        /\ \A q \in Reqs \ {r} : req'[q] = req[q]
        /\ inflight'[n] = inflight[n] - 1
        /\ \A i \in Sids \ {n} : inflight'[i] = inflight[i]
    BY <1>a, <1>c, <1>f DEF TypeOK
  <1>h. /\ ~Holds(r)'
        /\ \A q \in Reqs \ {r} : Holds(q)' = Holds(q) /\ CntOf(q)' = CntOf(q)
    BY <1>b, <1>g DEF Holds, CntOf, IdleReq
  <1>1. TypeOK'
    <2>1. IdleReq \in Requests
      BY ConstantsAssumption DEF IdleReq, Requests, ReqPcs
    <2>2. inflight' \in [Sids -> Nat]
      BY <1>a, <1>c, <1>d, <1>e, <1>f DEF TypeOK
    <2>3. QED
      BY <1>a, <1>b, <1>f, <2>1, <2>2 DEF TypeOK
  <1>2. Issued' /\ TableSound' /\ CounterOfOneKey' /\ TaskSound'
    BY <1>a, <1>b DEF Issued, TableSound, CounterOfOneKey, TaskSound
  <1>3. ReqSound'
    BY <1>a, <1>b, <1>g, <1>h DEF ReqSound, IdleReq
  <1>4. SlotAccounting'
    <2> SUFFICES ASSUME NEW i \in Sids PROVE inflight'[i] = Cardinality(Holders(i)')
      BY DEF SlotAccounting
    <2>1. CASE i = n
      <3>1. Holders(i)' = Holders(i) \ {r}
        BY <1>h, <2>1 DEF Holders
      <3>2. QED
        BY <1>d, <1>e, <1>g, <2>1, <3>1
    <2>2. CASE i # n
      <3>1. Holders(i)' = Holders(i)
        BY <1>h, <2>2 DEF Holders
      <3>2. QED
        BY <1>a, <1>g, <2>2, <3>1 DEF SlotAccounting
    <2>3. QED
      BY <2>1, <2>2
  <1>5. EvictClosesAlone'
    BY <1>a, <1>g, <1>h DEF EvictClosesAlone, IdleReq
  <1>6. TakeoverClosesDrained'
    BY <1>a, <1>b, <1>g, <1>h DEF TakeoverClosesDrained
  <1>7. QED
    BY <1>1, <1>2, <1>3, <1>4, <1>5, <1>6 DEF SlotInv

-----------------------------------------------------------------------------
(* Every step preserves SlotInv. *)
LEMMA SlotNext == SlotInv /\ [Next]_vars => SlotInv'
  <1> SUFFICES ASSUME SlotInv, [Next]_vars PROVE SlotInv'
    OBVIOUS
  <1>1. CASE QuietStep
    BY <1>1, QuietSlots
  <1>2. ASSUME NEW c \in Conns, NEW k \in AgentKey, DropRegistration(c, k) PROVE SlotInv'
    BY <1>2, DropSlots
  <1>3. ASSUME NEW c \in Conns, RegisterInsert(c) PROVE SlotInv'
    BY <1>3, InsertSlots
  <1>4. ASSUME NEW r \in Reqs, NEW t \in Tenants, NEW m \in Models, NEW x \in SUBSET Sids,
               Acquire(r, t, m, x)
        PROVE  SlotInv'
    BY <1>4, AcquireSlots
  <1>5. ASSUME NEW r \in Reqs, Evict(r) PROVE SlotInv'
    BY <1>5, EvictSlots
  <1>6. ASSUME NEW r \in Reqs, Release(r) PROVE SlotInv'
    BY <1>6, ReleaseSlots
  <1>7. ASSUME NEW r \in Reqs, KeepStep(r) PROVE SlotInv'
    BY <1>7, KeepSlots
  <1>8. CASE UNCHANGED vars
    <2>1. UNCHANGED <<nextSid, ent, table, inflight, req, task>>
      BY <1>8 DEF vars
    <2>2. TypeOK'
      BY <1>8 DEF SlotInv, TypeOK, vars
    <2>3. Issued' /\ TableSound' /\ CounterOfOneKey' /\ TaskSound'
      BY <2>1 DEF SlotInv, Issued, TableSound, CounterOfOneKey, TaskSound
    <2>4. ReqSound' /\ EvictClosesAlone' /\ TakeoverClosesDrained' /\ SlotAccounting'
      BY <2>1 DEF SlotInv, ReqSound, EvictClosesAlone, TakeoverClosesDrained, SlotAccounting,
                  Holders, Holds, CntOf
    <2>5. QED
      BY <2>2, <2>3, <2>4 DEF SlotInv
  <1>9. QED
    BY <1>1, <1>2, <1>3, <1>4, <1>5, <1>6, <1>7, <1>8
       DEF Next, ConnectionStep, RequestStep, EnvironmentStep, QuietStep, KeepStep

(* SlotInv is an invariant. *)
LEMMA SlotInvariance == Spec => []SlotInv
  <1>1. QED
    BY SlotInit, SlotNext, PTL DEF Spec

(* Type correctness: in particular no in-flight counter, a u32 in the code, is ever
   decremented below zero. *)
THEOREM TypeCorrect == Spec => []TypeOK
  <1>1. SlotInv => TypeOK
    BY DEF SlotInv
  <1>2. QED
    BY <1>1, SlotInvariance, PTL

(* The in-flight counters are exact (SlotAccounting) whatever registrations, takeovers,
   evictions and lost connections happen. *)
THEOREM CountersAreExact == Spec => []SlotAccounting
  <1>1. SlotInv => SlotAccounting
    BY DEF SlotInv
  <1>2. QED
    BY <1>1, SlotInvariance, PTL

(* An immediate close, by an eviction or by a takeover, never meets a request that was
   routed through the entry taken out of the table, other than the one reporting. *)
THEOREM ImmediateCloseIsSafe == Spec => []ClosesOnlyDrained
  <1>1. SlotInv => ClosesOnlyDrained
    BY DEF SlotInv, ClosesOnlyDrained
  <1>2. QED
    BY <1>1, SlotInvariance, PTL

-----------------------------------------------------------------------------
(* Ownership: who removes each entry, who closes each connection *)

(* Initially there are no entries to own. *)
LEMMA OwnerInit == Init => OwnerInv /\ TenantInv
  <1> SUFFICES ASSUME Init PROVE OwnerInv /\ TenantInv
    OBVIOUS
  <1> USE DEF Init
  <1>1. RegsSound /\ NoGhostEntry /\ NoZombie
    BY DEF RegsSound, NoGhostEntry, NoZombie, IdleTask
  <1>2. EntriesNoted /\ LeftSound
    BY ConstantsAssumption DEF EntriesNoted, LeftSound, Sids
  <1>3. TenantInv
    BY ConstantsAssumption DEF TenantInv, Sids, IdleTask, IdleReq, Holds
  <1>4. QED
    BY <1>1, <1>2, <1>3 DEF OwnerInv

(* An issued entry belongs to a connection and a key. *)
LEMMA IssuedEntry ==
    ASSUME SlotInv, NEW s \in Sids, s < nextSid
    PROVE  ent[s].conn \in Conns /\ ent[s].key \in AgentKey
  BY DEF SlotInv, Issued, Entries

(* What a task knows of the entry it replaces. *)
LEMMA OldEntry ==
    ASSUME SlotInv, NEW c \in Conns, task[c].pc \in {"inserted", "closing"}
    PROVE  /\ task[c].sid \in Sids /\ task[c].sid < nextSid /\ task[c].key \in AgentKey
           /\ ent[task[c].sid].conn = c /\ ent[task[c].sid].key = task[c].key
           /\ table[task[c].key] # 0 => table[task[c].key] >= task[c].sid
           /\ task[c].old # 0 => task[c].old \in Sids /\ task[c].old < nextSid
    BY ConstantsAssumption DEF SlotInv, TaskSound, TypeOK, Tasks, Sids

(* Closing a connection, a pending close or a request on its way to one keeps every
   doomed connection doomed when the entries of these stay. *)
LEMMA DoomedKept ==
    ASSUME NEW c \in Conns, Doomed(c),
           conn[c] = "closed" => conn'[c] = "closed",
           \A d \in deferred : d.conn = c => conn'[c] = "closed" \/ d \in deferred',
           \A r \in Reqs : req[r].pc \in {"closeNow", "closeLater"} /\ ent[req[r].sid].conn = c
               => \/ conn'[c] = "closed"
                  \/ \E d \in deferred' : d.conn = c
                  \/ req'[r] = req[r] /\ ent'[req[r].sid] = ent[req[r].sid],
           \A b \in Conns : task[b].pc \in {"inserted", "closing"} /\ task[b].old # 0
                                 /\ ent[task[b].old].conn = c
               => \/ conn'[c] = "closed"
                  \/ \E d \in deferred' : d.conn = c
                  \/ /\ task'[b].pc \in {"inserted", "closing"} /\ task'[b].old = task[b].old
                     /\ ent'[task[b].old] = ent[task[b].old]
    PROVE  Doomed(c)'
  <1>1. CASE conn[c] = "closed"
    BY <1>1 DEF Doomed
  <1>2. ASSUME NEW d \in deferred, d.conn = c PROVE Doomed(c)'
    BY <1>2 DEF Doomed
  <1>3. ASSUME NEW r \in Reqs, req[r].pc \in {"closeNow", "closeLater"}, ent[req[r].sid].conn = c
        PROVE  Doomed(c)'
    BY <1>3 DEF Doomed
  <1>4. ASSUME NEW b \in Conns, task[b].pc \in {"inserted", "closing"}, task[b].old # 0,
               ent[task[b].old].conn = c
        PROVE  Doomed(c)'
    BY <1>4 DEF Doomed
  <1>5. QED
    BY <1>1, <1>2, <1>3, <1>4 DEF Doomed

(* Nobody gives up an undertaking to close a connection. *)
LEMMA DoomedStays ==
    ASSUME SlotInv, RegsSound, [Next]_vars, NEW c \in Conns, Doomed(c)
    PROVE  Doomed(c)'
  <1>a. TypeOK /\ ReqSound /\ Issued
    BY DEF SlotInv
  <1>b. ASSUME NEW b \in Conns PROVE [conn EXCEPT ![b] = "closed"][c] \in {conn[c], "closed"}
    BY <1>a DEF TypeOK
  <1>c. ASSUME UNCHANGED <<ent, req, task>>, conn'[c] \in {conn[c], "closed"},
               \A d \in deferred : d.conn = c => conn'[c] = "closed" \/ d \in deferred'
        PROVE  Doomed(c)'
    BY <1>c, DoomedKept
  <1>d. ASSUME NEW b \in Conns, UNCHANGED <<ent, req, deferred>>, conn'[c] \in {conn[c], "closed"},
               task[b].pc \notin {"inserted", "closing"}, \A x \in Conns \ {b} : task'[x] = task[x]
        PROVE  Doomed(c)'
    BY <1>d, DoomedKept
  <1>e. ASSUME NEW r \in Reqs, UNCHANGED <<ent, task, deferred, conn>>,
               req[r].pc \notin {"closeNow", "closeLater"}, \A x \in Reqs \ {r} : req'[x] = req[x]
        PROVE  Doomed(c)'
    BY <1>e, DoomedKept
  <1>1. ASSUME NEW b \in Conns, Connect(b) PROVE Doomed(c)'
    <2>1. task[b].pc = "none" /\ conn[b] = "new"
      BY <1>1 DEF Connect, RegsSound
    <2>2. CASE conn[c] = "new"
      BY <1>1, <1>a, <2>1, <2>2, DoomedKept DEF Connect, TypeOK
    <2>3. CASE conn[c] # "new"
      BY <1>1, <1>a, <1>d, <2>1, <2>3 DEF Connect, TypeOK
    <2> QED
      BY <2>2, <2>3
  <1>2. ASSUME NEW b \in Conns,
               \/ \E t \in Tenants, a \in Agents, d \in Decls : ReadRegister(b, t, a, d)
               \/ \E t \in Tenants : RejectRegister(b, t)
               \/ RefuseRegistration(b) \/ TaskReturns(b) \/ DropDone(b)
        PROVE  Doomed(c)'
    BY <1>2, <1>a, <1>b, <1>d
       DEF ReadRegister, RejectRegister, RefuseRegistration, TaskReturns, DropDone, Close, TypeOK
  <1>3. ASSUME NEW b \in Conns, RegisterInsert(b) PROVE Doomed(c)'
    <2>1. /\ task[b].pc = "frame" /\ \A x \in Conns \ {b} : task'[x] = task[x]
          /\ \A s \in Sids : s < nextSid => ent'[s] = ent[s]
          /\ UNCHANGED <<conn, req, deferred>>
      BY <1>3, <1>a, ConstantsAssumption DEF RegisterInsert, TypeOK, Sids
    <2>2. \A r \in Reqs : Holds(r) => ent'[req[r].sid] = ent[req[r].sid]
      BY <1>a, <2>1 DEF ReqSound
    <2>3. \A x \in Conns : task[x].pc \in {"inserted", "closing"} /\ task[x].old # 0
                               => ent'[task[x].old] = ent[task[x].old]
      BY <2>1, OldEntry
    <2> QED
      BY <2>1, <2>2, <2>3, DoomedKept DEF Holds
  <1>4. ASSUME NEW b \in Conns, RegisterFirst(b) PROVE Doomed(c)'
    <2>1. /\ task[b].old = 0 /\ \A x \in Conns \ {b} : task'[x] = task[x]
          /\ UNCHANGED <<conn, ent, req, deferred>>
      BY <1>4, <1>a DEF RegisterFirst, NoteRegistration, TypeOK
    <2> QED
      BY <2>1, DoomedKept
  <1>5. ASSUME NEW b \in Conns, RegisterDispose(b) PROVE Doomed(c)'
    <2>1. /\ \A x \in Conns \ {b} : task'[x] = task[x]
          /\ deferred \subseteq deferred'
          /\ UNCHANGED <<conn, ent, req>>
      BY <1>5, <1>a DEF RegisterDispose, NoteRegistration, TypeOK
    <2>2. \/ task'[b].pc = "closing" /\ task'[b].old = task[b].old
          \/ \E d \in deferred' : d.conn = ent[task[b].old].conn
      <3>1. CASE task' = [task EXCEPT ![b].pc = "closing"]
        BY <1>a, <3>1 DEF TypeOK, Tasks
      <3>2. CASE deferred' = deferred \cup {[conn |-> ent[task[b].old].conn,
                                             cnt |-> ent[task[b].old].cnt]}
        <4>1. [conn |-> ent[task[b].old].conn, cnt |-> ent[task[b].old].cnt] \in deferred'
          BY <3>2
        <4> QED
          BY <4>1
      <3> QED
        BY <1>5, <3>1, <3>2 DEF RegisterDispose
    <2> QED
      BY <2>1, <2>2, DoomedKept
  <1>6. ASSUME NEW b \in Conns, RegisterClose(b) PROVE Doomed(c)'
    <2>1. /\ \A x \in Conns \ {b} : task'[x] = task[x]
          /\ conn' = [conn EXCEPT ![ent[task[b].old].conn] = "closed"]
          /\ UNCHANGED <<deferred, ent, req>>
      BY <1>6, <1>a DEF RegisterClose, NoteRegistration, TypeOK, Close
    <2>2. conn'[c] \in {conn[c], "closed"} /\ (ent[task[b].old].conn = c => conn'[c] = "closed")
      BY <1>a, <2>1 DEF TypeOK
    <2> QED
      BY <2>1, <2>2, DoomedKept
  <1>7. ASSUME \/ \E b \in Conns, k \in AgentKey : Heartbeat(b, k) \/ DropRegistration(b, k)
               \/ \E b \in Conns : PeerLost(b) \/ LastHandleDropped(b)
               \/ \E k \in AgentKey : GoStale(k)
        PROVE  Doomed(c)'
    BY <1>7, <1>b, <1>c DEF Heartbeat, DropRegistration, PeerLost, LastHandleDropped, GoStale, Close
  <1>8. ASSUME NEW d \in deferred, DeferredClose(d) PROVE Doomed(c)'
    <2>1. /\ conn'[c] \in {conn[c], "closed"} /\ (d.conn = c => conn'[c] = "closed")
          /\ deferred' = deferred \ {d} /\ UNCHANGED <<ent, req, task>>
      BY <1>8, <1>a DEF DeferredClose, Close, TypeOK
    <2> QED
      BY <2>1, <1>c
  <1>9. ASSUME NEW r \in Reqs,
               \/ \E t \in Tenants, m \in Models, x \in SUBSET Sids : Acquire(r, t, m, x)
               \/ StreamReady(r) \/ OpenTimeout(r) \/ SetupFailed(r) \/ HeadArrives(r)
               \/ HeadFails(r) \/ Evict(r) \/ Release(r)
        PROVE  Doomed(c)'
    <2>1. /\ req[r].pc \notin {"closeNow", "closeLater"} /\ UNCHANGED <<ent, task, deferred, conn>>
          /\ \A x \in Reqs \ {r} : req'[x] = req[x]
      BY <1>9, <1>a DEF Acquire, StreamReady, OpenTimeout, SetupFailed, HeadArrives, HeadFails,
                        Evict, Release, Goto, StrikeFor, TypeOK
    <2> QED
      BY <1>e, <2>1
  <1>10. ASSUME NEW r \in Reqs, EvictClose(r) PROVE Doomed(c)'
    <2>1. /\ \A x \in Reqs \ {r} : req'[x] = req[x]
          /\ deferred \subseteq deferred' /\ UNCHANGED <<ent, task>>
          /\ \/ conn' = [conn EXCEPT ![ent[req[r].sid].conn] = "closed"]
             \/ conn' = conn /\ \E d \in deferred' : d.conn = ent[req[r].sid].conn
      <3>1. \A x \in Reqs \ {r} : req'[x] = req[x]
        BY <1>10, <1>a DEF EvictClose, Goto, TypeOK
      <3>2. CASE Close(ent[req[r].sid].conn) /\ UNCHANGED deferred
        BY <1>10, <3>1, <3>2 DEF EvictClose, Close
      <3>3. CASE /\ UNCHANGED conn
                 /\ deferred' = deferred \cup {[conn |-> ent[req[r].sid].conn,
                                                cnt |-> ent[req[r].sid].cnt]}
        <4>1. [conn |-> ent[req[r].sid].conn, cnt |-> ent[req[r].sid].cnt] \in deferred'
          BY <3>3
        <4>2. \E d \in deferred' : d.conn = ent[req[r].sid].conn
          BY <4>1
        <4> QED
          BY <1>10, <3>1, <3>3, <4>2 DEF EvictClose
      <3> QED
        BY <1>10, <3>2, <3>3 DEF EvictClose
    <2>2. /\ conn'[c] \in {conn[c], "closed"}
          /\ ent[req[r].sid].conn = c =>
                conn'[c] = "closed" \/ \E d \in deferred' : d.conn = c
      BY <1>a, <2>1 DEF TypeOK
    <2> QED
      BY <2>1, <2>2, DoomedKept
  <1>11. CASE UNCHANGED vars
    BY <1>11, <1>c DEF vars
  <1> QED
    BY <1>1, <1>2, <1>3, <1>4, <1>5, <1>6, <1>7, <1>8, <1>9, <1>10, <1>11
       DEF Next, ConnectionStep, RequestStep, EnvironmentStep

(* Steps that leave the entries, the table and the notes alone. *)
LEMMA KeepOwner ==
    ASSUME SlotInv, OwnerInv, [Next]_vars, UNCHANGED <<nextSid, ent, table, regs>>,
           \A c \in Conns : conn'[c] = "new" => conn[c] = "new" /\ task'[c] = task[c],
           \A c \in Conns :
              \/ task'[c] = task[c]
              \/ /\ task[c].pc \in {"none", "loop", "frame"}
                 /\ task'[c].pc \in {"loop", "frame", "dropping"}
              \/ /\ task[c].pc = "dropping" /\ task'[c].pc = "ended"
                 /\ \A k \in AgentKey : regs[c][k] = 0
              \/ /\ task[c].pc = "inserted" /\ task'[c].pc = "closing"
                 /\ task'[c].sid = task[c].sid
    PROVE  OwnerInv'
  <1>a. RegsSound /\ EntriesNoted /\ LeftSound /\ NoGhostEntry /\ NoZombie
    BY DEF OwnerInv
  <1>b. \A c \in Conns : Doomed(c) => Doomed(c)'
    BY <1>a, DoomedStays
  <1>1. RegsSound'
    BY <1>a DEF RegsSound
  <1>2. EntriesNoted'
    BY <1>a, IssuedEntry DEF EntriesNoted
  <1>3. LeftSound'
    BY <1>a, <1>b, IssuedEntry DEF LeftSound
  <1>4. NoGhostEntry'
    <2> SUFFICES ASSUME NEW k \in AgentKey, table[k] # 0
                 PROVE  /\ task'[ent[table[k]].conn].pc \notin {"none", "ended"}
                        /\ \/ regs[ent[table[k]].conn][k] = table[k]
                           \/ /\ task'[ent[table[k]].conn].pc \in {"inserted", "closing"}
                              /\ task'[ent[table[k]].conn].sid = table[k]
      BY DEF NoGhostEntry
    <2>1. ent[table[k]].conn \in Conns
      BY IssuedEntry, BoundsAreNat DEF SlotInv, TableSound, TypeOK, Sids
    <2> QED
      BY <1>a, <2>1 DEF NoGhostEntry
  <1>5. NoZombie'
    BY <1>a, <1>b DEF NoZombie
  <1> QED
    BY <1>1, <1>2, <1>3, <1>4, <1>5 DEF OwnerInv

(* Noting a registration: what the table holds by now is this entry or a later one, and
   in the second case LeftSound says that the connection is doomed. *)
LEMMA NoteOwner ==
    ASSUME SlotInv, OwnerInv, [Next]_vars, NEW c \in Conns,
           task[c].pc \in {"inserted", "closing"}, NoteRegistration(c),
           UNCHANGED <<nextSid, ent, table>>,
           \A x \in Conns : conn'[x] = "new" => conn[x] = "new"
    PROVE  OwnerInv'
  <1>a. /\ RegsSound /\ EntriesNoted /\ LeftSound /\ NoGhostEntry /\ NoZombie
        /\ TypeOK /\ TableSound
    BY DEF OwnerInv, SlotInv
  <1>b. \A x \in Conns : Doomed(x) => Doomed(x)'
    BY <1>a, DoomedStays
  <1> DEFINE key == task[c].key
             sid == task[c].sid
  <1>c. /\ sid \in Sids /\ sid < nextSid /\ key \in AgentKey
        /\ ent[sid].conn = c /\ ent[sid].key = key
        /\ table[key] # 0 => table[key] >= sid
    BY OldEntry
  <1>d. /\ task'[c].pc = "loop" /\ \A x \in Conns \ {c} : task'[x] = task[x]
        /\ regs'[c][key] = sid
        /\ \A x \in Conns, k \in AgentKey : x # c \/ k # key => regs'[x][k] = regs[x][k]
    BY <1>a, <1>c DEF NoteRegistration, IdleTask, TypeOK
  <1>e. sid # 0
    BY <1>c DEF Sids
  <1> HIDE DEF key, sid
  <1>1. RegsSound'
    <2> SUFFICES ASSUME NEW x \in Conns
                 PROVE  /\ conn'[x] = "new" => task'[x].pc = "none"
                        /\ \A k \in AgentKey : regs'[x][k] # 0 =>
                              /\ regs'[x][k] < nextSid
                              /\ ent[regs'[x][k]].conn = x
                              /\ ent[regs'[x][k]].key = k
                              /\ task'[x].pc \notin {"none", "ended"}
                              /\ task'[x].pc \in {"inserted", "closing"} => regs'[x][k] < task'[x].sid
      BY DEF RegsSound
    <2>1. CASE x = c
      BY <1>a, <1>c, <1>d, <2>1 DEF RegsSound
    <2>2. CASE x # c
      BY <1>a, <1>d, <2>2 DEF RegsSound
    <2> QED
      BY <2>1, <2>2
  <1>2. EntriesNoted'
    <2> SUFFICES ASSUME NEW s \in Sids, s < nextSid
                 PROVE  \/ regs'[ent[s].conn][ent[s].key] # 0
                        \/ /\ task'[ent[s].conn].pc \in {"inserted", "closing"}
                           /\ task'[ent[s].conn].sid = s
                        \/ task'[ent[s].conn].pc \in {"dropping", "ended"}
      BY DEF EntriesNoted
    <2>1. ent[s].conn \in Conns /\ ent[s].key \in AgentKey
      BY IssuedEntry
    <2>2. \/ regs[ent[s].conn][ent[s].key] # 0
          \/ /\ task[ent[s].conn].pc \in {"inserted", "closing"}
             /\ task[ent[s].conn].sid = s
          \/ task[ent[s].conn].pc \in {"dropping", "ended"}
      BY <1>a DEF EntriesNoted
    <2>3. CASE ent[s].conn = c /\ ent[s].key = key
      BY <1>d, <1>e, <2>3
    <2>4. CASE ent[s].conn = c /\ ent[s].key # key
      BY <1>c, <1>d, <2>1, <2>2, <2>4 DEF sid
    <2>5. CASE ent[s].conn # c
      BY <1>d, <2>1, <2>2, <2>5
    <2> QED
      BY <2>3, <2>4, <2>5
  <1>3. LeftSound'
    BY <1>a, <1>b, <1>d, IssuedEntry DEF LeftSound
  <1>4. NoGhostEntry'
    <2> SUFFICES ASSUME NEW k \in AgentKey, table[k] # 0
                 PROVE  /\ task'[ent[table[k]].conn].pc \notin {"none", "ended"}
                        /\ \/ regs'[ent[table[k]].conn][k] = table[k]
                           \/ /\ task'[ent[table[k]].conn].pc \in {"inserted", "closing"}
                              /\ task'[ent[table[k]].conn].sid = table[k]
      BY DEF NoGhostEntry
    <2>1. ent[table[k]].conn \in Conns /\ ent[table[k]].key = k /\ table[k] \in Sids
      BY IssuedEntry, BoundsAreNat DEF SlotInv, TableSound, TypeOK, Sids
    <2>2. /\ task[ent[table[k]].conn].pc \notin {"none", "ended"}
          /\ \/ regs[ent[table[k]].conn][k] = table[k]
             \/ /\ task[ent[table[k]].conn].pc \in {"inserted", "closing"}
                /\ task[ent[table[k]].conn].sid = table[k]
      BY <1>a DEF NoGhostEntry
    <2>3. CASE ent[table[k]].conn = c /\ k = key
      <3>1. regs[c][k] # 0 => regs[c][k] < sid
        BY <1>a DEF RegsSound, sid
      <3>2. table[k] = sid
        BY <1>c, <2>1, <2>2, <2>3, <3>1 DEF sid, Sids
      <3> QED
        BY <1>d, <2>3, <3>2
    <2>4. CASE ent[table[k]].conn = c /\ k # key
      BY <1>c, <1>d, <2>1, <2>2, <2>4 DEF sid
    <2>5. CASE ent[table[k]].conn # c
      BY <1>d, <2>1, <2>2, <2>5
    <2> QED
      BY <2>3, <2>4, <2>5
  <1>5. NoZombie'
    <2> SUFFICES ASSUME NEW x \in Conns, NEW k \in AgentKey, regs'[x][k] # 0, table[k] # regs'[x][k]
                 PROVE  Doomed(x)
      BY <1>b DEF NoZombie
    <2>1. CASE x = c /\ k = key
      BY <1>a, <1>c, <1>d, <2>1 DEF LeftSound
    <2>2. CASE x # c \/ k # key
      BY <1>a, <1>d, <2>2 DEF NoZombie
    <2> QED
      BY <2>1, <2>2
  <1> QED
    BY <1>1, <1>2, <1>3, <1>4, <1>5 DEF OwnerInv

(* Registering: whoever held the key before is doomed by the takeover under way. *)
LEMMA InsertOwner ==
    ASSUME SlotInv, OwnerInv, [Next]_vars, NEW c \in Conns, RegisterInsert(c)
    PROVE  OwnerInv'
  <1>a. /\ RegsSound /\ EntriesNoted /\ LeftSound /\ NoGhostEntry /\ NoZombie
        /\ TypeOK /\ TableSound
    BY DEF OwnerInv, SlotInv
  <1>b. \A x \in Conns : Doomed(x) => Doomed(x)'
    BY <1>a, DoomedStays
  <1> DEFINE key == task[c].key
  <1>c. key \in AgentKey /\ task[c].pc = "frame" /\ nextSid \in Sids
    BY <1>a DEF RegisterInsert, SlotInv, TaskSound, TypeOK, Sids
  <1>d. /\ \A s \in Sids : s < nextSid => ent'[s] = ent[s]
        /\ ent'[nextSid].conn = c /\ ent'[nextSid].key = key
        /\ nextSid' = nextSid + 1
    BY <1>a, <1>c, ConstantsAssumption DEF RegisterInsert, TypeOK, Sids
  <1>e. table'[key] = nextSid /\ \A k \in AgentKey \ {key} : table'[k] = table[k]
    BY <1>a, <1>c DEF RegisterInsert, TypeOK
  <1>f. /\ task'[c].pc = "inserted" /\ task'[c].sid = nextSid /\ task'[c].old = table[key]
        /\ \A x \in Conns \ {c} : task'[x] = task[x]
        /\ UNCHANGED <<conn, regs>>
    BY <1>a DEF RegisterInsert, TypeOK, Tasks
  <1>g. \A s \in Sids : s < nextSid /\ table[key] = s => Doomed(ent[s].conn)'
    <2> SUFFICES ASSUME NEW s \in Sids, s < nextSid, table[key] = s PROVE Doomed(ent[s].conn)'
      OBVIOUS
    <2>1. s # 0 /\ ent'[task'[c].old].conn = ent[s].conn /\ ent'[s].conn = ent[s].conn
      BY <1>d, <1>f DEF Sids
    <2> QED
      BY <1>f, <2>1 DEF Doomed
  <1>h. \A s \in Sids : s < nextSid' => s < nextSid \/ s = nextSid
    BY <1>a, <1>d DEF TypeOK, Sids
  <1>i. nextSid \in Nat /\ nextSid # 0
    BY <1>a DEF TypeOK
  <1> HIDE DEF key
  <1>1. RegsSound'
    <2> SUFFICES ASSUME NEW x \in Conns
                 PROVE  /\ conn[x] = "new" => task'[x].pc = "none"
                        /\ \A k \in AgentKey : regs[x][k] # 0 =>
                              /\ regs[x][k] < nextSid'
                              /\ ent'[regs[x][k]].conn = x
                              /\ ent'[regs[x][k]].key = k
                              /\ task'[x].pc \notin {"none", "ended"}
                              /\ task'[x].pc \in {"inserted", "closing"} => regs[x][k] < task'[x].sid
      BY <1>f DEF RegsSound
    <2>1. \A k \in AgentKey : regs[x][k] # 0 =>
             regs[x][k] \in Sids /\ regs[x][k] < nextSid /\ regs[x][k] < nextSid'
      BY <1>a, <1>d, BoundsAreNat DEF RegsSound, TypeOK, Sids
    <2>2. CASE x = c
      BY <1>a, <1>c, <1>d, <1>f, <2>1, <2>2 DEF RegsSound
    <2>3. CASE x # c
      BY <1>a, <1>d, <1>f, <2>1, <2>3 DEF RegsSound
    <2> QED
      BY <2>2, <2>3
  <1>2. EntriesNoted'
    <2> SUFFICES ASSUME NEW s \in Sids, s < nextSid'
                 PROVE  \/ regs[ent'[s].conn][ent'[s].key] # 0
                        \/ /\ task'[ent'[s].conn].pc \in {"inserted", "closing"}
                           /\ task'[ent'[s].conn].sid = s
                        \/ task'[ent'[s].conn].pc \in {"dropping", "ended"}
      BY <1>f DEF EntriesNoted
    <2>1. CASE s = nextSid
      BY <1>d, <1>f, <2>1
    <2>2. CASE s < nextSid
      <3>1. ent'[s] = ent[s] /\ ent[s].conn \in Conns
        BY <1>d, <2>2, IssuedEntry
      <3> QED
        BY <1>a, <1>c, <1>f, <2>2, <3>1 DEF EntriesNoted
    <2> QED
      BY <1>h, <2>1, <2>2
  <1>3. LeftSound'
    <2> SUFFICES ASSUME NEW s \in Sids, s < nextSid'
                 PROVE  \/ table'[ent'[s].key] = s
                        \/ Doomed(ent[s].conn)'
                        \/ task'[ent'[s].conn].pc \in {"dropping", "ended"}
      BY DEF LeftSound
    <2>1. CASE s = nextSid
      BY <1>d, <1>e, <2>1
    <2>2. CASE s < nextSid
      <3>1. ent'[s] = ent[s] /\ ent[s].conn \in Conns /\ ent[s].key \in AgentKey
        BY <1>d, <2>2, IssuedEntry
      <3>2. CASE table[ent[s].key] = s /\ ent[s].key = key
        BY <1>g, <2>2, <3>2
      <3>3. CASE table[ent[s].key] = s /\ ent[s].key # key
        BY <1>e, <3>1, <3>3
      <3>4. CASE Doomed(ent[s].conn)
        <4>1. PICK x \in Conns : x = ent[s].conn
          BY <3>1
        <4>2. Doomed(x)'
          BY <1>b, <3>4, <4>1
        <4> QED
          BY <3>1, <4>1, <4>2
      <3>5. CASE task[ent[s].conn].pc \in {"dropping", "ended"}
        BY <1>c, <1>f, <3>1, <3>5
      <3> QED
        BY <1>a, <2>2, <3>2, <3>3, <3>4, <3>5 DEF LeftSound
    <2> QED
      BY <1>h, <2>1, <2>2
  <1>4. NoGhostEntry'
    <2> SUFFICES ASSUME NEW k \in AgentKey, table'[k] # 0
                 PROVE  /\ task'[ent'[table'[k]].conn].pc \notin {"none", "ended"}
                        /\ \/ regs[ent'[table'[k]].conn][k] = table'[k]
                           \/ /\ task'[ent'[table'[k]].conn].pc \in {"inserted", "closing"}
                              /\ task'[ent'[table'[k]].conn].sid = table'[k]
      BY <1>f DEF NoGhostEntry
    <2>1. CASE k = key
      BY <1>d, <1>e, <1>f, <2>1
    <2>2. CASE k # key
      <3>1. table'[k] = table[k] /\ table[k] \in Sids /\ table[k] < nextSid
        BY <1>a, <1>e, <2>2, BoundsAreNat DEF TableSound, TypeOK, Sids
      <3>2. ent'[table[k]] = ent[table[k]] /\ ent[table[k]].conn \in Conns
        BY <1>d, <3>1, IssuedEntry
      <3>3. table[k] # 0
        BY <3>1
      <3> QED
        BY <1>a, <1>c, <1>f, <3>1, <3>2, <3>3 DEF NoGhostEntry
    <2> QED
      BY <2>1, <2>2
  <1>5. NoZombie'
    <2> SUFFICES ASSUME NEW x \in Conns, NEW k \in AgentKey, regs[x][k] # 0, table'[k] # regs[x][k]
                 PROVE  Doomed(x)'
      BY <1>f DEF NoZombie
    <2>1. CASE table[k] # regs[x][k]
      BY <1>a, <1>b, <2>1 DEF NoZombie
    <2>2. CASE table[k] = regs[x][k]
      <3>1. k = key
        BY <1>e, <2>2
      <3>2. table[key] # 0 /\ ent[table[key]].conn = x /\ table[key] \in Sids /\ table[key] < nextSid
        BY <1>a, <2>2, <3>1, BoundsAreNat DEF RegsSound, TypeOK, Sids
      <3>3. ent'[task'[c].old].conn = x /\ task'[c].old # 0
        BY <1>d, <1>f, <3>2
      <3> QED
        BY <1>f, <3>3 DEF Doomed
    <2> QED
      BY <2>1, <2>2
  <1> QED
    BY <1>1, <1>2, <1>3, <1>4, <1>5 DEF OwnerInv

(* The Drop of a Registration takes out what the connection itself put in. *)
LEMMA DropOwner ==
    ASSUME SlotInv, OwnerInv, [Next]_vars, NEW c \in Conns, NEW key \in AgentKey,
           DropRegistration(c, key)
    PROVE  OwnerInv'
  <1>a. /\ RegsSound /\ EntriesNoted /\ LeftSound /\ NoGhostEntry /\ NoZombie
        /\ TypeOK /\ TableSound
    BY DEF OwnerInv, SlotInv
  <1>b. \A x \in Conns : Doomed(x) => Doomed(x)'
    BY <1>a, DoomedStays
  <1>c. task[c].pc = "dropping" /\ regs[c][key] # 0 /\ UNCHANGED <<nextSid, ent, conn, task>>
    BY DEF DropRegistration
  <1>d. /\ regs'[c][key] = 0
        /\ \A x \in Conns, k \in AgentKey : x # c \/ k # key => regs'[x][k] = regs[x][k]
    BY <1>a DEF DropRegistration, TypeOK
  <1>e. /\ \A k \in AgentKey \ {key} : table'[k] = table[k]
        /\ table[key] = regs[c][key] => table'[key] = 0
        /\ table[key] # regs[c][key] => table'[key] = table[key]
    BY <1>a DEF DropRegistration, TypeOK
  <1>f. ent[regs[c][key]].conn = c /\ ent[regs[c][key]].key = key
    BY <1>a, <1>c DEF RegsSound
  <1>1. RegsSound'
    BY <1>a, <1>c, <1>d DEF RegsSound
  <1>2. EntriesNoted'
    <2> SUFFICES ASSUME NEW s \in Sids, s < nextSid
                 PROVE  \/ regs'[ent[s].conn][ent[s].key] # 0
                        \/ /\ task[ent[s].conn].pc \in {"inserted", "closing"}
                           /\ task[ent[s].conn].sid = s
                        \/ task[ent[s].conn].pc \in {"dropping", "ended"}
      BY <1>c DEF EntriesNoted
    <2>1. ent[s].conn \in Conns /\ ent[s].key \in AgentKey
      BY IssuedEntry
    <2> QED
      BY <1>a, <1>c, <1>d, <2>1 DEF EntriesNoted
  <1>3. LeftSound'
    <2> SUFFICES ASSUME NEW s \in Sids, s < nextSid, table'[ent[s].key] # s
                 PROVE  \/ Doomed(ent[s].conn)'
                        \/ task[ent[s].conn].pc \in {"dropping", "ended"}
      BY <1>c DEF LeftSound
    <2>1. ent[s].conn \in Conns /\ ent[s].key \in AgentKey
      BY IssuedEntry
    <2>2. CASE table[ent[s].key] = s
      BY <1>c, <1>e, <1>f, <2>1, <2>2
    <2>3. CASE table[ent[s].key] # s
      BY <1>a, <1>b, <1>c, <2>1, <2>3 DEF LeftSound
    <2> QED
      BY <2>2, <2>3
  <1>4. NoGhostEntry'
    <2> SUFFICES ASSUME NEW k \in AgentKey, table'[k] # 0
                 PROVE  /\ task[ent[table'[k]].conn].pc \notin {"none", "ended"}
                        /\ \/ regs'[ent[table'[k]].conn][k] = table'[k]
                           \/ /\ task[ent[table'[k]].conn].pc \in {"inserted", "closing"}
                              /\ task[ent[table'[k]].conn].sid = table'[k]
      BY <1>c DEF NoGhostEntry
    <2>1. table'[k] = table[k] /\ (k = key => table[k] # regs[c][k])
      BY <1>e
    <2>2. ent[table[k]].conn \in Conns
      BY <2>1, IssuedEntry, BoundsAreNat DEF SlotInv, TableSound, TypeOK, Sids
    <2> QED
      BY <1>a, <1>c, <1>d, <2>1, <2>2 DEF NoGhostEntry
  <1>5. NoZombie'
    <2> SUFFICES ASSUME NEW x \in Conns, NEW k \in AgentKey, regs'[x][k] # 0, table'[k] # regs'[x][k]
                 PROVE  Doomed(x)
      BY <1>b DEF NoZombie
    <2>1. regs'[x][k] = regs[x][k] /\ (x # c \/ k # key)
      BY <1>d
    <2>2. table[k] # regs[x][k]
      BY <1>a, <1>e, <1>f, <2>1 DEF RegsSound
    <2> QED
      BY <1>a, <2>1, <2>2 DEF NoZombie
  <1> QED
    BY <1>1, <1>2, <1>3, <1>4, <1>5 DEF OwnerInv

(* An eviction has the reporting request close what it took out. *)
LEMMA EvictOwner ==
    ASSUME SlotInv, OwnerInv, [Next]_vars, NEW r \in Reqs, Evict(r),
           table' = [table EXCEPT ![ent[req[r].sid].key] = 0],
           table[ent[req[r].sid].key] = req[r].sid,
           req'[r].sid = req[r].sid, req'[r].pc \in {"closeNow", "closeLater"}
    PROVE  OwnerInv'
  <1> DEFINE key == ent[req[r].sid].key
             sid == req[r].sid
  <1>a. /\ RegsSound /\ EntriesNoted /\ LeftSound /\ NoGhostEntry /\ NoZombie
        /\ TypeOK /\ TableSound
    BY DEF OwnerInv, SlotInv
  <1>b. \A x \in Conns : Doomed(x) => Doomed(x)'
    BY <1>a, DoomedStays
  <1>c. UNCHANGED <<nextSid, ent, conn, task, regs>>
    BY DEF Evict
  <1>d. sid \in Sids /\ sid < nextSid /\ key \in AgentKey
    BY IssuedEntry DEF SlotInv, ReqSound, Holds, Evict
  <1>e. table[key] = sid /\ table'[key] = 0 /\ \A k \in AgentKey \ {key} : table'[k] = table[k]
    BY <1>a, <1>d DEF TypeOK
  <1>f. Doomed(ent[sid].conn)'
    BY <1>c DEF Doomed
  <1> HIDE DEF key, sid
  <1>1. RegsSound'
    BY <1>a, <1>c DEF RegsSound
  <1>2. EntriesNoted'
    BY <1>a, <1>c DEF EntriesNoted
  <1>3. LeftSound'
    <2> SUFFICES ASSUME NEW s \in Sids, s < nextSid, table'[ent[s].key] # s
                 PROVE  \/ Doomed(ent[s].conn)'
                        \/ task[ent[s].conn].pc \in {"dropping", "ended"}
      BY <1>c DEF LeftSound
    <2>1. ent[s].conn \in Conns /\ ent[s].key \in AgentKey
      BY IssuedEntry
    <2>2. CASE table[ent[s].key] = s
      <3>1. ent[s].key = key
        BY <1>e, <2>1, <2>2
      <3>2. s = sid
        BY <1>e, <2>2, <3>1
      <3> QED
        BY <1>f, <3>2 DEF sid
    <2>3. CASE table[ent[s].key] # s
      BY <1>a, <1>b, <1>c, <2>1, <2>3 DEF LeftSound
    <2> QED
      BY <2>2, <2>3
  <1>4. NoGhostEntry'
    BY <1>a, <1>c, <1>e DEF NoGhostEntry
  <1>5. NoZombie'
    <2> SUFFICES ASSUME NEW x \in Conns, NEW k \in AgentKey, regs[x][k] # 0, table'[k] # regs[x][k]
                 PROVE  Doomed(x)'
      BY <1>c DEF NoZombie
    <2>1. CASE table[k] # regs[x][k]
      BY <1>a, <1>b, <2>1 DEF NoZombie
    <2>2. CASE table[k] = regs[x][k]
      <3>1. k = key
        BY <1>e, <2>2
      <3>2. ent[sid].conn = x
        BY <1>a, <1>e, <2>2, <3>1 DEF RegsSound
      <3> QED
        BY <1>c, <1>f, <3>2 DEF sid
    <2> QED
      BY <2>1, <2>2
  <1> QED
    BY <1>1, <1>2, <1>3, <1>4, <1>5 DEF OwnerInv

(* Every step preserves OwnerInv. *)
LEMMA OwnerNext == SlotInv /\ OwnerInv /\ [Next]_vars => OwnerInv'
  <1> SUFFICES ASSUME SlotInv, OwnerInv, [Next]_vars PROVE OwnerInv'
    OBVIOUS
  <1>a. TypeOK /\ RegsSound
    BY DEF SlotInv, OwnerInv
  <1>1. ASSUME NEW c \in Conns, Connect(c) PROVE OwnerInv'
    <2>1. /\ UNCHANGED <<nextSid, ent, table, regs>>
          /\ task[c].pc = "none" /\ task'[c].pc = "loop" /\ conn'[c] = "open"
          /\ \A x \in Conns \ {c} : task'[x] = task[x] /\ conn'[x] = conn[x]
      BY <1>1, <1>a DEF Connect, IdleTask, TypeOK, RegsSound
    <2> QED
      BY <2>1, KeepOwner
  <1>2. ASSUME NEW c \in Conns,
               \/ \E t \in Tenants, a \in Agents, d \in Decls : ReadRegister(c, t, a, d)
               \/ \E t \in Tenants : RejectRegister(c, t)
               \/ RefuseRegistration(c) \/ TaskReturns(c)
        PROVE  OwnerInv'
    <2>1. /\ UNCHANGED <<nextSid, ent, table, regs>>
          /\ task[c].pc \in {"loop", "frame"} /\ task'[c].pc \in {"loop", "frame", "dropping"}
          /\ \A x \in Conns \ {c} : task'[x] = task[x]
          /\ \A x \in Conns : conn'[x] \in {conn[x], "closed"}
      <3>1. ASSUME NEW t \in Tenants, NEW a \in Agents, NEW d \in Decls, ReadRegister(c, t, a, d)
            PROVE  task[c].pc = "loop" /\ task'[c].pc = "frame"
        BY <1>a, <3>1 DEF ReadRegister, TypeOK
      <3>2. ASSUME NEW t \in Tenants, RejectRegister(c, t)
            PROVE  task[c].pc = "loop" /\ task'[c].pc = "dropping"
        BY <1>a, <3>2 DEF RejectRegister, IdleTask, TypeOK
      <3>3. ASSUME RefuseRegistration(c) PROVE task[c].pc = "frame" /\ task'[c].pc = "loop"
        BY <1>a, <3>3 DEF RefuseRegistration, IdleTask, TypeOK
      <3>4. ASSUME TaskReturns(c) PROVE task[c].pc = "loop" /\ task'[c].pc = "dropping"
        BY <1>a, <3>4 DEF TaskReturns, IdleTask, TypeOK
      <3>5. \A x \in Conns \ {c} : task'[x] = task[x]
        BY <1>2, <1>a DEF ReadRegister, RejectRegister, RefuseRegistration, TaskReturns, TypeOK
      <3>6. \A x \in Conns : conn'[x] \in {conn[x], "closed"}
        BY <1>2, <1>a DEF ReadRegister, RejectRegister, RefuseRegistration, TaskReturns, Close, TypeOK
      <3>7. UNCHANGED <<nextSid, ent, table, regs>>
        BY <1>2 DEF ReadRegister, RejectRegister, RefuseRegistration, TaskReturns
      <3> QED
        BY <1>2, <3>1, <3>2, <3>3, <3>4, <3>5, <3>6, <3>7
    <2>2. \A x \in Conns : conn'[x] = "new" => conn[x] = "new" /\ task'[x] = task[x]
      BY <1>a, <2>1 DEF RegsSound
    <2> QED
      BY <2>1, <2>2, KeepOwner
  <1>3. ASSUME NEW c \in Conns, DropDone(c) PROVE OwnerInv'
    <2>1. /\ UNCHANGED <<nextSid, ent, table, regs, conn>>
          /\ task[c].pc = "dropping" /\ task'[c].pc = "ended"
          /\ \A x \in Conns \ {c} : task'[x] = task[x]
          /\ \A k \in AgentKey : regs[c][k] = 0
      BY <1>3, <1>a DEF DropDone, Registered, IdleTask, TypeOK
    <2>2. \A x \in Conns : conn'[x] = "new" => conn[x] = "new" /\ task'[x] = task[x]
      BY <1>a, <2>1 DEF RegsSound
    <2> QED
      BY <2>1, <2>2, KeepOwner
  <1>4. ASSUME NEW c \in Conns, RegisterInsert(c) PROVE OwnerInv'
    BY <1>4, InsertOwner
  <1>5. ASSUME NEW c \in Conns, RegisterFirst(c) PROVE OwnerInv'
    BY <1>5, NoteOwner DEF RegisterFirst
  <1>6. ASSUME NEW c \in Conns, RegisterDispose(c) PROVE OwnerInv'
    <2>1. CASE NoteRegistration(c)
      BY <1>6, <2>1, NoteOwner DEF RegisterDispose
    <2>2. CASE task' = [task EXCEPT ![c].pc = "closing"] /\ UNCHANGED regs
      <3>1. /\ UNCHANGED <<nextSid, ent, table, regs, conn>>
            /\ task[c].pc = "inserted" /\ task'[c].pc = "closing" /\ task'[c].sid = task[c].sid
            /\ \A x \in Conns \ {c} : task'[x] = task[x]
        BY <1>6, <1>a, <2>2 DEF RegisterDispose, TypeOK, Tasks
      <3>2. \A x \in Conns : conn'[x] = "new" => conn[x] = "new" /\ task'[x] = task[x]
        BY <1>a, <3>1 DEF RegsSound
      <3> QED
        BY <3>1, <3>2, KeepOwner
    <2> QED
      BY <1>6, <2>1, <2>2 DEF RegisterDispose
  <1>7. ASSUME NEW c \in Conns, RegisterClose(c) PROVE OwnerInv'
    <2>1. \A x \in Conns : conn'[x] = "new" => conn[x] = "new"
      BY <1>7, <1>a DEF RegisterClose, Close, TypeOK
    <2> QED
      BY <1>7, <2>1, NoteOwner DEF RegisterClose
  <1>8. ASSUME NEW c \in Conns, NEW k \in AgentKey, DropRegistration(c, k) PROVE OwnerInv'
    BY <1>8, DropOwner
  <1>9. ASSUME UNCHANGED <<nextSid, ent, table, regs, task>>,
               \A x \in Conns : conn'[x] \in {conn[x], "closed"}
        PROVE  OwnerInv'
    BY <1>9, KeepOwner
  <1>10. ASSUME \/ \E c \in Conns, k \in AgentKey : Heartbeat(c, k)
                \/ \E c \in Conns : PeerLost(c) \/ LastHandleDropped(c)
                \/ \E k \in AgentKey : GoStale(k)
                \/ \E d \in deferred : DeferredClose(d)
         PROVE  OwnerInv'
    BY <1>10, <1>9, <1>a DEF Heartbeat, PeerLost, LastHandleDropped, GoStale, DeferredClose, Close, TypeOK
  <1>11. ASSUME NEW r \in Reqs,
                \/ \E t \in Tenants, m \in Models, x \in SUBSET Sids : Acquire(r, t, m, x)
                \/ StreamReady(r) \/ OpenTimeout(r) \/ SetupFailed(r) \/ HeadArrives(r)
                \/ HeadFails(r) \/ EvictClose(r) \/ Release(r)
         PROVE  OwnerInv'
    BY <1>11, <1>9, <1>a DEF Acquire, StreamReady, OpenTimeout, SetupFailed, HeadArrives, HeadFails,
                        EvictClose, Release, Close, TypeOK
  <1>12. ASSUME NEW r \in Reqs, Evict(r) PROVE OwnerInv'
    <2>1. CASE UNCHANGED table
      BY <1>12, <1>9, <2>1 DEF Evict
    <2>2. CASE /\ table[ent[req[r].sid].key] = req[r].sid
               /\ table' = [table EXCEPT ![ent[req[r].sid].key] = 0]
               /\ Goto(r, IF CallerAlone(req[r].sid) THEN "closeNow" ELSE "closeLater")
      <3>1. req'[r].sid = req[r].sid /\ req'[r].pc \in {"closeNow", "closeLater"}
        BY <1>a, <2>2 DEF Goto, TypeOK, Requests
      <3> QED
        BY <1>12, <2>2, <3>1, EvictOwner
    <2> QED
      BY <1>12, <2>1, <2>2 DEF Evict
  <1>13. CASE UNCHANGED vars
    BY <1>9, <1>13 DEF vars
  <1> QED
    BY <1>1, <1>2, <1>3, <1>4, <1>5, <1>6, <1>7, <1>8, <1>10, <1>11, <1>12, <1>13
       DEF Next, ConnectionStep, RequestStep, EnvironmentStep

-----------------------------------------------------------------------------
(* Tenants *)

(* A step that issues no entry keeps TenantInv when its registrations and requests do. *)
LEMMA KeepTenant ==
    ASSUME TenantInv, UNCHANGED <<nextSid, ent>>,
           \A c \in Conns : task'[c].pc = "frame" =>
               task'[c] = task[c] \/ Proved(c, task'[c].key.tenant),
           \A r \in Reqs : req'[r].pc # "idle" =>
               \/ /\ req[r].pc # "idle" /\ req'[r].sid = req[r].sid
                  /\ req'[r].tenant = req[r].tenant
               \/ req'[r].tenant = ent[req'[r].sid].key.tenant
    PROVE  TenantInv'
  BY DEF TenantInv, Holds, Proved

(* The check against the keys noted so far is enough: a task that reads a frame has
   noted every entry it made. *)
LEMMA InsertTenant ==
    ASSUME SlotInv, OwnerInv, TenantInv, NEW c \in Conns, RegisterInsert(c)
    PROVE  TenantInv'
  <1>a. TypeOK /\ EntriesNoted /\ ReqSound
    BY DEF SlotInv, OwnerInv
  <1> DEFINE key == task[c].key
  <1>b. key \in AgentKey /\ task[c].pc = "frame" /\ nextSid \in Sids
    BY <1>a DEF RegisterInsert, SlotInv, TaskSound, TypeOK, Sids
  <1>c. /\ \A s \in Sids : s < nextSid => ent'[s] = ent[s]
        /\ ent'[nextSid].conn = c /\ ent'[nextSid].key = key
        /\ nextSid' = nextSid + 1
    BY <1>a, <1>b, ConstantsAssumption DEF RegisterInsert, TypeOK, Sids
  <1>d. \A x \in Conns : task'[x].pc = "frame" => task'[x] = task[x]
    BY <1>a DEF RegisterInsert, TypeOK, Tasks
  <1>e. UNCHANGED req /\ \A k \in AgentKey : regs[c][k] # 0 => k.tenant = key.tenant
    BY DEF RegisterInsert, AcceptsForTenant, Registered
  <1>f. \A s \in Sids : s < nextSid' => s < nextSid \/ s = nextSid
    BY <1>a, <1>c DEF TypeOK, Sids
  <1>g. \A s \in Sids : s < nextSid /\ ent[s].conn = c => ent[s].key.tenant = key.tenant
    <2> SUFFICES ASSUME NEW s \in Sids, s < nextSid, ent[s].conn = c
                 PROVE  ent[s].key.tenant = key.tenant
      OBVIOUS
    <2>1. regs[c][ent[s].key] # 0
      BY <1>a, <1>b DEF EntriesNoted
    <2>2. ent[s].key \in AgentKey
      BY IssuedEntry
    <2> QED
      BY <1>e, <2>1, <2>2
  <1>h. Proved(c, key.tenant)
    BY <1>b DEF TenantInv
  <1> HIDE DEF key
  <1>1. ASSUME NEW s \in Sids, s < nextSid' PROVE Proved(ent'[s].conn, ent'[s].key.tenant)
    BY <1>1, <1>c, <1>f, <1>h DEF TenantInv
  <1>2. ASSUME NEW x \in Conns, task'[x].pc = "frame" PROVE Proved(x, task'[x].key.tenant)
    BY <1>2, <1>d DEF TenantInv
  <1>3. ASSUME NEW s \in Sids, NEW z \in Sids, s < nextSid', z < nextSid', ent'[s].conn = ent'[z].conn
        PROVE  ent'[s].key.tenant = ent'[z].key.tenant
    <2>1. CASE s < nextSid /\ z < nextSid
      BY <1>3, <1>c, <2>1 DEF TenantInv
    <2>2. CASE s = nextSid /\ z < nextSid
      BY <1>3, <1>c, <1>g, <2>2
    <2>3. CASE s < nextSid /\ z = nextSid
      BY <1>3, <1>c, <1>g, <2>3
    <2>4. CASE s = nextSid /\ z = nextSid
      BY <2>4
    <2> QED
      BY <1>3, <1>f, <2>1, <2>2, <2>3, <2>4
  <1>4. ASSUME NEW r \in Reqs, Holds(r)' PROVE req'[r].tenant = ent'[req'[r].sid].key.tenant
    <2>1. Holds(r) /\ req'[r] = req[r]
      BY <1>4, <1>e DEF Holds
    <2>2. ent'[req[r].sid] = ent[req[r].sid]
      BY <1>a, <1>c, <2>1 DEF ReqSound
    <2> QED
      BY <2>1, <2>2 DEF TenantInv
  <1> QED
    BY <1>1, <1>2, <1>3, <1>4 DEF TenantInv, Proved

(* Every step preserves TenantInv. *)
LEMMA TenantNext == SlotInv /\ OwnerInv /\ TenantInv /\ [Next]_vars => TenantInv'
  <1> SUFFICES ASSUME SlotInv, OwnerInv, TenantInv, [Next]_vars PROVE TenantInv'
    OBVIOUS
  <1>a. TypeOK /\ TableSound
    BY DEF SlotInv
  <1>1. ASSUME NEW c \in Conns, NEW t \in Tenants, NEW a \in Agents, NEW d \in Decls,
               ReadRegister(c, t, a, d)
        PROVE  TenantInv'
    <2>1. /\ UNCHANGED <<nextSid, ent, req>> /\ \A x \in Conns \ {c} : task'[x] = task[x]
          /\ task'[c].key = [tenant |-> t, agent |-> a, ip |-> PeerIp[c]]
          /\ Proved(c, t)
      BY <1>1, <1>a DEF ReadRegister, TypeOK, Proved
    <2>2. task'[c].key.tenant = t
      BY <2>1
    <2> QED
      BY <2>1, <2>2, KeepTenant
  <1>2. ASSUME NEW c \in Conns,
               \/ Connect(c) \/ \E t \in Tenants : RejectRegister(c, t)
               \/ RefuseRegistration(c) \/ TaskReturns(c) \/ DropDone(c)
               \/ RegisterFirst(c) \/ RegisterDispose(c) \/ RegisterClose(c)
        PROVE  TenantInv'
    <2>1. UNCHANGED <<nextSid, ent, req>>
      BY <1>2 DEF Connect, RejectRegister, RefuseRegistration, TaskReturns, DropDone,
                  RegisterFirst, RegisterDispose, RegisterClose
    <2>2. \A x \in Conns \ {c} : task'[x] = task[x]
      BY <1>2, <1>a DEF Connect, RejectRegister, RefuseRegistration, TaskReturns, DropDone,
                  RegisterFirst, RegisterDispose, RegisterClose, NoteRegistration, TypeOK
    <2>3. task'[c].pc # "frame"
      <3>1. CASE \E pc \in {"loop", "dropping", "ended"} : task' = [task EXCEPT ![c] = IdleTask(pc)]
        BY <1>a, <3>1 DEF IdleTask, TypeOK
      <3>2. CASE task' = [task EXCEPT ![c].pc = "closing"]
        BY <1>a, <3>2 DEF TypeOK, Tasks
      <3> QED
        BY <1>2, <3>1, <3>2
           DEF Connect, RejectRegister, RefuseRegistration, TaskReturns, DropDone,
               RegisterFirst, RegisterDispose, RegisterClose, NoteRegistration
    <2> QED
      BY <2>1, <2>2, <2>3, KeepTenant
  <1>3. ASSUME NEW c \in Conns, RegisterInsert(c) PROVE TenantInv'
    BY <1>3, InsertTenant
  <1>4. ASSUME \/ \E c \in Conns, k \in AgentKey : Heartbeat(c, k) \/ DropRegistration(c, k)
               \/ \E c \in Conns : PeerLost(c) \/ LastHandleDropped(c)
               \/ \E k \in AgentKey : GoStale(k)
               \/ \E d \in deferred : DeferredClose(d)
        PROVE  TenantInv'
    BY <1>4, KeepTenant DEF Heartbeat, DropRegistration, PeerLost, LastHandleDropped, GoStale, DeferredClose
  <1>5. ASSUME NEW r \in Reqs, NEW t \in Tenants, NEW m \in Models, NEW x \in SUBSET Sids,
               Acquire(r, t, m, x)
        PROVE  TenantInv'
    <2>1. PICK k \in Candidates(t, m, x) :
             req' = [req EXCEPT ![r] =
                        [pc |-> "setup", sid |-> table[k], tenant |-> t, cause |-> "none"]]
      BY <1>5 DEF Acquire
    <2>2. ent[table[k]].key.tenant = t
      BY <1>a DEF Candidates, TableSound
    <2>3. /\ req'[r].tenant = t /\ req'[r].sid = table[k]
          /\ \A q \in Reqs \ {r} : req'[q] = req[q]
          /\ UNCHANGED <<nextSid, ent, task>>
      BY <1>5, <1>a, <2>1 DEF Acquire, TypeOK
    <2> QED
      BY <2>2, <2>3, KeepTenant
  <1>6. ASSUME NEW r \in Reqs, NEW pc \in ReqPcs, NEW cause, UNCHANGED <<nextSid, ent, task>>,
               req' = [req EXCEPT ![r].pc = pc, ![r].cause = cause], req[r].pc # "idle"
        PROVE  TenantInv'
    <2>1. /\ req'[r].tenant = req[r].tenant /\ req'[r].sid = req[r].sid
          /\ \A q \in Reqs \ {r} : req'[q] = req[q]
      BY <1>6, <1>a DEF TypeOK, Requests
    <2> QED
      BY <1>6, <2>1, KeepTenant
  <1>7. ASSUME NEW r \in Reqs,
               \/ StreamReady(r) \/ OpenTimeout(r) \/ SetupFailed(r) \/ HeadArrives(r)
               \/ HeadFails(r) \/ EvictClose(r) \/ Evict(r)
        PROVE  TenantInv'
    BY <1>7, <1>6 DEF StreamReady, OpenTimeout, SetupFailed, HeadArrives, HeadFails,
                        EvictClose, Evict, Goto, StrikeFor, ReqPcs
  <1>8. ASSUME NEW r \in Reqs, Release(r) PROVE TenantInv'
    <2>1. /\ req'[r].pc = "idle" /\ \A q \in Reqs \ {r} : req'[q] = req[q]
          /\ UNCHANGED <<nextSid, ent, task>>
      BY <1>8, <1>a DEF Release, IdleReq, TypeOK
    <2> QED
      BY <2>1, KeepTenant
  <1>9. CASE UNCHANGED vars
    BY <1>9, KeepTenant DEF vars
  <1> QED
    BY <1>1, <1>2, <1>3, <1>4, <1>5, <1>7, <1>8, <1>9
       DEF Next, ConnectionStep, RequestStep, EnvironmentStep

(* The three are an invariant. *)
LEMMA OwnerInvariance == Spec => [](SlotInv /\ OwnerInv /\ TenantInv)
  <1>1. Init => SlotInv /\ OwnerInv /\ TenantInv
    BY SlotInit, OwnerInit
  <1>2. SlotInv /\ OwnerInv /\ TenantInv /\ [Next]_vars => (SlotInv /\ OwnerInv /\ TenantInv)'
    BY SlotNext, OwnerNext, TenantNext
  <1> QED
    BY <1>1, <1>2, PTL DEF Spec

(* The table and the connection tasks agree in every reachable state: no entry outlives
   the task that removes it, and no connection that lost its entry is left without
   somebody who has undertaken to close it (table.rs, eviction.rs). *)
THEOREM EveryEntryHasAnOwner == Spec => []TableIsOwned
  <1>1. OwnerInv => TableIsOwned
    BY DEF OwnerInv, TableIsOwned
  <1> QED
    BY <1>1, OwnerInvariance, PTL

(* A request the node's current entry does not count is on a connection that will be
   closed or whose task is at its end (table.rs: the counter is handed on). *)
THEOREM UncountedIsDoomed == Spec => []UncountedOnlyWhenDoomed
  <1>1. SlotInv /\ OwnerInv => UncountedOnlyWhenDoomed
    BY DEF SlotInv, OwnerInv, LeftSound, ReqSound, UncountedOnlyWhenDoomed
  <1> QED
    BY <1>1, OwnerInvariance, PTL

(* No request is carried by a connection of another tenant, whatever the connections
   register, replace and lose (protocol.rs, registration.rs, routing.rs). *)
THEOREM TenantsAreIsolated == Spec => []TenantIsolation
  <1>1. ASSUME SlotInv, TenantInv PROVE TenantIsolation
    <2> SUFFICES ASSUME NEW r \in Reqs, Holds(r)
                 PROVE  /\ Proved(ent[req[r].sid].conn, req[r].tenant)
                        /\ \A s \in Sids : ent[s].conn = ent[req[r].sid].conn
                               => ent[s].key.tenant = req[r].tenant
      BY DEF TenantIsolation, Proved
    <2>1. /\ req[r].sid \in Sids /\ req[r].sid < nextSid
          /\ req[r].tenant = ent[req[r].sid].key.tenant
      BY <1>1 DEF SlotInv, ReqSound, TenantInv
    <2>2. ASSUME NEW s \in Sids, ent[s].conn = ent[req[r].sid].conn
          PROVE  ent[s].key.tenant = req[r].tenant
      <3>1. ent[req[r].sid].conn \in Conns
        BY <1>1, <2>1, IssuedEntry
      <3>2. s < nextSid
        <4>1. s >= nextSid => ent[s] = NoEnt
          BY <1>1 DEF SlotInv, Issued
        <4>2. nextSid \in Int /\ s \in Int
          BY <1>1 DEF SlotInv, TypeOK, Sids
        <4> QED
          BY <2>2, <3>1, <4>1, <4>2, ConstantsAssumption DEF NoEnt
      <3> QED
        BY <1>1, <2>1, <2>2, <3>2 DEF TenantInv
    <2> QED
      BY <1>1, <2>1, <2>2 DEF TenantInv
  <1>2. SlotInv /\ TenantInv => TenantIsolation
    BY <1>1
  <1> QED
    BY <1>2, OwnerInvariance, PTL
=============================================================================
