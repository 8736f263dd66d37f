-------------------------- MODULE LifecycleProofs --------------------------
(***************************************************************************)
(* Proofs about a gateway's life.  Startup, for every configuration,      *)
(* database and number of keys: a start is all or nothing, and the         *)
(* migration loses no key.  UsageStore, for every set of keys and any      *)
(* number of requests, crashes and restarts: no total goes back, nothing   *)
(* is counted twice.  Shutdown, for every set of requests: what ended      *)
(* regularly before the final flush is in the database when shutdown()     *)
(* returns, and a response that is cut was announced.                      *)
(***************************************************************************)
EXTENDS Shutdown, Startup, UsageStore, TLAPS

(* Shutdown *)

Flushed == {"flush", "flushing", "abort", "done"}

(* The final flush has not begun before its turn; it writes what had ended, because a
   body ends only once its usage is settled and `ended' grows only before the flush. *)
FlushSound ==
    /\ ended \subseteq settled
    /\ step \in {"serving", "drain", "check", "window", "flush", "dropped"} => flush.at = "none"
    /\ flush.at \in {"running", "done"} => ended \subseteq flush.batch
    /\ flush.at = "done" => flush.batch \subseteq written

(* Past the check the phase is Terminating, or every active request came in after it. *)
AnnouncedOrLate ==
    /\ step \in Flushed \cup {"window"} /\ phase # "Terminating" => Active \subseteq late
    /\ step = "window" => phase = "Terminating"

(* The forwarding task is spawned when the body takes the ticket. *)
NoTaskBeforeHead == \A r \in Requests : ticket[r] \in {"none", "handler"} => fwd[r] = "none"

Inv == TypeOK /\ FlushSound /\ AnnouncedOrLate /\ NoTaskBeforeHead

-----------------------------------------------------------------------------
(* Nothing has happened yet: no flush, no request and no usage (gateway.rs). *)
LEMMA InitInv == Init => Inv
BY DEF Init, Inv, TypeOK, FlushSound, AnnouncedOrLate, NoTaskBeforeHead, Active,
       Flushed

(* Every step of a request, of the flush and of shutdown() keeps the record of what is
   settled, flushed and announced sound (gateway.rs, task_scope.rs). *)
LEMMA NextInv == Inv /\ [Next]_vars => Inv'
<1> SUFFICES ASSUME Inv, [Next]_vars PROVE Inv'
    OBVIOUS
<1> USE DEF Inv, TypeOK, FlushSound, AnnouncedOrLate, NoTaskBeforeHead, Active, Flushed
<1>1. ASSUME NEW r \in Requests, Enter(r) PROVE Inv'
    BY <1>1 DEF Enter, Ticket, Stopped
<1>2. ASSUME NEW r \in Requests, HandlerEnds(r) PROVE Inv'
    BY <1>2 DEF HandlerEnds, Ticket, Stopped
<1>3. ASSUME NEW r \in Requests, HeadArrives(r) PROVE Inv'
    BY <1>3 DEF HeadArrives, Ticket, Forward, Stopped
<1>4. ASSUME NEW r \in Requests, UpstreamEnds(r) PROVE Inv'
    BY <1>4 DEF UpstreamEnds, Forward
<1>5. ASSUME NEW r \in Requests, Abandons(r) PROVE Inv'
    BY <1>5 DEF Abandons, Forward
<1>6. ASSUME NEW r \in Requests, Settles(r) PROVE Inv'
    BY <1>6 DEF Settles, Forward
<1>7. ASSUME NEW r \in Requests, BodyEnds(r) PROVE Inv'
    BY <1>7 DEF BodyEnds, Ticket, Stopped, BeforeFlush
<1>8. ASSUME NEW r \in Requests, BodyDropped(r) PROVE Inv'
    BY <1>8 DEF BodyDropped, Ticket, Stopped
<1>9. CASE PeriodicFlush
    BY <1>9 DEF PeriodicFlush
<1>10. CASE FlushSnapshot
    BY <1>10 DEF FlushSnapshot
<1>11. CASE FlushEnds
    BY <1>11 DEF FlushEnds
<1>12. CASE BeginDrain
    BY <1>12 DEF BeginDrain
<1>13. CASE DrainEnds \/ Check \/ WindowEnds
    BY <1>13 DEF DrainEnds, Check, WindowEnds
<1>14. CASE FlushBegins \/ FlushAwaited
    BY <1>14 DEF FlushBegins, FlushAwaited
<1>15. CASE Abort \/ GatewayDropped
    BY <1>15 DEF Abort, GatewayDropped, AbortAll, Live
<1>16. CASE UNCHANGED vars
    BY <1>16 DEF vars
<1>17. QED
    BY <1>1, <1>2, <1>3, <1>4, <1>5, <1>6, <1>7, <1>8, <1>9, <1>10, <1>11, <1>12, <1>13,
       <1>14, <1>15, <1>16 DEF Next, ShutdownStep

-----------------------------------------------------------------------------
(* A successful final flush holds the usage of every response that ended regularly
   before it (gateway.rs: the flush comes after the drain). *)
THEOREM EndedBodiesAreBilled == Spec => []EndedIsBilled
<1>1. Inv => EndedIsBilled
    BY DEF Inv, FlushSound, EndedIsBilled
<1>2. QED
    BY InitInv, NextInv, <1>1, PTL DEF Spec

(* A response that abort_all cuts while its client waits was told to finish first, or
   came in after the drain (gateway.rs). *)
THEOREM CutsAreAnnounced == Spec => []CutWasAnnounced
<1>1. Inv => CutWasAnnounced
    BY DEF Inv, AnnouncedOrLate, CutWasAnnounced, Active, Flushed
<1>2. QED
    BY InitInv, NextInv, <1>1, PTL DEF Spec

-----------------------------------------------------------------------------
(* Startup *)

BeforeOpen  == {"down", "validate", "open"}
InDb        == {"columns", "migrate", "load"}
AfterCheck  == {"pki", "https", "nofile", "bind_quic", "bind_http", "spawn", "await", "ready"}
Served      == {"await", "ready"}

Tables == [form : {"none", "plain", "hashed"}, columns : SUBSET Columns, rows : SUBSET Ids]

(* the types of what the start reads and writes; a database without tables has no keys *)
StartTypeOK ==
    /\ at \in BeforeOpen \cup InDb \cup AfterCheck \cup {"check", "failed"}
    /\ table \in Tables /\ (table.form = "none" => table.rows = {})
    /\ staged \in [at : {"none", "read", "written"}, rows : SUBSET Ids]
    /\ persistence \in {"memory", "ok", "error"}
    /\ bound \in SUBSET Ports

(* the transaction of the migration holds the rows that are still on disk *)
TxSound ==
    /\ staged.at # "none" => at = "migrate" /\ staged.rows = table.rows
    /\ at \in InDb => opts.keys_file
    /\ at = "migrate" => table.columns = Columns

(* memory and disk agree from the load on, unless an error was noted *)
LoadSound ==
    /\ at = "load" => table.form = "hashed" /\ table.columns = Columns
    /\ at \in AfterCheck => persistence # "error"
    /\ (at \in {"check"} \cup AfterCheck /\ opts.keys_file /\ persistence # "error")
          => memory = table.rows /\ table.form = "hashed" /\ table.columns = Columns

(* which sockets are bound and which tasks run at each step *)
SocketsSound ==
    /\ at \notin {"bind_http", "spawn"} \cup Served => bound = {}
    /\ at = "bind_http" => bound = {"quic"}
    /\ at = "spawn" => bound = Ports
    /\ at \notin Served => tasks = Nothing /\ accepting = 0
    /\ at \in Served =>
          /\ tasks \in [Mains -> {"spawned", "running", "ended"}]
          /\ "http" \in bound /\ (tasks["tunnel"] # "ended" => bound = Ports)
          /\ accepting = 1 => tasks["tunnel"] = "running"

StartInv == StartTypeOK /\ TxSound /\ LoadSound /\ SocketsSound

-----------------------------------------------------------------------------
(* The first state, before any start, satisfies the invariant. *)
LEMMA StartInitInv == StartInit => StartInv
  <1> SUFFICES ASSUME StartInit PROVE StartInv
    OBVIOUS
  <1> USE DEF StartInit
  <1>1. table \in Tables /\ (table.form = "none" => table.rows = {})
    BY DEF NoTable, Legacy, Later, Tables, Columns
  <1>2. StartTypeOK
    BY <1>1 DEF StartTypeOK, BeforeOpen, NoTx
  <1>3. TxSound /\ LoadSound
    BY DEF TxSound, LoadSound, InDb, AfterCheck, NoTx
  <1>4. SocketsSound
    BY DEF SocketsSound, Served
  <1> QED
    BY <1>2, <1>3, <1>4 DEF StartInv

(* Steps that only move on, and errors that end the start, keep the invariant where no
   socket is bound yet. *)
LEMMA FailsInv ==
    ASSUME StartInv, NEW from, from \notin {"bind_http", "spawn"} \cup Served, Fails(from)
    PROVE  StartInv'
  <1> USE DEF Fails, fileVars, procVars
  <1>1. StartTypeOK'
    BY DEF StartInv, StartTypeOK, NoTx
  <1>2. TxSound' /\ LoadSound'
    BY DEF TxSound, LoadSound, InDb, AfterCheck, NoTx
  <1>3. SocketsSound'
    BY DEF StartInv, SocketsSound, Served
  <1> QED
    BY <1>1, <1>2, <1>3 DEF StartInv

(* A database that cannot be used leaves a noted error and an empty store. *)
LEMMA UnusableInv ==
    ASSUME StartInv, NEW from \in {"open"} \cup InDb, Unusable(from)
    PROVE  StartInv'
  <1> USE DEF Unusable, procVars
  <1>1. StartTypeOK'
    BY DEF StartInv, StartTypeOK, NoTx
  <1>2. TxSound' /\ LoadSound'
    BY DEF TxSound, LoadSound, InDb, AfterCheck, NoTx
  <1>3. SocketsSound'
    BY DEF StartInv, SocketsSound, Served, InDb
  <1> QED
    BY <1>1, <1>2, <1>3 DEF StartInv

(* The steps from the file to the loaded keys keep the invariant. *)
LEMMA DatabaseInv ==
    ASSUME StartInv,
           \/ OpenDb \/ (\E c \in Columns : AddColumn(c)) \/ ColumnsComplete
           \/ ReadLegacy \/ Rename \/ CommitMigration \/ Load
    PROVE  StartInv'
  <1> USE DEF StartInv, procVars, fileVars
  <1>1. CASE OpenDb
    <2>1. table' \in Tables /\ (table'.form = "none" => table'.rows = {})
      BY <1>1 DEF OpenDb, StartTypeOK, Tables
    <2>2. StartTypeOK'
      BY <1>1, <2>1 DEF OpenDb, StartTypeOK, BeforeOpen, InDb
    <2>3. TxSound' /\ LoadSound'
      BY <1>1 DEF OpenDb, TxSound, LoadSound, InDb, AfterCheck
    <2>4. SocketsSound'
      BY <1>1 DEF OpenDb, SocketsSound, Served
    <2> QED
      BY <2>2, <2>3, <2>4
  <1>2. ASSUME NEW c \in Columns, AddColumn(c) PROVE StartInv'
    <2>1. table' \in Tables /\ table'.rows = table.rows /\ table'.form = table.form
      BY <1>2 DEF AddColumn, StartTypeOK, Tables
    <2>2. StartTypeOK'
      BY <1>2, <2>1 DEF AddColumn, StartTypeOK
    <2>3. TxSound' /\ LoadSound'
      BY <1>2, <2>1 DEF AddColumn, TxSound, LoadSound, InDb, AfterCheck
    <2>4. SocketsSound'
      BY <1>2 DEF AddColumn, SocketsSound, Served
    <2> QED
      BY <2>2, <2>3, <2>4
  <1>3. CASE ColumnsComplete
    <2>1. StartTypeOK'
      BY <1>3 DEF ColumnsComplete, Step, StartTypeOK, InDb
    <2>2. TxSound' /\ LoadSound'
      BY <1>3 DEF ColumnsComplete, Step, TxSound, LoadSound, InDb, AfterCheck
    <2>3. SocketsSound'
      BY <1>3 DEF ColumnsComplete, Step, SocketsSound, Served
    <2> QED
      BY <2>1, <2>2, <2>3
  <1>4. CASE ReadLegacy
    <2>1. StartTypeOK'
      BY <1>4 DEF ReadLegacy, StartTypeOK, Tables, InDb
    <2>2. TxSound' /\ LoadSound'
      BY <1>4 DEF ReadLegacy, TxSound, LoadSound, InDb, AfterCheck
    <2>3. SocketsSound'
      BY <1>4 DEF ReadLegacy, SocketsSound, Served
    <2> QED
      BY <2>1, <2>2, <2>3
  <1>5. CASE Rename
    <2>1. StartTypeOK' /\ staged'.at = "written" /\ staged'.rows = staged.rows
      BY <1>5 DEF Rename, StartTypeOK
    <2>2. TxSound' /\ LoadSound'
      BY <1>5, <2>1 DEF Rename, TxSound, LoadSound, InDb, AfterCheck
    <2>3. SocketsSound'
      BY <1>5 DEF Rename, SocketsSound, Served
    <2> QED
      BY <2>1, <2>2, <2>3
  <1>6. CASE CommitMigration
    <2>1. StartTypeOK'
      BY <1>6 DEF CommitMigration, StartTypeOK, Tables, InDb, NoTx
    <2>2. TxSound' /\ LoadSound'
      BY <1>6 DEF CommitMigration, TxSound, LoadSound, InDb, AfterCheck, NoTx
    <2>3. SocketsSound'
      BY <1>6 DEF CommitMigration, SocketsSound, Served
    <2> QED
      BY <2>1, <2>2, <2>3
  <1>7. CASE Load
    <2>1. StartTypeOK'
      BY <1>7 DEF Load, StartTypeOK
    <2>2. TxSound' /\ LoadSound'
      BY <1>7 DEF Load, TxSound, LoadSound, InDb, AfterCheck
    <2>3. SocketsSound'
      BY <1>7 DEF Load, SocketsSound, Served
    <2> QED
      BY <2>1, <2>2, <2>3
  <1> QED
    BY <1>1, <1>2, <1>3, <1>4, <1>5, <1>6, <1>7

(* The steps from the checked store to the bound sockets keep the invariant. *)
LEMMA BindInv ==
    ASSUME StartInv, LoadPki \/ LoadHttps \/ RaiseNofile \/ BindQuic \/ BindHttp
    PROVE  StartInv'
  <1> USE DEF StartInv, procVars, fileVars
  <1>1. CASE Step("pki", "https") \/ Step("https", "nofile")
    BY <1>1 DEF Step, StartTypeOK, TxSound, LoadSound, SocketsSound, InDb, AfterCheck, Served
  <1>2. CASE Fails("pki") \/ Fails("https")
    BY <1>2, FailsInv DEF Served
  <1>3. CASE RaiseNofile
    BY <1>3 DEF RaiseNofile, StartTypeOK, TxSound, LoadSound, SocketsSound, InDb, AfterCheck, Served
  <1>4. CASE BindQuic
    <2>1. CASE Fails("bind_quic")
      BY <2>1, FailsInv DEF Served
    <2>2. CASE ~Fails("bind_quic")
      <3>1. at = "bind_quic" /\ at' = "bind_http" /\ bound' = bound \cup {"quic"}
            /\ UNCHANGED <<fileVars, tasks, accepting>>
        BY <1>4, <2>2 DEF BindQuic
      <3>2. StartTypeOK' /\ SocketsSound'
        BY <3>1 DEF StartTypeOK, SocketsSound, AfterCheck, Served, Ports
      <3>3. TxSound' /\ LoadSound'
        BY <3>1 DEF TxSound, LoadSound, InDb, AfterCheck
      <3> QED
        BY <3>2, <3>3
    <2> QED
      BY <2>1, <2>2
  <1>5. CASE BindHttp
    <2>1. StartTypeOK'
      BY <1>5 DEF BindHttp, StartTypeOK, AfterCheck, Ports
    <2>2. SocketsSound'
      BY <1>5 DEF BindHttp, SocketsSound, Served, Ports
    <2>3. TxSound' /\ LoadSound'
      BY <1>5 DEF BindHttp, TxSound, LoadSound, InDb, AfterCheck
    <2> QED
      BY <2>1, <2>2, <2>3
  <1> QED
    BY <1>1, <1>2, <1>3, <1>4, <1>5 DEF LoadPki, LoadHttps

(* Spawning, the first polls of the tasks and the end of the tunnel keep the invariant. *)
LEMMA TasksInv ==
    ASSUME StartInv, Spawn \/ AwaitAccepting \/ (\E t \in Mains : TaskRuns(t)) \/ TunnelStops
    PROVE  StartInv'
  <1> USE DEF StartInv, procVars, fileVars
  <1>1. CASE Spawn
    <2>1. StartTypeOK' /\ TxSound' /\ LoadSound'
      BY <1>1 DEF Spawn, StartTypeOK, TxSound, LoadSound, InDb, AfterCheck
    <2>2. SocketsSound'
      BY <1>1 DEF Spawn, SocketsSound, Served, Ports, Mains
    <2> QED
      BY <2>1, <2>2
  <1>2. CASE AwaitAccepting
    BY <1>2 DEF AwaitAccepting, Step, StartTypeOK, TxSound, LoadSound, SocketsSound, InDb,
                AfterCheck, Served
  <1>3. ASSUME NEW t \in Mains, TaskRuns(t) PROVE StartInv'
    <2>1. at \in Served
      BY <1>3 DEF TaskRuns, SocketsSound, Nothing
    <2>2. StartTypeOK' /\ TxSound' /\ LoadSound'
      BY <1>3 DEF TaskRuns, StartTypeOK, TxSound, LoadSound, InDb, AfterCheck
    <2>3. tasks' \in [Mains -> {"spawned", "running", "ended"}]
          /\ (tasks'["tunnel"] # "ended" => tasks["tunnel"] # "ended")
          /\ (t = "tunnel" \/ tasks["tunnel"] = "running" => tasks'["tunnel"] = "running")
      BY <1>3, <2>1 DEF TaskRuns, SocketsSound, Mains
    <2>4. SocketsSound'
      BY <1>3, <2>1, <2>3 DEF TaskRuns, SocketsSound, Served
    <2> QED
      BY <2>2, <2>4
  <1>4. CASE TunnelStops
    <2>1. at \in Served
      BY <1>4 DEF TunnelStops, SocketsSound, Nothing, Mains
    <2>2. StartTypeOK' /\ TxSound' /\ LoadSound'
      BY <1>4 DEF TunnelStops, StartTypeOK, TxSound, LoadSound, InDb, AfterCheck
    <2>3. SocketsSound'
      BY <1>4, <2>1 DEF TunnelStops, SocketsSound, Served, Mains
    <2> QED
      BY <2>2, <2>3
  <1> QED
    BY <1>1, <1>2, <1>3, <1>4

(* Every step of a start, of the process's end and of other processes keeps the
   invariant. *)
LEMMA StartNextInv == StartInv /\ [StartNext]_startVars => StartInv'
  <1> SUFFICES ASSUME StartInv, [StartNext]_startVars PROVE StartInv'
    OBVIOUS
  <1>1. ASSUME NEW o \in Configs, ReadConfig(o) PROVE StartInv'
    <2>1. StartTypeOK'
      BY <1>1 DEF StartInv, ReadConfig, StartTypeOK, BeforeOpen, procVars
    <2>2. TxSound' /\ LoadSound' /\ SocketsSound'
      BY <1>1 DEF StartInv, ReadConfig, TxSound, LoadSound, SocketsSound, InDb, AfterCheck,
                  Served, procVars
    <2> QED
      BY <2>1, <2>2 DEF StartInv
  <1>2. CASE Validate
    <2>1. CASE Step("validate", "open")
      BY <2>1 DEF StartInv, Step, StartTypeOK, TxSound, LoadSound, SocketsSound, BeforeOpen,
                  InDb, AfterCheck, Served, fileVars, procVars
    <2>2. CASE Fails("validate")
      BY <2>2, FailsInv DEF Served
    <2> QED
      BY <1>2, <2>1, <2>2 DEF Validate
  <1>3. CASE OpenDb \/ (\E c \in Columns : AddColumn(c)) \/ ColumnsComplete
             \/ ReadLegacy \/ Rename \/ CommitMigration \/ Load
    BY <1>3, DatabaseInv
  <1>4. CASE DbFails
    BY <1>4, UnusableInv DEF DbFails, InDb
  <1>5. CASE CheckPersistence
    <2>1. CASE persistence # "error" /\ Step("check", "pki")
      BY <2>1 DEF StartInv, Step, StartTypeOK, TxSound, LoadSound, SocketsSound, InDb,
                  AfterCheck, Served, fileVars, procVars
    <2>2. CASE Fails("check")
      BY <2>2, FailsInv DEF Served
    <2> QED
      BY <1>5, <2>1, <2>2 DEF CheckPersistence
  <1>6. CASE LoadPki \/ LoadHttps \/ RaiseNofile \/ BindQuic \/ BindHttp
    BY <1>6, BindInv
  <1>7. CASE Spawn \/ AwaitAccepting \/ (\E t \in Mains : TaskRuns(t)) \/ TunnelStops
    BY <1>7, TasksInv
  <1>8. CASE ProcessEnds
    BY <1>8 DEF StartInv, ProcessEnds, StartTypeOK, TxSound, LoadSound, SocketsSound,
                BeforeOpen, InDb, AfterCheck, Served, NoTx
  <1>9. ASSUME NEW p \in Ports, OtherProcess(p) PROVE StartInv'
    BY <1>9 DEF StartInv, OtherProcess, StartTypeOK, TxSound, LoadSound, SocketsSound,
                fileVars, procVars
  <1>10. CASE UNCHANGED startVars
    BY <1>10 DEF StartInv, StartTypeOK, TxSound, LoadSound, SocketsSound, startVars,
                 fileVars, procVars
  <1> QED
    BY <1>1, <1>2, <1>3, <1>4, <1>5, <1>6, <1>7, <1>8, <1>9, <1>10 DEF StartNext

(* The invariant holds throughout every sequence of starts. *)
LEMMA StartInvHolds == StartSpec => []StartInv
  BY StartInitInv, StartNextInv, PTL DEF StartSpec

(* Gateway::start is all or nothing, for every set of configurations, of keys and all
   limits: a failed start has no socket and no task, a finished one has the entry, its
   tasks and the keys of its database, and a healthy probe means a tunnel that accepts. *)
THEOREM StartAllOrNothing == StartSpec => []StartIsWhole
  <1>1. StartInv => StartIsWhole
    BY DEF StartInv, TxSound, LoadSound, SocketsSound, StartIsWhole, IsServing, Healthz,
           AfterCheck, Served, Mains, Ports
  <1> QED
    BY StartInvHolds, <1>1, PTL

(* No step of a start takes a key from the database or a hashed table back to plain text,
   wherever the migration is interrupted and for every number of keys. *)
THEOREM MigrationKeepsKeys == StartSpec => KeysSurvive
  <1> DEFINE Kept == /\ table.rows \subseteq table'.rows
                     /\ table.form = "hashed" => table'.form = "hashed"
  <1>1. ASSUME StartInv, [StartNext]_startVars PROVE [Kept]_startVars
    <2>1. CASE OpenDb
      <3>1. \/ table'.form = "hashed" /\ table.rows \subseteq table'.rows
            \/ table' = table
        BY <1>1, <2>1 DEF OpenDb, StartInv, StartTypeOK
      <3> QED
        BY <3>1
    <2>2. ASSUME NEW c \in Columns, AddColumn(c) PROVE Kept
      BY <1>1, <2>2 DEF AddColumn, StartInv, StartTypeOK, Tables
    <2>3. CASE CommitMigration
      BY <1>1, <2>3 DEF CommitMigration, StartInv, TxSound
    <2>4. CASE UNCHANGED table
      BY <2>4
    <2>5. ASSUME ~OpenDb, ~(\E c \in Columns : AddColumn(c)), ~CommitMigration
          PROVE  UNCHANGED table
      BY <1>1, <2>5
         DEF StartNext, ReadConfig, Validate, Step, Fails, ColumnsComplete, ReadLegacy, Rename,
             Load, DbFails, Unusable, CheckPersistence, LoadPki, LoadHttps, RaiseNofile,
             BindQuic, BindHttp, Spawn, TaskRuns, AwaitAccepting, TunnelStops, ProcessEnds,
             OtherProcess, startVars, fileVars, procVars
    <2> QED
      BY <2>1, <2>2, <2>3, <2>4, <2>5
  <1> QED
    BY <1>1, StartInvHolds, PTL DEF StartSpec, KeysSurvive

-----------------------------------------------------------------------------
(* UsageStore: how memory, the batch of the one flusher past the gate and the table relate.
   The table is never ahead of the batch about to be written, nor the batch of memory, and
   a mark is only behind the table between a commit and its mark. *)

Writing == {"write", "mark"}

MemoryAhead == has_db => \A k \in Keys : key_usage[k] <= current[k]

BatchSound ==
    \A f \in Flushers :
        /\ pc[f] \in Writing \cup {"snapshot"} => has_db
        /\ pc[f] \in Writing =>
              \A k \in DOMAIN batch[f] :
                  /\ batch[f][k] <= current[k]
                  /\ pc[f] = "write" => key_usage[k] <= batch[f][k]
                  /\ pc[f] = "mark" => key_usage[k] = batch[f][k]

MarkSound ==
    has_db => \A k \in Keys :
        (\A f \in Flushers : pc[f] = "mark" => k \notin DOMAIN batch[f])
            => flushed[k] = key_usage[k]

DeadIsIdle == ~alive => ~has_db /\ \A f \in Flushers : pc[f] = "idle"

UsageInv == UsageTypeOK /\ MemoryAhead /\ BatchSound /\ MarkSound /\ DeadIsIdle /\ NothingCountedTwice

USE UsageAssumption DEF Flushers, Writing

(* Nothing is billed or written yet. *)
LEMMA UsageStart == UsageInit => UsageInv
BY DEF UsageInit, UsageInv, UsageTypeOK, MemoryAhead, BatchSound, MarkSound, DeadIsIdle, NothingCountedTwice,
       Zero, NoBatch

(* Each step keeps the types, and that a flusher past the gate holds it. *)
LEMMA UsageTypes == UsageInv /\ [UsageNext]_usageVars => UsageTypeOK'
<1> SUFFICES ASSUME UsageInv, [UsageNext]_usageVars PROVE UsageTypeOK' OBVIOUS
<1> USE DEF UsageInv, UsageTypeOK, Goto, Return, Rest, mem
<1>1. ASSUME NEW k \in Keys, accumulate(k) PROVE UsageTypeOK'
  BY <1>1 DEF accumulate
<1>2. ASSUME NEW f \in Flushers, StartFlush(f) PROVE UsageTypeOK'
  BY <1>2 DEF StartFlush
<1>3. ASSUME NEW f \in Flushers, TakeGate(f) PROVE UsageTypeOK'
  BY <1>3 DEF TakeGate
<1>4. ASSUME NEW f \in Flushers, Snapshot(f) PROVE UsageTypeOK'
  <2>1. CASE Return(f)
    BY <1>4, <2>1 DEF Snapshot, NoBatch
  <2>2. CASE gate' = gate /\ Goto(f, "write")
    <3>1. PICK ks \in SUBSET Keys : batch' = [batch EXCEPT ![f] = [k \in ks |-> current[k]]]
      BY <1>4, <2>2 DEF Snapshot
    <3>2. /\ DOMAIN batch' = Flushers
          /\ \A g \in Flushers : DOMAIN batch'[g] \subseteq Keys
                               /\ \A k \in DOMAIN batch'[g] : batch'[g][k] \in Nat
      BY <3>1
    <3>3. UNCHANGED <<mem, has_db, key_usage, alive, billed>> BY <1>4 DEF Snapshot
    <3>4. /\ gate' \in Flushers \cup {None}
          /\ pc' \in [Flushers -> {"idle", "gate", "snapshot", "write", "mark", "done"}]
          /\ \A g \in Flushers : pc'[g] \in {"snapshot", "write", "mark"} => gate' = g
      BY <1>4, <2>2 DEF Snapshot
    <3> QED BY <3>2, <3>3, <3>4
  <2> QED BY <1>4, <2>1, <2>2 DEF Snapshot
<1>5. ASSUME NEW f \in Flushers, Commit(f) PROVE UsageTypeOK'
  BY <1>5 DEF Commit
<1>6. ASSUME NEW f \in Flushers, WriteFails(f) PROVE UsageTypeOK'
  BY <1>6 DEF WriteFails, NoBatch
<1>7. ASSUME NEW f \in Flushers, Mark(f) PROVE UsageTypeOK'
  BY <1>7 DEF Mark, NoBatch
<1>8. CASE Crash
  BY <1>8 DEF Crash, Zero, NoBatch
<1>9. CASE Restart
  BY <1>9 DEF Restart, Zero
<1>10. CASE UNCHANGED usageVars
  BY <1>10 DEF usageVars
<1> QED BY <1>1, <1>2, <1>3, <1>4, <1>5, <1>6, <1>7, <1>8, <1>9, <1>10 DEF UsageNext, FlushStep

(* Each step keeps how memory, batch and table relate, and lowers no row. *)
LEMMA UsageRelation ==
    UsageInv /\ [UsageNext]_usageVars =>
        /\ MemoryAhead' /\ BatchSound' /\ MarkSound' /\ DeadIsIdle' /\ NothingCountedTwice'
        /\ \A k \in Keys : key_usage'[k] >= key_usage[k]
<1> DEFINE Goal == /\ MemoryAhead' /\ BatchSound' /\ MarkSound' /\ DeadIsIdle' /\ NothingCountedTwice'
                   /\ \A k \in Keys : key_usage'[k] >= key_usage[k]
<1> SUFFICES ASSUME UsageInv, [UsageNext]_usageVars PROVE Goal OBVIOUS
<1> USE DEF UsageInv, UsageTypeOK, MemoryAhead, BatchSound, MarkSound, DeadIsIdle, NothingCountedTwice,
            Goto, Return, Rest, mem
<1>1. ASSUME NEW k \in Keys, accumulate(k) PROVE Goal
  BY <1>1 DEF accumulate
<1>2. ASSUME NEW f \in Flushers, StartFlush(f) PROVE Goal
  BY <1>2 DEF StartFlush
<1>3. ASSUME NEW f \in Flushers, TakeGate(f) PROVE Goal
  BY <1>3 DEF TakeGate
<1>4. ASSUME NEW f \in Flushers, Snapshot(f) PROVE Goal
  BY <1>4 DEF Snapshot, NoBatch
<1>5. ASSUME NEW f \in Flushers, Commit(f) PROVE Goal
  BY <1>5 DEF Commit
<1>6. ASSUME NEW f \in Flushers, WriteFails(f) PROVE Goal
  BY <1>6 DEF WriteFails, NoBatch
<1>7. ASSUME NEW f \in Flushers, Mark(f) PROVE Goal
  BY <1>7 DEF Mark, NoBatch
<1>8. CASE Crash
  BY <1>8 DEF Crash, Zero, NoBatch
<1>9. CASE Restart
  BY <1>9 DEF Restart, Zero
<1>10. CASE UNCHANGED usageVars
  BY <1>10 DEF usageVars
<1> QED BY <1>1, <1>2, <1>3, <1>4, <1>5, <1>6, <1>7, <1>8, <1>9, <1>10 DEF UsageNext, FlushStep

(* So every state has them. *)
LEMMA UsageInvariant == UsageSpec => []UsageInv
<1>1. UsageInv /\ [UsageNext]_usageVars => UsageInv' BY UsageTypes, UsageRelation DEF UsageInv
<1> QED BY UsageStart, <1>1, PTL DEF UsageSpec

(* A total in the database never goes back, for any number of keys, requests, failed
   writes, crashes and failed loads (flush_gate and has_db in storage/usage.rs). *)
THEOREM UsageNeverRegresses == UsageSpec => TotalsNeverRegress
<1>1. UsageInv /\ [UsageNext]_usageVars => [\A k \in Keys : key_usage'[k] >= key_usage[k]]_usageVars
  BY UsageRelation
<1> QED BY UsageInvariant, <1>1, PTL DEF UsageSpec, TotalsNeverRegress

(* Nothing is counted twice across crashes and restarts (absolute values). *)
THEOREM UsageCountedOnce == UsageSpec => []NothingCountedTwice
<1>1. UsageInv => NothingCountedTwice BY DEF UsageInv
<1> QED BY UsageInvariant, <1>1, PTL

(* With no flush under way and nothing pending the database is complete: no request
   billed while a flush runs is marked as written by it (flush_once). *)
THEOREM QuietIsPersisted == UsageSpec => []QuietMeansPersisted
<1>1. UsageInv => QuietMeansPersisted
  BY DEF UsageInv, UsageTypeOK, MemoryAhead, MarkSound, QuietMeansPersisted, has_pending, Pending
<1> QED BY UsageInvariant, <1>1, PTL
=============================================================================
