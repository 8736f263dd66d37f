------------------------------ MODULE Startup ------------------------------
(***************************************************************************)
(* Starting the gateway: the configuration (config.rs, options.rs), the    *)
(* database that is opened, extended and migrated (storage/db.rs,          *)
(* schema.rs, engine.rs), Gateway::start (gateway.rs) with the sockets     *)
(* (listen.rs), the file limit (nofile.rs), the tasks and the gauge the    *)
(* probe reads (http/api.rs), and main.rs around it.  The process may be   *)
(* killed between any two steps and is started again, with another         *)
(* configuration perhaps; statements, certificates and ports fail at will. *)
(***************************************************************************)
EXTENDS Naturals, FiniteSets

(* The options that decide a start; a time limit is a number of seconds. *)
Durations == {"request_timeout", "tunnel_op_timeout", "head_timeout", "agent_stale_after",
              "client_stall", "evict_close_grace", "head_silent_grace", "shutdown_grace",
              "shutdown_flush_timeout"}

OptionRecords ==
    [parses : BOOLEAN, pki : BOOLEAN, keys_file : BOOLEAN, session_ttl : Nat, streams : Nat,
     admin_token : {"none", "empty", "set"}, durations : [Durations -> Nat]]

(* Options::default, in units that are accepted *)
Defaults ==
    [parses |-> TRUE, pki |-> TRUE, keys_file |-> TRUE, session_ttl |-> 1, streams |-> 1,
     admin_token |-> "none", durations |-> [k \in Durations |-> 1]]

CONSTANTS
    Configs,            \* configuration files the gateway is started with
    Ids,                \* API keys in a database of the first schema
    Horizon,            \* the largest deadline the clock can represent
    DefaultStreams,     \* DEFAULT_MAX_OPEN_TUNNEL_STREAMS
    HardLimit,          \* the hard limit of open files
    TargetLimit,        \* TARGET_SOFT_LIMIT
    SoftLimit           \* the soft limit the process is given

ASSUME StartupAssumption ==
    /\ Configs \subseteq OptionRecords
    /\ Horizon \in Nat /\ DefaultStreams \in Nat \ {0}
    /\ HardLimit \in Nat /\ TargetLimit \in Nat /\ SoftLimit \in 0 .. HardLimit

Ports   == {"quic", "http"}
Mains   == {"flusher", "entry", "tunnel"}
Columns == {"cred_version", "tenant_id", "owner_user_id"}

VARIABLES
    at,                 \* where run() and Gateway::start are
    opts,               \* the Options of this start
    table,              \* api_keys on disk: how keys are stored, the columns added later, the rows
    staged,             \* what the transaction of the migration has done, and what it read first
    persistence,        \* OpenedDb::persistence: "memory", "ok" or "error"
    memory,             \* the keys that were loaded
    soft,               \* the soft limit of open files
    taken,              \* ports other processes hold
    bound, tasks,       \* what this process holds and runs
    accepting           \* the gauge quic_accepting

fileVars  == <<opts, table, staged, persistence, memory>>
procVars  == <<soft, bound, tasks, accepting>>
startVars == <<at, fileVars, procVars, taken>>

NoTx    == [at |-> "none", rows |-> {}]
Nothing == [t \in Mains |-> "none"]
NoTable == [form |-> "none", columns |-> {}, rows |-> {}]
Legacy  == [form |-> "plain", columns |-> {}, rows |-> Ids]
Later   == [form : {"hashed"}, columns : {{}, {"cred_version"}, Columns}, rows : {Ids}]

StartInit ==
    /\ at = "down" /\ opts \in Configs
    /\ table \in {NoTable, Legacy} \cup Later
    /\ staged = NoTx /\ persistence = "memory" /\ memory = {}
    /\ soft = SoftLimit /\ taken = {} /\ bound = {} /\ tasks = Nothing /\ accepting = 0

Step(from, to) ==
    /\ at = from /\ at' = to
    /\ UNCHANGED <<fileVars, procVars, taken>>

(* `?': start returns the error and drops what it has made so far *)
Fails(from) ==
    /\ at = from /\ at' = "failed"
    /\ memory' = {} /\ staged' = NoTx
    /\ UNCHANGED <<opts, table, persistence, procVars, taken>>

-----------------------------------------------------------------------------
(* the configuration *)

(* from_path and from_file: a file that cannot be read or parsed, has keys of former
   versions, an address that is none, or no pki section, is refused *)
ReadConfig(o) ==
    /\ at = "down"
    /\ opts' = o
    /\ at' = IF o.parses /\ o.pki THEN "validate" ELSE "failed"
    /\ UNCHANGED <<table, staged, persistence, memory, procVars, taken>>

NonZero(o) ==
    /\ \A k \in {"request_timeout", "tunnel_op_timeout", "head_timeout", "agent_stale_after",
                 "client_stall"} : o.durations[k] # 0
    /\ o.session_ttl # 0

HeadAliveWindow(o) == 4 * o.durations["head_timeout"]

FitsTheClock(o) ==
    /\ \A k \in Durations : o.durations[k] <= Horizon
    /\ HeadAliveWindow(o) <= Horizon

(* an admin token that is configured and empty would refuse every request *)
TokenUsable(o) == o.admin_token # "empty"

Validate ==
    \/ NonZero(opts) /\ FitsTheClock(opts) /\ TokenUsable(opts) /\ Step("validate", "open")
    \/ ~(NonZero(opts) /\ FitsTheClock(opts) /\ TokenUsable(opts)) /\ Fails("validate")

-----------------------------------------------------------------------------
(* the database: start goes on with an empty store and remembers why *)

Unusable(from) ==
    /\ at = from /\ opts.keys_file /\ at' = "check"
    /\ persistence' = "error" /\ memory' = {} /\ staged' = NoTx
    /\ UNCHANGED <<opts, table, procVars, taken>>

(* db::open up to the CREATE TABLE IF NOT EXISTS of each schema *)
OpenDb ==
    /\ at = "open"
    /\ \/ /\ ~opts.keys_file
          /\ at' = "check" /\ persistence' = "memory" /\ UNCHANGED table
       \/ /\ opts.keys_file
          /\ at' = "columns" /\ persistence' = "ok"
          /\ table' = IF table.form = "none"
                      THEN [form |-> "hashed", columns |-> Columns, rows |-> {}] ELSE table
    /\ memory' = {}
    /\ UNCHANGED <<opts, staged, procVars, taken>>

(* add_column_if_missing: each ALTER TABLE is committed by itself *)
AddColumn(column) ==
    /\ at = "columns" /\ column \notin table.columns
    /\ column = "tenant_id" => "cred_version" \in table.columns
    /\ column = "owner_user_id" => "tenant_id" \in table.columns
    /\ table' = [table EXCEPT !.columns = @ \cup {column}]
    /\ UNCHANGED <<at, opts, staged, persistence, memory, procVars, taken>>

ColumnsComplete == table.columns = Columns /\ Step("columns", "migrate")

(* migrate_legacy_keys reads the keys in plain text first, then replaces the table *)
ReadLegacy ==
    /\ at = "migrate" /\ staged.at = "none"
    /\ IF table.form = "hashed"
       THEN at' = "load" /\ UNCHANGED staged
       ELSE staged' = [at |-> "read", rows |-> table.rows] /\ UNCHANGED at
    /\ UNCHANGED <<opts, table, persistence, memory, procVars, taken>>

(* mutant of Rename: every statement is committed by itself *)
RenameCommitted ==
    /\ at = "migrate" /\ staged.at = "read"
    /\ staged' = [staged EXCEPT !.at = "written"]
    /\ table' = [form |-> "hashed", columns |-> Columns, rows |-> {}]
    /\ UNCHANGED <<at, opts, persistence, memory, procVars, taken>>

(* RENAME, CREATE TABLE and the INSERTs, inside the transaction *)
Rename ==
    /\ at = "migrate" /\ staged.at = "read"
    /\ staged' = [staged EXCEPT !.at = "written"]
    /\ UNCHANGED <<at, opts, table, persistence, memory, procVars, taken>>

(* DROP TABLE api_keys_legacy and COMMIT *)
CommitMigration ==
    /\ at = "migrate" /\ staged.at = "written"
    /\ table' = [form |-> "hashed", columns |-> Columns, rows |-> staged.rows]
    /\ staged' = NoTx /\ at' = "load"
    /\ UNCHANGED <<opts, persistence, memory, procVars, taken>>

(* load_keys; the other tables are loaded the same way *)
Load ==
    /\ at = "load" /\ at' = "check"
    /\ memory' = table.rows
    /\ UNCHANGED <<opts, table, staged, persistence, procVars, taken>>

DbFails == Unusable("open") \/ Unusable("columns") \/ Unusable("migrate") \/ Unusable("load")

(* mutant of CheckPersistence: it starts with the empty store *)
CheckIgnored == Step("check", "pki")

(* persistence_state: a database that was configured and cannot be used *)
CheckPersistence ==
    \/ persistence # "error" /\ Step("check", "pki")
    \/ persistence = "error" /\ Fails("check")

-----------------------------------------------------------------------------
(* Gateway::start: identities, limits, sockets, tasks *)

(* PkiService::new is in module Pki *)
LoadPki   == Step("pki", "https") \/ Fails("pki")
LoadHttps == Step("https", "nofile") \/ Fails("https")

(* nofile::install: the soft limit is raised, never lowered; a failure is not fatal *)
RaiseNofile ==
    /\ at = "nofile" /\ at' = "bind_quic"
    /\ \/ LET target == IF HardLimit < TargetLimit THEN HardLimit ELSE TargetLimit IN
          soft' = IF soft >= target THEN soft ELSE target
       \/ UNCHANGED soft
    /\ UNCHANGED <<fileVars, bound, tasks, accepting, taken>>

StreamCeiling(o) == IF o.streams = 0 THEN DefaultStreams ELSE o.streams

(* Sockets::bind; an error drops the socket that is bound already *)
BindQuic ==
    \/ /\ at = "bind_quic" /\ at' = "bind_http"
       /\ "quic" \notin taken /\ StreamCeiling(opts) <= Horizon
       /\ bound' = bound \cup {"quic"}
       /\ UNCHANGED <<fileVars, soft, tasks, accepting, taken>>
    \/ ("quic" \in taken \/ StreamCeiling(opts) > Horizon) /\ Fails("bind_quic")

BindHttp ==
    /\ at = "bind_http"
    /\ \/ "http" \notin taken /\ bound' = bound \cup {"http"} /\ at' = "spawn" /\ UNCHANGED memory
       \/ "http" \in taken /\ bound' = {} /\ at' = "failed" /\ memory' = {}
    /\ UNCHANGED <<opts, table, staged, persistence, soft, tasks, accepting, taken>>

Spawn ==
    /\ at = "spawn" /\ at' = "await"
    /\ tasks' = [t \in Mains |-> "spawned"]
    /\ UNCHANGED <<fileVars, soft, bound, accepting, taken>>

(* a task is polled for the first time; the accept loop of the tunnel marks itself *)
TaskRuns(t) ==
    /\ tasks[t] = "spawned"
    /\ tasks' = [tasks EXCEPT ![t] = "running"]
    /\ accepting' = IF t = "tunnel" THEN 1 ELSE accepting
    /\ UNCHANGED <<at, fileVars, soft, bound, taken>>

(* await_accepting: the tunnel is marked, or five seconds are over, which only warns *)
AwaitAccepting == Step("await", "ready")

(* server.accept() returns None: the loop ends, and its guard clears the gauge.  The other
   two main tasks never end by themselves. *)
TunnelStops ==
    /\ tasks["tunnel"] = "running"
    /\ tasks' = [tasks EXCEPT !["tunnel"] = "ended"] /\ accepting' = 0
    /\ bound' = bound \ {"quic"}
    /\ UNCHANGED <<at, fileVars, soft, taken>>

-----------------------------------------------------------------------------
(* the process ends: start failed, a signal before or after shutdown_signal armed its
   handlers (module Shutdown has the latter), or it is killed *)
ProcessEnds ==
    /\ at # "down" /\ at' = "down"
    /\ staged' = NoTx /\ memory' = {} /\ persistence' = "memory"
    /\ soft' = SoftLimit /\ bound' = {} /\ tasks' = Nothing /\ accepting' = 0
    /\ UNCHANGED <<opts, table, taken>>

(* another process binds a port of the configuration, or gives it back *)
OtherProcess(p) ==
    /\ p \notin bound
    /\ taken' = IF p \in taken THEN taken \ {p} ELSE taken \cup {p}
    /\ UNCHANGED <<at, fileVars, procVars>>

StartNext ==
    \/ \E o \in Configs : ReadConfig(o)
    \/ Validate \/ OpenDb \/ (\E c \in Columns : AddColumn(c)) \/ ColumnsComplete
    \/ ReadLegacy \/ Rename \/ CommitMigration \/ Load \/ DbFails \/ CheckPersistence
    \/ LoadPki \/ LoadHttps \/ RaiseNofile \/ BindQuic \/ BindHttp \/ Spawn \/ AwaitAccepting
    \/ (\E t \in Mains : TaskRuns(t)) \/ TunnelStops \/ ProcessEnds
    \/ \E p \in Ports : OtherProcess(p)

StartSpec == StartInit /\ [][StartNext]_startVars

(* healthz: the status code; is_serving: the three main tasks *)
Healthz   == IF accepting = 1 THEN 200 ELSE 503
IsServing == \A t \in Mains : tasks[t] # "ended"

-----------------------------------------------------------------------------
(* Gateway::start is all or nothing.  When it has failed, at whatever step, no socket is
   bound and no task runs; when it has returned, the entry is bound, all three tasks were
   spawned, and the keys in memory are those of the database it was given, hashed and with
   all columns: it never serves from an empty store because the file could not be opened,
   migrated or read.  As long as
   the probe answers 200, the tunnel is bound and accepts (gateway.rs, engine.rs, listen.rs,
   api.rs). *)
StartIsWhole ==
    /\ at = "failed" => bound = {} /\ tasks = Nothing
    /\ at = "ready" =>
          /\ "http" \in bound /\ (IsServing => bound = Ports)
          /\ \A t \in Mains : tasks[t] # "none"
          /\ opts.keys_file =>
                memory = table.rows /\ table.form = "hashed" /\ table.columns = Columns
    /\ Healthz = 200 => tasks["tunnel"] = "running" /\ "quic" \in bound

(* The migration of the first schema loses no key, however often it is interrupted: on
   disk are always all of them, in plain text before it and hashed ever after
   (schema.rs, db.rs). *)
KeysSurvive ==
    [][/\ table.rows \subseteq table'.rows
       /\ table.form = "hashed" => table'.form = "hashed"]_startVars
=============================================================================
