# TLA+ verification of edge-llm-gateway

A cloud gateway accepts OpenAI-style HTTP requests and forwards them over QUIC tunnels to
agents that dial out from home networks and talk to a local LLM. This directory holds TLA+
models of the gateway's concurrent core, the TLC runs that check them on small instances and
TLAPS proofs of the properties that matter most.

## Inventory

Paths are relative to `src/crates/gateway/src` unless another crate is named.

| component | state it keeps | operations | hard behaviour | module |
|---|---|---|---|---|
| agent registry (`registry/`, `evict_close.rs`) | table key → entry; per entry an in-flight counter shared by clones, strike counters, `last_seen`, `last_head` | register / take over, heartbeat, remove-if-same, acquire / release a slot, evict, deferred close | entries are cloned out of the lock and used long after; closes happen after the lock is released; a counter outlives its entry | `Registry`, `TunnelHealth` |
| tunnel server (`tunnel/`) | one task per QUIC connection and its `Registration` | Register, RegisterWithTenant, Heartbeat, end of the connection | several ids on one connection, a late `Drop` after a takeover, mid-frame failures | `Registry` |
| request path (`proxy/`) | attempt loop, slot guard, forward guard, usage collector | open a stream, send the request, await the head, forward the body, cancel | one retry without executing a request twice; client, agent and gateway all give up independently | `RequestPath`, `OneShot` |
| HTTP entry (`http/entry.rs`, `http/observability.rs`, `io_stall.rs`) | connection permits, stall timers, counters of requests | accept, handshake, serve, stop | silent clients, hang-ups at every await | `Entry` |
| admission and limits (`http/admission.rs`, `tenant_limits.rs`, `ratelimit.rs`, `login_limiter.rs`) | tickets per route class, per-tenant counters, token buckets, windows of failures | enter, leave, refill, sweep, evict | a ticket must live as long as the response body; check and record are apart | `Entry`, `Limiters` |
| API keys (`storage/keys.rs`, `verified.rs`) | records in memory in front of rows, cache of verified secrets | create, disable, delete, verify | a cached verification outlives a revocation | `KeyStore` |
| users, sessions, roles, tenants (`storage/`, `access/`, `http/admin/`) | records in memory in front of rows | create, update, delete, change a password, log in and out, bootstrap, rotate a token | memory and database change in different steps; several requests decide on the same state | `Accounts` |
| usage accounting (`storage/usage.rs`, `usage_flush.rs`, `proxy/usage.rs`) | pending deltas, totals | accumulate, flush, load | a flush that fails half way; deltas that arrive during a flush | `UsageStore` |
| PKI (`pki/`, `storage/pki.rs`, `http/admin_pki/`) | files, rows, resolver, client verifier | create, revoke, download, connect | four places, no common lock, a crash between any two | `Pki` |
| start-up (`config.rs`, `options.rs`, `storage/db.rs`, `schema.rs`, `gateway.rs`, `listen.rs`, `nofile.rs`) | options, the schema on disk, sockets, tasks | read, validate, open, migrate, bind, spawn | a failure or a kill after some of the steps | `Startup` |
| shutdown (`shutdown.rs`, `task_scope.rs`, `gateway.rs`) | phase Running / Draining / Terminating, task scope | signals, deadlines, join | requests that start or end while the phase changes | `Shutdown` |
| edge agent (`crates/agent`) | session, heartbeat, concurrency gate, one task per stream | connect, register, heartbeat, forward, cancel, reconnect | a half-dead connection, cancellation racing completion | `AgentSession`, `RequestPath` |
| wire protocol (`crates/proto`) | the reader's buffer | encode, decode, bounded frame I/O | calls dropped in the middle of a frame | `FrameReader` |
| audit log, admin reports, metrics text, UI files, `web/`, agent configuration | – | render, append, parse | none that a model reaches | – |

What makes each correct: the registry never counts a slot twice or loses one, never cuts a
healthy request, never keeps an entry nobody owns nor a connection nobody routes to; a request
runs upstream at most once and always ends; what is limited is counted exactly and given back, rates and
failed logins are bounded, and a silent client holds nothing for ever (it does in one place, see the
findings); a revoked credential stops working and stays so through a
restart; usage is neither lost nor counted twice; a start is all or nothing and loses no key;
shutdown ends; an agent comes back.

## Modules

### Registry

`Registry.tla` models `registry/`, `evict_close.rs` and the part of `tunnel/` and `proxy/` that
drives them. An `Entry` is immutable but for its `Arc`s and requests hold clones of it, so an
entry is named by its `stable_id`: `ent[s]` is its immutable part, `table` the HashMap. The
in-flight counter is named by the entry it was created for, because a takeover hands the `Arc`
to the next entry of the key. One step is what the code does under one acquisition of the lock
or between two atomic accesses; `conn.close()` runs after the lock is released and is a step of
its own (`RegisterClose`, `EvictClose`, `DeferredClose`).

| code | actions |
|---|---|
| `tunnel/accept.rs`, `connection.rs` | `Connect`, `TaskReturns`, `DropRegistration`, `DropDone` |
| `tunnel/protocol.rs`, `registration.rs` | `ReadRegister`, `RejectRegister`, `RefuseRegistration`, `Heartbeat` |
| `register_with_grace_in_tenant` | `RegisterInsert` (under the lock), `RegisterFirst`, `RegisterDispose`, `RegisterClose` |
| `try_acquire_excluding_for_tenant`, `SlotGuard` | `Acquire`, `Release` |
| `proxy/routing.rs`, `proxy/head.rs` | `StreamReady`, `OpenTimeout`, `SetupFailed`, `HeadArrives`, `HeadFails` |
| `evict` | `Evict` (under the lock), `EvictClose` |
| `defer_close` | `DeferredClose` |
| s2n-quic, clock | `PeerLost`, `LastHandleDropped`, `GoStale` |

`MaxSid` bounds how many registrations a run may see; the code's counter does not end.

### RequestPath and OneShot

`RequestPath.tla` follows one request from the HTTP handler through the attempt loop, the wait for
the head and the forwarding task to the agent's stream task and the client. `pc` is the place of
the gateway's task; per agent, `up`, `sig` and `down` are the two directions of the stream of an
attempt and `lost` its connection; `chan`, `tx`, `rx` are the channel to the client.

| code | actions |
|---|---|
| `proxy/routing.rs` (attempt loop, `open_and_send`) | `Acquire`, `NoCandidate`, `OpenStream`, `OpenFails`, `WriteSome`, `WriteFails` |
| `proxy/head.rs` | `HeadArrives`, `HeadFails`, `HeadTimeout`, `HandlerDropped` |
| `proxy/forward.rs` (`forward_body`) | `FrameArrives`, `EndArrives`, `IdleTimeout`, `ClientClosed`, `Select`, `Delivered`, `WaitForClient`, `NotDelivered`, `ShutdownInterrupts`, `Quit`, `Panic` |
| `agent/stream.rs` | `AgentStarts`, `AgentGivesUp`, `Listener`, `AgentCancels`, `UpstreamAnswers`, `UpstreamChunk`, `UpstreamEnds` |
| client, network, operator | `ClientReads`, `ClientSeesEnd`, `ClientLeaves`, `TunnelLost`, `PhaseAdvances` |

`OneShot.tla` is the promise: a request is refused without being run, or runs once, and the client
receives what the model produced, in order and without holes, until it ends. `RequestPath`
implements it under the mapping `Abstract` (the fate from the handler's answer, `ran` from
`calls`, the body from the chunks the client received); `ImplementsOneShot` is that implication.

### TunnelHealth

The verdict whether an agent that lets requests time out is slow or dead: one entry of the
registry with its three strike counters, the requests in flight on it, heartbeats and the age of
its last response head. Clock values are abstracted to the windows they fall into (`fresh`, `Ages`).
`HeadTimeout` takes the verdict (`Entry::head_timeout_is_fatal`), `Strike` is `evict` under the
write lock; between the two the agent may answer (`HeadOk`), which is the race the module is about.

### UsageStore

`storage/usage.rs` and `usage_flush.rs`: totals in memory (`current`, `flushed`, `ever_flushed`)
over absolute totals in the database (`key_usage`). `TakeGate`, `Snapshot`, `Commit`/`WriteFails`
and `Mark` are the steps of `flush_once`, run by the periodic task and by the final flush, whose
blocking tasks are not cancelled; `Crash` and `Restart` may come between any two. `billed` is the
history of what `accumulate` was called with.

### Shutdown

`Gateway::shutdown` (`DrainEnds`, `Check`, `WindowEnds`, `FlushBegins`, `FlushAwaited`, `Abort`),
the final flush in its own blocking task (`FlushSnapshot`, `FlushEnds`), `Drop for Gateway`
(`GatewayDropped`), and the requests it meets: each has an admission ticket (`ticket`) held by its
handler and then by its body, and a forwarding task (`fwd`) that settles its usage.

### KeyStore

API keys: records in memory (`runtime`) in front of rows (`api_keys`), the cache of verified keys
(`entries`) and its single-flight slots (`inflight`, with `holder` as their mutexes). One step is
what the code does under one lock. `Lock` joins taking a slot's mutex and `is_current`, which is
sound because only the holder of the mutex makes a slot stop being current and a slot that is not
current never becomes so again. The credential generation is reduced to whether the record was
published by this process or loaded: each key is published once, so the cache cannot tell more.

| code | actions |
|---|---|
| `verify_or_cached` | `Begin`, `BareProbe`, `Peek`, `Flight`, `Lock`, `Recheck`, `Repeek`, `Probe`, `Put`, `Cleanup`, `Unlock`, `Return`; `Expire` is the TTL |
| `create_in` | `CreateInsert` (database), `CreatePublish` (memory) |
| `delete` | `DeleteRow`, `DeleteForget`, `DeleteInvalidate` |
| `disable_keys_for_owner` | `DisableCollect`, `DisableRows`, `DisableRecords`, `DisableInvalidate` |
| `load_keys` after a crash | `Restart` |

A keys table that cannot be read on start leaves an empty store in the code; the model starts
with a readable one.

### Accounts

Users, sessions, roles and tenants, each as a record in memory (`users`, `tenants`, `sessions`) and a
row (`userRows`, `tenantRows`, `sessionRows`). Nothing holds a read, its statement and the change in
memory together, so each is a step; a blocking task goes on when its client has left. Passwords are
not told apart: the outcome of a verification is open. A handler's look at its target and that of the
storage function are one step. `Budgets` bounds how many requests of each kind a behaviour has. Several
administrators work at the same time. A task remembers what it is `about` (the user or tenant it changes, and the
super admins when it takes one away), and `raced` is the history of what two requests of one process were about at
once: the properties name with it the records that the code does not protect.

| code | actions |
|---|---|
| `create_user`, `update_user`, `delete_user`, `set_user_password` with the checks of `access/rbac.rs` | `CreateUser`, `UpdateUser`, `DeleteUser`, `ChangePassword`; `InsertUser`, `UpdateUserRow`, `DeleteUserRow`, `PasswordRow`; `PublishCreated`, `PublishUpdated`, `PublishDeleted`, `PublishPassword` |
| `delete_sessions_for_user`, logout | `Logout`, `DeleteSessions`, `ForgetSessions` |
| `storage/tenants.rs` | `CreateTenant`, `UpdateTenant`, `DeleteTenant`, `RotateAgentToken`, and a row and a publish step for each |
| login | `Verify`, `CheckEnabled`, `InsertSession`, `PublishSession`, `Prune`; `Expire` is the clock |
| bootstrap | `BootLock`, `BootInsert`, `BootMemory`, `BootAbandon` |
| load after a crash | `Restart` |

### Pki

A credential pair lives in its files, its row, the resolver (`certs`, `pairs_by_server`) and the client
verifier (`roots`, the verifier built from them `inner`, `revoked`). One step is one lock, one statement
or one change of the file system. Certificates are the pairs they belong to.

| code | actions |
|---|---|
| `create_pair` and its roll-back | `Generate`, `Insert`, `AddRoot`, `Rebuild`, `Swap`, `Serve`, `NameIt`, `Resolvable`; `DeleteRow`, `RemoveFiles` |
| `revoke` | `RevokeCheck`, `Unserve`, `RemoveRoot` with `Rebuild` and `Swap`, `Ban`, `Unname`, `RevokeRow` |
| `download` | `DownloadCheck`, `Consume`, `RemoveKey` |
| handshake and `mark_connected` | `Connect`, `Mark` |
| clock, crash and `PkiService::new` | `Expire`, `Restart` |

### Entry

What a request holds on its way in: the permit of its connection, the ticket of its route class, the
slot of its tenant, and every way to give them back; and its accounting (`metrics`): counted once, with
a status or as aborted. `conn[c]` is a connection with what its current request holds. The ticket ends
with the response body, the slot with the forwarding task (`relays`), which is followed in `RequestPath`.

| code | actions |
|---|---|
| `serve_entry` | `AcquireConnection`, `Accept`, `AcceptFails`, `BackoffEnds`, `StopAccepting`, `Handshake` |
| gate and observability middleware, handlers that are not proxied | `Request`, `JsonArrives`, `Answer` |
| `proxy/prepare.rs`, `access/api_key.rs`, `tenant_limits.rs` | `Authenticate`, `TryEnter`, `FetchUpdate`, `BodyArrives` |
| handler and body | `Forwarded`, `AttemptsFail`, `BodyEnds`, `RelayEnds` |
| stall timers, client | `Stall`, `Disconnect` |
| tenant administration, shutdown | `SetTenant`, `Evict`, `Advance` |

### Limiters

Token buckets (`TryAcquire`, `TenantTryAcquire`, `EvictBucket`; `Tick` is the clock) and the windows of failed logins (`Check`,
`RecordFailure`, `RecordSuccess`, `Abandon`, `UserWindowEnds`, `GlobalWindowEnds`). One tick is the time
in which a bucket gains one token. A tenant is limited by `Capacity` or, with `requests_per_minute` 0, not at
all; a change between two limits, which changes the length of a tick too, is left out.

### AgentSession

The agent's run loop (`run`), its heartbeat task (`hb`), the gate (`permits`) and the process around it
(`proc`): `ConnectOnce`, `Register`, `HeartbeatDue`, `HeartbeatOk`, `HeartbeatFails`, `AcceptStream`,
`AcquireSlot`, `LeaveLoop`, `StreamEnds`, `BackoffEnds`, `Panic`, `AbnormalExit`, `ShutdownSignal`,
`Restart`; and what the gateway and the network do: `GatewayOpens`, `ConnectionDies`, `SessionIsLong`.

### FrameReader

`write_frame` and `FrameReader::next` (`ReaderSpec`) on a stream whose bytes arrive in pieces of any size: `CallNext`,
`ReadBytes`, `ReadEnd`, and `Cancel` for a call that `select!` drops at its await. A byte is told by the
frame it belongs to and its place in it; the reference is the sequence of frames that was sent.

### Startup

The way from the configuration file to a gateway that serves: `ReadConfig`, `Validate`, `OpenDb`,
`AddColumn`, `ColumnsComplete`, the migration (`ReadLegacy`, `Rename`, `CommitMigration`), `Load`, `DbFails`,
`CheckPersistence`, `LoadPki`, `LoadHttps`, `RaiseNofile`, `BindQuic`, `BindHttp`, `Spawn`, `TaskRuns`,
`AwaitAccepting`, `TunnelStops`. `ProcessEnds` may come after any of them, and the next start may have
another configuration. The database is reduced to `api_keys`, the one table that is migrated.

### How modules are composed

`RequestPath` composes gateway task, agent task, client and tunnel of one request; `Registry` the
connection tasks, requests and closers over one table. Where components share no state, an MC module
puts them side by side and `part` says which one a behaviour is about, so that one run asks one
question of both: `MCTunnel` (the gateway's verdict, the agent's session, the frames between them),
`MCLimits` (admission and limiters), `MCLifecycle` (how a gateway starts, keeps its usage and stops). The bodies of the
modules meet where one leaves the outcome of another open: `Entry` leaves open whether a key is valid
(`KeyStore`, `Accounts`) and a bucket has a token (`Limiters`), `Shutdown` whether a flush succeeds
(`UsageStore`), `Startup` whether the pairs load (`Pki`).

## Runs

| run | instance | what it shows |
|---|---|---|
| `registry_takeover` | 2 connections, 2 requests, 1 agent identity, 3 stable ids, eviction at the first strike | counters are exact across takeover and eviction; an immediate close cuts nobody of the node; no entry without a task that will remove it, no open connection without an entry or a pending close; a slot is uncounted only on an entry that is on its way out |
| `registry_ends` | 2 connections with different vouched tenants, legacy registration on, 1 request | requests stay within their tenant; a connection that lost its registration is closed in the end; the entries of a closed connection leave the table |
| `request_path` | 2 agents, 2 attempts, channel of 1, up to 2 chunks | at most one execution; a refusal means not run; a clean unmarked end is the whole response; usage settled once; implements `OneShot`; the task ends; no agent works on for nobody |
| `tunnel` | health: 3 requests, 2 strikes; agent: gates of 0 to 2, 3 streams, 2 failures; frames: up to 3, headers of 4 bytes | an answering agent is kept; a stuck one whose heartbeats go on is evicted; frames come out whole however reads are cut and calls dropped; an agent leaves a dead tunnel, a full gate or not |
| `limits` | 3 connections for 2 permits, limits 0 and 1, 2 requests; 2 keys and a tenant over 3 ticks; 2 logins of 2 users | permits, tickets, slots and counters of requests are exact and within their limits; buckets let no more through than they say, login windows at most one failure less than there are logins at once more than theirs; the entry keeps accepting unless every permit is held by a client that owes a handler its JSON body |
| `limits_silent` | the same | *violation*: clients that never send the body of a login or of an administrator's request hold every permit for ever |
| `keys` | 2 keys, cache of 0 or 1 entries, 2 verifiers, 1 administrator | a revoked key stays revoked, also through cache, crash and restart; one argon2 run per key at a time; nobody waits for ever |
| `keys_owner` | 2 keys of one user, 2 administrators | *violation*: a key created while its owner is disabled is disabled in memory only |
| `accounts` | 2 users, 2 tenants, 2 sessions, 2 administrators, 2 bootstraps, 1 fault | a revoked session stays dead; a restart changes no record but those that are under way or were changed by two requests at once; one bootstrap; a super admin remains unless two requests about one user, or two that each remove a super admin, ran at once |
| `accounts_last` | the same | *violation*: two administrators each remove the other's last super admin |
| `pki` | 2 pairs of one server name, 2 administrators, 4 operations, 1 fault | a revoked certificate is refused; the next start finds the files of every active row; what was answered stays true |
| `lifecycle` | start: every configuration one field away from the defaults, 2 keys, any former schema; usage: 2 keys, 3 units of usage, 2 flushers; stop: 2 requests | a start is all or nothing and no key is lost; totals in the database never regress, nothing is counted twice, quiet means persisted, what is billed is eventually persisted; ended responses are billed, cut ones were announced, `shutdown()` returns |

**Bounds.** Two connections of one identity are the smallest takeover, three stable ids let one of
them come back; two requests let one evict or close what the other uses. Two agents exhaust the two
attempts the code makes. A channel of one item is full as soon as it holds anything, which is the
case the code of a slow client is about; two chunks show a hole or a swap. With two strikes and
three requests, an answer can come before, between and after the verdicts. Two verifiers are
enough for a slot to be given up while the other waits and for the first to return on a new slot.
Three connections for two permits leave one waiting; a limit of one is reached by one request and 0 is
the unlimited case; two requests let one be refused by what the other holds, or reuse a connection.
Three ticks outlast `IdleTtl`, so a bucket can be swept and come back. Two attempts pass `check` together.
A frame that is empty, one that fits exactly, one byte too many and one that does not decode are all
in the streams, and a read may end anywhere in a header or a body. Two bootstraps race for the lock;
two administrators are enough for one to read what the other is about to write;
`MCBudgets` gives a behaviour either several changes of users, or logins that meet a change, or tenants.
One request that ends while another keeps the drain waiting is what a shutdown of two requests has.
Two pairs of one name meet in every step of a creation and a revocation; one fault hits each statement
and each file operation once. Every option decides alone whether it is refused, so configurations differ
from the defaults in one field. Where a property is also proved the bound does not matter.

**Fairness** stands for what the scheduler and the deadlines in the code guarantee, and for nothing else.
- Registry: tasks that are runnable run; the accept loop of a closed connection returns; a request
  gives its slot back (every wait has a timeout); a deferred close has a deadline.
- RequestPath: the task runs and each of its waits has a timeout; the agent's cancel listener and
  its cancelled task run, and its writes end because a dropped receive side stops them. The client
  need not read, the upstream need not answer, the tunnel need not break.
- TunnelHealth: requests keep being routed to the agent and some of their clients outwait
  `head_timeout` (strong fairness: requests that leave earlier do not prevent it), `Strike` follows
  a verdict, time passes. Without requests nothing can be learned about an agent.
- AgentSession: timers fire and ready tasks are polled. A stream need not end, the gateway need not
  answer, and the supervisor restarts a process that exited.
- Entry: the accept loop runs, each stall timer fires for a connection that makes no progress, handlers that
  have their input and forwarding tasks (module RequestPath) end. Clients need do nothing, and a handler that waits
  for the JSON body of its request (`JsonArrives`) waits as long as the client likes.
- UsageStore: the periodic task runs, and a database that is tried again and again commits some
  time (strong fairness of `Commit`).
- Shutdown: each wait of `shutdown()` has a deadline, so its next step is weakly fair; nothing is
  assumed of clients, agents or the database.
- KeyStore: the tasks of the callers run. The mutex itself is not assumed fair.
- Accounts, Pki, Startup, Limiters: safety only, no fairness.

`CHECK_DEADLOCK FALSE` is set where the system may stop: a request that has ended, a registry whose
stable ids are used up, a gateway that has shut down, an entry whose controller is dropped, clocks that
have run out, an agent that was told to stop.

## Proofs

All theorems hold for every value of the constants that satisfies the module's named assumption
(finite sets of requests, connections or keys, `None` not among them, positive limits). Every invariant and
every action property that a run checks is stated by a theorem, and so is the refinement.

| module | theorem | inductive invariant |
|---|---|---|
| `RegistryProofs` | `TypeCorrect`: `TypeOK` | itself |
| | `CountersAreExact`: `SlotAccounting`; `ImmediateCloseIsSafe`: `ClosesOnlyDrained` | `SlotInv` |
| | `EveryEntryHasAnOwner`: `TableIsOwned`; `UncountedIsDoomed`: `UncountedOnlyWhenDoomed` | `SlotInv`, `OwnerInv` |
| | `TenantsAreIsolated`: `TenantIsolation` | `SlotInv`, `OwnerInv`, `TenantInv` |
| `RequestPathProofs` | `RunsAtMostOnce`: `AtMostOnce`; `RefusedWasNotRun`: `RefusedMeansNotRun` | `SentOnce` |
| | `PathTypeCorrect`: `TypeOK`; `CleanEndsAreWhole`: `CleanEndIsWhole`; `UsageSettledOnce`: `UsageIsSettled`; `PathImplementsOneShot`: `ImplementsOneShot` | `FlowInv` |
| `TunnelProofs` | `AnsweringAgentIsKept`: `AnsweringIsKept` (TunnelHealth) | `StrikesBelow`, `WaitingBounded` |
| | `FramesComeOutWhole`: `FramesAreWhole` (FrameReader) | `ReaderInv` |
| `LimitsProofs` | `LimitersBound`: `OvershootIsBounded` (Limiters) | `BucketInv`, `LoginInv` |
| | `SlotsStayExact`: `SlotsAreExact` (Entry) | `EntryInv` |
| `KeyStoreProofs` | `OneFlight`: `OneProbePerKey` | `FlightInv` |
| | `RevocationHolds`: `RevokedStaysRevoked` | `RevokeInv`, `NobodyLate` |
| `AccountsProofs` | `RevocationIsFinal`: `RevokedSessionStaysDead` | `SessionInv` |
| | `MemoryFollowsDatabase`: `RestartChangesNothing`; `LastSuperRemains`: `SuperRemainsUnlessRaced`; `BootstrapIsOnce`: `OneBootstrap` | `AgreeInv` |
| `PkiProofs` | `RevokedStaysRefused`: `RevokedIsRefused`; `DiskStaysLoadable`: `StartLoads`; `AnswersStayTrue`: `AnsweredIsTrue` | `PkiInv` |
| `LifecycleProofs` | `UsageNeverRegresses`, `UsageCountedOnce`, `QuietIsPersisted` (UsageStore) | `MemoryAhead`, `BatchSound`, `MarkSound` |
| | `EndedBodiesAreBilled`, `CutsAreAnnounced` (Shutdown) | `FlushSound`, `AnnouncedOrLate` |
| | `StartAllOrNothing`: `StartIsWhole`; `MigrationKeepsKeys`: `KeysSurvive` (Startup) | `TxSound`, `LoadSound`, `SocketsSound` |

The theorems of `AccountsProofs` hold for any number of administrators, logins and bootstraps at once. What they
except is what the code does not protect, record by record: the user or tenant that two requests were about at the
same time (`raced`), and for `LastSuperRemains` also two removals of super admins, with which `accounts_last` violates
`SuperRemains`.

Why the strengthenings are needed:
- A counter equals the number of holders only if one knows which counter each request holds and
  that an inherited counter is shared by all entries that name it; `SlotInv` says so, and what
  `ClosesOnlyDrained` needs (a counter of one means the caller alone) follows from it.
- An entry is removed by the task whose list of registrations names it (`EntriesNoted`, `RegsSound`), and an entry
  that has left the table left it through a takeover, an eviction or the end of its task: `LeftSound` says that its
  connection is then doomed or its task at its end. From these follow that no entry is without an owner, no open
  connection without an entry, and where a request may be uncounted.
- `TenantIsolation` needs the tenant of every issued entry and of every registration still under way, because a
  request holds a clone of an entry that may have left the table (`TenantInv`).
- `AtMostOnce` does not by itself say why a second attempt is harmless. `SentOnce` does: only the
  current attempt's stream can hold a complete request frame, and the loop goes on only while none does.
- A chunk passes four queues (the stream, the task's hand, the channel, the client). `FlowInv` numbers it: what the
  client received, what is in the channel, in hand and on the stream are consecutive pieces of what the model
  produced, an end marker stands behind the last of them, and `charged` lies between the received and the taken.
  The refinement needs it too: a chunk the client reads is the next one of the abstract body.
- `AnsweringIsKept` counts verdicts that were under way at the last answer; the invariant ties the
  strikes since then to those verdicts and to the threshold.
- What `next()` returns depends on bytes it has not read yet. `ReaderInv` says that the buffer followed by the wire is
  always the frames not yet returned, laid end to end (`Laid`: each byte is followed by the next one of its frame
  or by the first of the next frame), and that `want` is the size of the frame the reader is at.
- The bound on a bucket is inductive once it is stated of the bucket as `Refilled` would see it, also of one that was
  swept; that of a login window counts the logins between `check` and `record` (`UserBound`, `AllBound`).
- `EntryInv` adds to the exact counters what a connection may hold at each place (`Holds`), so that each way out gives
  back what is held and nothing else.
- `OneProbePerKey` looks at two callers; `FlightInv` says of each caller in flight that it has its
  slot's mutex and that this slot is the current one of its key, which two callers cannot both be.
- A revoked key could return through a row, a creation still under way, or a disable that has only
  collected. `RevokeInv` excludes each: a key is published once, deletes erase the row before they
  touch the memory, and ids under way in a disable are never those of a pending creation. From it
  no caller passes its first look-up with a revoked key (`NobodyLate`), whatever the cache holds.
- A revoked session could return through its row or through a login that has inserted the row and not yet published the
  record. `SessionInv` says that a token is drawn once (`IssuedOnce`), that such a login's session cannot have been
  revoked (`LandingSound`), that one about to be forgotten has no row any more, and a dead one neither row nor record.
- `AgreeInv` is about many requests at once. As long as something was not raced, the request that is about it is the only
  one (`Alone`), so that what it read is still so: row and record agree unless it is between its statement and its change in
  memory, and then the row is what it will publish (`UserTask`, `TenantTask`, `CreateSound`, `BootSound`). A request that removes a super
  admin leaves another one, in both places (`LeavesSuper`), which no second one takes away unless raced. A bootstrap finds a user once
  one has been made: of a user that was bootstrapped, the row goes before the record (`BootInv`), and unless a
  lock was given away the bootstrap under way has it.
- The row of a pair may be deleted only by the creation that made it, and one creation makes it (`OneCreator`). `PkiInv` says of each
  step what rows and files hold (`RowSound`), and that a pair whose revocation was answered is in `revoked`, or
  nothing has its CA and nothing is going to add it (`Out`), which is the case after a restart.
- A flush writes totals it read earlier. `BatchSound` says that a batch is between the row and the
  memory as long as its flusher has the gate, so the commit cannot lower a row; `MarkSound` that
  what is marked as flushed is in the database.
- A body ends only after its task has settled, and the final snapshot comes after the drain or the
  window, so `FlushSound` relates the snapshot to the tasks settled before it.
- `StartIsWhole` speaks of the end of a start; the invariant says of each step on the way which sockets
  and tasks there are and what memory and disk hold. That a migration loses nothing rests on `TxSound`:
  what its transaction will write is what the table still holds.

Each of these invariants was checked by TLC on the instance of its run before it was proved. Where a fact about sequences of
every length is needed (`Laid`, and the wire that `FlattenSeq` puts together), induction is done with `LeastNumber`: of
the positions at which the fact fails there is a least one.

Only model-checked are the liveness properties, because the prover has no fairness and no ENABLED: `ZombieIsClosed`,
`ClosedIsRemoved`, `TaskEnds`, `NoOrphanWork`, `StuckIsEvicted`, `DeadTunnelIsLeft` (the only property of `AgentSession`),
`EntryListens`, `NobodyWaitsForever`, `EventuallyPersisted`, `ShutdownReturns`.

## Findings and observations

The three violation runs show where a document and the code disagree; PROJECT.json quotes both sides.
Met while modelling, without a run of their own:

*Registry and request path*
- `registry/table.rs:313` says that the entry being replaced belongs to another connection; one
  connection that registers the same id twice replaces, and closes, itself.
- `registry/eviction.rs:148` closes the connection when the caller is the last user of the entry. A connection
  that registered two ids has two entries, so a request of the sibling id can be cut: `ClosesOnlyDrained`
  speaks of the requests of the node that is closed.
- `proxy/forward.rs:428`: a body that is not an event stream gets no mark when the shutdown cuts it, and
  `forward.rs:444`: a client that resumes after the stall limit sees a clean end of a cut body.
  `CleanEndIsWhole` excludes exactly these cases.
- A panic of the forwarding task while the channel is full leaves no marker: the client sees a
  clean end (`CleanEndIsWhole` excludes the case that the marker did not fit).
- `gateway.rs:331-333` and `:382`: a task that is still sending its Cancel when the window ends is aborted before
  it settles its usage; `Drop for Gateway` aborts tasks before the channels close, and a task aborted
  before its first poll settles nothing.

*Accounts*
- `update_user` and `delete_user` ignore an error of `disable_keys_for_owner`.
- Two requests about one record at the same time write a stale one back: a change of password
  restores the role and enabled flag read before hashing (`users.rs:245`), an update of a tenant the token
  hash read before a rotation (`tenants.rs:155`), and an update can publish a user or tenant that was deleted in
  between. Memory and database then differ until the next start; `RestartChangesNothing` and
  `SuperRemainsUnlessRaced` except exactly the records this happened to (`raced`).
- When the DELETE of a session fails, the error is ignored and the record in memory removed (`sessions.rs:96`): the
  session is dead until the next start, which loads it again. `RevokedSessionStaysDead` excludes these (`kept`), it
  speaks of crashes and of DELETEs that succeed.
- A login that verified the old password creates its session after a change of password has revoked the
  sessions (`access/session.rs:310`).
- `delete_tenant` looks for dependants before it deletes (`tenants.rs:167`); a user created in between stays behind.
- A bootstrap whose client leaves gives its lock away while its blocking task runs on, so a second one
  can succeed (`OneBootstrap` excludes it).

*PKI*
- `add_ca` and `remove_ca` build the verifier under one lock and install it under another: of two creations at
  the same time, the one that installs last may lack the CA of the other until the next change or start,
  while `pki/mod.rs:4` and `DEPLOY.md:50-51` say that a new pair works at once.
- Two creations of one server name can both pass the check for duplicates. Revoking a pair that has
  expired can remove the certificate of the pair that replaced it.
- Two downloads at the same time can both read the key before either consumes the row
  (`DEPLOY.md:166` says once).
- A creation that fails leaves its CA among the roots, and its files when they cannot be removed (`files.rs:113`); and when its DELETE fails too (an ignored error,
  `service.rs:174`), a row without files, with which the next start is refused (`StartLoads` excludes it).
- Revoking a pair does not close the connections it already has.

*Start-up, limits and agent*
- `login_limiter.rs:1` says 5 failures in 60 s for a user name and 60 for all. `check` and `record_failure` are two
  locks with the argon2 verification between them (`access/session.rs:265`, `:288`), so logins that run at the same time all pass
  `check` before one of them is counted: a window takes up to its limit less one and one failure for every login
  at once, which only `max_concurrent_requests` and `max_entry_connections` bound. `OvershootIsBounded` states and
  `LimitersBound` proves that it is never more.
- One client that owes a JSON body (`limits_silent`) holds a gated ticket as well: with `max_concurrent_requests` set, that many of
  them are enough for every gated request to be answered 429.
- `Gateway::start` raises the limit of open files before it binds; when binding fails, the limit stays raised,
  while the comment at `gateway.rs:100-103` says that an error changes nothing of the process.
- `gateway.rs:305-309` says that `start` guarantees an accepting tunnel; `await_accepting` (`gateway.rs:254`) only warns after
  five seconds and returns.
- A time limit within seconds of the end of the clock passes `validate` (`options.rs:353`) and overflows when it
  is used later.
- A request that is under way while its tenant is deleted makes a new counter in the tenant limiter,
  which nobody evicts.
- When `upstream_client()` fails after the heartbeat task was spawned (`agent/src/session.rs:127`), the task is left to end by
  itself; the model does not have this failure.

## Not modelled

- TLS and QUIC themselves, argon2, certificate generation, SQLite: libraries, modelled by how the code
  uses them.
- Parsing and formatting: YAML, PEM, addresses, JSON bodies, headers and paths (abstracted to whether they
  succeed); the route table; token counts read from a body (`usage_meter.rs`); routing's choice among equal
  candidates.
- The audit log, the admin reports, metrics text, UI files, the dashboard, request ids and access logs:
  written or rendered beside an operation, read by no decision.
- The agent's configuration and the test doubles.
- Of modelled components: the check of `delete_tenant` for keys and online agents, the mode of `Accounts`
  without a file, the columns no decision reads.

## Plan

The code whose state changes is modelled, and every safety property of a run is proved. What remains is to prove more than
the runs ask:
1. Safety behind the liveness properties: what each of them needs in every state (a task that is to end has a step
   it can take, a slot that is waited for is held by somebody who will give it back), as invariants of `KeyStore`,
   `Shutdown` and `AgentSession`.
2. `AgentSession`: a type invariant and that the permits of the gate are those its streams hold.
3. `Accounts`: which stale values a record that was raced can have until the next start.
