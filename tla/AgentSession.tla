---------------------------- MODULE AgentSession ----------------------------
(***************************************************************************)
(* The edge agent's side of a tunnel (agent/src/session.rs, gate.rs,       *)
(* backoff.rs, lib.rs, main.rs): connect, register, heartbeats in a task   *)
(* of their own, the loop that accepts streams and waits for a permit of   *)
(* the gate before it serves one, the way back after the session ends, and *)
(* the process around it.  What a stream does is in module RequestPath;    *)
(* here a request may take as long as its upstream likes.                  *)
(***************************************************************************)
EXTENDS Naturals

CONSTANTS
    Concurrencies,      \* values of max_concurrency, 0 without a gate
    MaxOffered,         \* bound on streams the gateway has opened and the agent not accepted
    MaxStreams,         \* bound on streams that are served at once
    MaxFailures,        \* MAX_CONSECUTIVE_FAILURES
    MaxLevel            \* doublings of BACKOFF_BASE up to BACKOFF_MAX

ASSUME AgentAssumption ==
    /\ Concurrencies \subseteq Nat /\ MaxOffered \in Nat /\ MaxStreams \in Nat
    /\ MaxFailures \in Nat \ {0} /\ MaxLevel \in Nat

VARIABLES
    run,                \* where the run loop is: "connecting", "registering", "serving",
                        \* "queued" for a permit, "backoff", "panicked"
    conn,               \* the connection: "none", "up", "dead"
    hb, failures,       \* heartbeat task: "none", "sleeping", "exchange", "down"
    max_concurrency,    \* of this agent
    permits,            \* free permits of the gate
    streams, offered,   \* streams that are served, and that wait to be accepted
    level, long,        \* backoff; the session has lasted BACKOFF_RESET_AFTER
    proc                \* the process: "running", "exited" for its supervisor, "stopped"

sessionVars == <<run, conn, permits, streams, offered, level, long>>
agentVars   == <<sessionVars, hb, failures, proc, max_concurrency>>

Quiet == conn = "none" /\ hb = "none" /\ failures = 0 /\ permits = 0 /\ streams = 0 /\ offered = 0

AgentInit == run = "connecting" /\ Quiet /\ level = 0 /\ long = FALSE /\ proc = "running"
             /\ max_concurrency \in Concurrencies

(* connect_once returns: the heartbeat task and the streams are aborted, the connection is
   dropped, and run waits *)
EndSession ==
    /\ run' = "backoff" /\ conn' = "none"
    /\ hb' = "none" /\ failures' = 0
    /\ permits' = 0 /\ streams' = 0 /\ offered' = 0
    /\ UNCHANGED <<level, long, proc, max_concurrency>>

Running == proc = "running"

(* within max_handshake_duration, one way or the other *)
ConnectOnce ==
    /\ Running /\ run = "connecting"
    /\ \/ run' = "registering" /\ conn' = "up"
          /\ UNCHANGED <<permits, streams, offered, level, long, hb, failures, proc, max_concurrency>>
       \/ EndSession

(* the gateway finishes its side, or the read fails or times out *)
Register ==
    /\ Running /\ run = "registering"
    /\ \/ /\ conn = "up"
          /\ run' = "serving" /\ hb' = "sleeping" /\ permits' = max_concurrency
          /\ UNCHANGED <<conn, streams, offered, level, long, failures, proc, max_concurrency>>
       \/ EndSession

-----------------------------------------------------------------------------
(* heartbeat_loop *)

HeartbeatDue ==
    /\ Running /\ hb = "sleeping"
    /\ hb' = "exchange"
    /\ UNCHANGED <<sessionVars, failures, proc, max_concurrency>>

HeartbeatOk ==
    /\ Running /\ hb = "exchange" /\ conn = "up"
    /\ hb' = "sleeping" /\ failures' = 0
    /\ UNCHANGED <<sessionVars, proc, max_concurrency>>

(* an error, or no answer within three intervals *)
HeartbeatFails ==
    /\ Running /\ hb = "exchange"
    /\ failures' = failures + 1
    /\ hb' = IF failures' >= MaxFailures THEN "down" ELSE "sleeping"
    /\ UNCHANGED <<sessionVars, proc, max_concurrency>>

-----------------------------------------------------------------------------
(* the loop of connect_once *)

(* a stream is accepted: without a gate it is served at once, otherwise acquire_slot *)
AcceptStream ==
    /\ Running /\ run = "serving" /\ offered > 0 /\ streams < MaxStreams
    /\ offered' = offered - 1
    /\ IF max_concurrency = 0 THEN streams' = streams + 1 /\ UNCHANGED run
                             ELSE run' = "queued" /\ UNCHANGED streams
    /\ UNCHANGED <<conn, permits, level, long, hb, failures, proc, max_concurrency>>

(* mutant of AcquireSlot: the agent waits for nothing but the permit *)
AcquireSlotOnly ==
    /\ Running /\ run = "queued" /\ permits > 0
    /\ permits' = permits - 1 /\ streams' = streams + 1 /\ run' = "serving"
    /\ UNCHANGED <<conn, offered, level, long, hb, failures, proc, max_concurrency>>

AcquireSlot ==
    /\ Running /\ run = "queued"
    /\ \/ /\ permits > 0
          /\ permits' = permits - 1 /\ streams' = streams + 1 /\ run' = "serving"
          /\ UNCHANGED <<conn, offered, level, long, hb, failures, proc, max_concurrency>>
       \/ hb = "down" /\ EndSession

(* the heartbeat task has ended, or accept_bidirectional_stream says the connection has *)
LeaveLoop ==
    /\ Running /\ run = "serving"
    /\ hb = "down" \/ conn = "dead"
    /\ EndSession

(* handle_stream returns and drops its permit *)
StreamEnds ==
    /\ Running /\ streams > 0
    /\ streams' = streams - 1
    /\ permits' = IF max_concurrency = 0 THEN permits ELSE permits + 1
    /\ UNCHANGED <<run, conn, offered, level, long, hb, failures, proc, max_concurrency>>

(* next_backoff: after the wait, back to the base if the session was long *)
BackoffEnds ==
    /\ Running /\ run = "backoff"
    /\ run' = "connecting"
    /\ level' = IF long THEN 0 ELSE IF level < MaxLevel THEN level + 1 ELSE level
    /\ long' = FALSE
    /\ UNCHANGED <<conn, permits, streams, offered, hb, failures, proc, max_concurrency>>

-----------------------------------------------------------------------------
(* the gateway, the network and time *)

GatewayOpens ==
    /\ Running /\ conn = "up" /\ run \in {"serving", "queued"} /\ offered < MaxOffered
    /\ offered' = offered + 1
    /\ UNCHANGED <<run, conn, permits, streams, level, long, hb, failures, proc, max_concurrency>>

(* closed by the gateway, or the path is gone and the idle timeout passes *)
ConnectionDies ==
    /\ Running /\ conn = "up"
    /\ conn' = "dead"
    /\ UNCHANGED <<run, permits, streams, offered, level, long, hb, failures, proc, max_concurrency>>

SessionIsLong ==
    /\ Running /\ run \in {"serving", "queued"} /\ ~long
    /\ long' = TRUE
    /\ UNCHANGED <<run, conn, permits, streams, offered, level, hb, failures, proc, max_concurrency>>

-----------------------------------------------------------------------------
(* the process *)

(* a panic ends the run loop; the task of the heartbeats goes on *)
Panic ==
    /\ Running /\ run # "panicked"
    /\ run' = "panicked"
    /\ streams' = 0 /\ offered' = 0 /\ permits' = 0
    /\ UNCHANGED <<conn, level, long, hb, failures, proc, max_concurrency>>

(* supervise reports it and wait_for_abnormal_exit makes main fail *)
AbnormalExit ==
    /\ Running /\ run = "panicked"
    /\ proc' = "exited"
    /\ UNCHANGED <<sessionVars, hb, failures, max_concurrency>>

(* SIGINT, SIGTERM or SIGHUP *)
ShutdownSignal ==
    /\ Running
    /\ proc' = "stopped"
    /\ UNCHANGED <<sessionVars, hb, failures, max_concurrency>>

(* what supervises the process starts it again after a failure *)
Restart ==
    /\ proc = "exited"
    /\ proc' = "running" /\ run' = "connecting" /\ conn' = "none" /\ hb' = "none"
    /\ failures' = 0 /\ permits' = 0 /\ streams' = 0 /\ offered' = 0
    /\ level' = 0 /\ long' = FALSE /\ UNCHANGED max_concurrency

AgentNext ==
    \/ ConnectOnce \/ Register \/ HeartbeatDue \/ HeartbeatOk \/ HeartbeatFails
    \/ AcceptStream \/ AcquireSlot \/ LeaveLoop \/ StreamEnds \/ BackoffEnds
    \/ GatewayOpens \/ ConnectionDies \/ SessionIsLong
    \/ Panic \/ AbnormalExit \/ ShutdownSignal \/ Restart

(* Timers fire and ready tasks are polled.  Nothing is assumed of the gateway, of the
   network, nor of an upstream: StreamEnds has no fairness. *)
AgentFairness ==
    /\ WF_agentVars(ConnectOnce) /\ WF_agentVars(Register) /\ WF_agentVars(BackoffEnds)
    /\ WF_agentVars(HeartbeatDue) /\ WF_agentVars(HeartbeatOk \/ HeartbeatFails)
    /\ WF_agentVars(AcquireSlot) /\ WF_agentVars(LeaveLoop)
    /\ WF_agentVars(AbnormalExit) /\ WF_agentVars(Restart)

-----------------------------------------------------------------------------
(* An agent whose connection is dead connects again, unless it is told to stop: also while
   it waits for a permit that the requests of a hanging upstream never return (gate.rs
   acquire_slot watches the heartbeats), when the connection dies before the registration
   is answered, and when its run loop has panicked, which must end the process. *)
DeadTunnelIsLeft ==
    (conn = "dead" \/ run = "panicked") ~> (run = "connecting" \/ proc = "stopped")
=============================================================================
