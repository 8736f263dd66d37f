------------------------------ MODULE Shutdown ------------------------------
(***************************************************************************)
(* Stopping the gateway (gateway.rs, shutdown.rs, task_scope.rs) while     *)
(* requests run.  A request is seen twice: `ticket' is its admission, held *)
(* by the handler and then by the response body (http/admission.rs), which *)
(* is what the drain counts; `fwd' is its forwarding task, which settles   *)
(* the usage.  A deadline may pass at any time.  Kept-alive connections    *)
(* send new requests during the whole shutdown: only accept stops.         *)
(***************************************************************************)
EXTENDS Integers, FiniteSets

CONSTANT Requests

ASSUME ShutdownAssumption == IsFiniteSet(Requests)

VARIABLES
    step,       \* where Gateway::shutdown is
    phase,      \* ShutdownPhase
    ticket,     \* per request: none, handler, body, or over
    fwd,        \* per request: its forwarding task
    settled,    \* requests whose usage is in the memory of the store
    written,    \* requests whose usage is in the database
    flush,      \* the final flush: where it is, and the usage it writes
    ended,      \* requests whose body ended regularly before shutdown() came to its flush
    late        \* requests that came after the drain was over

vars == <<step, phase, ticket, fwd, settled, written, flush, ended, late>>

Active == {r \in Requests : ticket[r] \in {"handler", "body"}}
Live   == {r \in Requests : fwd[r] \in {"running", "closing"}}

Init ==
    /\ step = "serving" /\ phase = "Running"
    /\ ticket = [r \in Requests |-> "none"] /\ fwd = [r \in Requests |-> "none"]
    /\ settled = {} /\ written = {}
    /\ flush = [at |-> "none", batch |-> {}]
    /\ ended = {} /\ late = {}

BeforeFlush == step \in {"serving", "drain", "check", "window"}
Stopped    == step \in {"done", "dropped"}
Ticket(r, t) == ticket' = [ticket EXCEPT ![r] = t]
Forward(r, s) == fwd' = [fwd EXCEPT ![r] = s]

-----------------------------------------------------------------------------
(* Requests. *)

Enter(r) ==
    /\ ticket[r] = "none" /\ ~Stopped
    /\ Ticket(r, "handler")
    /\ late' = IF step \in {"serving", "drain", "check"} THEN late ELSE late \cup {r}
    /\ UNCHANGED <<step, phase, fwd, settled, written, flush, ended>>

(* the handler answers an error, or is dropped *)
HandlerEnds(r) ==
    /\ ticket[r] = "handler" /\ ~Stopped
    /\ Ticket(r, "over")
    /\ UNCHANGED <<step, phase, fwd, settled, written, flush, ended, late>>

(* the response head: the forwarding task is spawned, the body takes the ticket *)
HeadArrives(r) ==
    /\ ticket[r] = "handler" /\ ~Stopped
    /\ Ticket(r, "body") /\ Forward(r, "running")
    /\ UNCHANGED <<step, phase, settled, written, flush, ended, late>>

(* forward_body ends with the upstream: it settles and returns *)
UpstreamEnds(r) ==
    /\ fwd[r] = "running"
    /\ Forward(r, "done") /\ settled' = settled \cup {r}
    /\ UNCHANGED <<step, phase, ticket, written, flush, ended, late>>

(* forward_body gives up (client gone or stalled, idle, Terminating): abandon awaits the
   Cancel frame for up to tunnel_op_timeout before it settles *)
Abandons(r) ==
    /\ fwd[r] = "running"
    /\ Forward(r, "closing")
    /\ UNCHANGED <<step, phase, ticket, settled, written, flush, ended, late>>

Settles(r) ==
    /\ fwd[r] = "closing"
    /\ Forward(r, "done") /\ settled' = settled \cup {r}
    /\ UNCHANGED <<step, phase, ticket, written, flush, ended, late>>

(* mutant of BodyEnds: the body's channel closes before the usage is settled *)
BodyEndsEarly(r) ==
    /\ ticket[r] = "body" /\ fwd[r] \in {"closing", "done"} /\ ~Stopped
    /\ Ticket(r, "over")
    /\ ended' = IF BeforeFlush THEN ended \cup {r} ELSE ended
    /\ UNCHANGED <<step, phase, fwd, settled, written, flush, late>>

(* the body ends regularly: the task has returned and dropped the channel *)
BodyEnds(r) ==
    /\ ticket[r] = "body" /\ fwd[r] = "done" /\ ~Stopped
    /\ Ticket(r, "over")
    /\ ended' = IF BeforeFlush THEN ended \cup {r} ELSE ended
    /\ UNCHANGED <<step, phase, fwd, settled, written, flush, late>>

(* the client leaves, or an error item aborts the body: the ticket goes at once *)
BodyDropped(r) ==
    /\ ticket[r] = "body" /\ ~Stopped
    /\ Ticket(r, "over")
    /\ UNCHANGED <<step, phase, fwd, settled, written, flush, ended, late>>

(* the periodic flush; module UsageStore has its steps *)
PeriodicFlush ==
    /\ ~Stopped
    /\ written # settled
    /\ written' = settled
    /\ UNCHANGED <<step, phase, ticket, fwd, settled, flush, ended, late>>

-----------------------------------------------------------------------------
(* Gateway::shutdown. *)

BeginDrain ==
    /\ step = "serving"
    /\ step' = "drain" /\ phase' = "Draining"
    /\ UNCHANGED <<ticket, fwd, settled, written, flush, ended, late>>

(* mutant of DrainEnds: there is no deadline *)
DrainUnbounded ==
    /\ step = "drain"
    /\ Active = {}
    /\ step' = "check"
    /\ UNCHANGED <<phase, ticket, fwd, settled, written, flush, ended, late>>

(* Controller::drain: no request is active, or shutdown_grace is over *)
DrainEnds ==
    /\ step = "drain"
    /\ step' = "check"
    /\ UNCHANGED <<phase, ticket, fwd, settled, written, flush, ended, late>>

(* mutant of Check: it goes on without announcing *)
CheckSkipped ==
    /\ step = "check"
    /\ step' = "flush"
    /\ UNCHANGED <<phase, ticket, fwd, settled, written, flush, ended, late>>

Check ==
    /\ step = "check"
    /\ \/ Active # {} /\ step' = "window" /\ phase' = "Terminating"
       \/ Active = {} /\ step' = "flush" /\ UNCHANGED phase
    /\ UNCHANGED <<ticket, fwd, settled, written, flush, ended, late>>

(* await_end_event_window: no request is active, or END_EVENT_WINDOW is over *)
WindowEnds ==
    /\ step = "window"
    /\ step' = "flush"
    /\ UNCHANGED <<phase, ticket, fwd, settled, written, flush, ended, late>>

(* run_bounded: the flush is handed to the blocking pool *)
FlushBegins ==
    /\ step = "flush"
    /\ step' = "flushing"
    /\ flush' = [at |-> "queued", batch |-> {}]
    /\ UNCHANGED <<phase, ticket, fwd, settled, written, ended, late>>

FlushSnapshot ==
    /\ flush.at = "queued"
    /\ flush' = [at |-> "running", batch |-> settled]
    /\ UNCHANGED <<step, phase, ticket, fwd, settled, written, ended, late>>

(* a flush that is not waited for any more goes on until the process ends *)
FlushEnds ==
    /\ flush.at = "running"
    /\ \/ flush' = [flush EXCEPT !.at = "done"] /\ written' = written \cup flush.batch
       \/ flush' = [flush EXCEPT !.at = "failed"] /\ UNCHANGED written
    /\ UNCHANGED <<step, phase, ticket, fwd, settled, ended, late>>

(* the flush returned, panicked, or exceeded shutdown_flush_timeout *)
FlushAwaited ==
    /\ step = "flushing"
    /\ step' = "abort"
    /\ UNCHANGED <<phase, ticket, fwd, settled, written, flush, ended, late>>

(* abort_all drops the remaining tasks, which settle in memory (UsageCollector, Drop),
   but for those that were spawned and never polled: they own no collector yet *)
AbortAll ==
    /\ fwd' = [r \in Requests |-> IF r \in Live THEN "aborted" ELSE fwd[r]]
    /\ \E unpolled \in SUBSET {r \in Live : fwd[r] = "running"} :
          settled' = settled \cup (Live \ unpolled)
    /\ UNCHANGED <<phase, ticket, written, flush, ended, late>>

Abort ==
    /\ step = "abort"
    /\ step' = "done"
    /\ AbortAll

(* Drop for Gateway without shutdown() *)
GatewayDropped ==
    /\ step = "serving"
    /\ step' = "dropped"
    /\ AbortAll

ShutdownStep == DrainEnds \/ Check \/ WindowEnds \/ FlushBegins \/ FlushAwaited \/ Abort

Next ==
    \/ \E r \in Requests :
          \/ Enter(r) \/ HandlerEnds(r) \/ HeadArrives(r) \/ UpstreamEnds(r)
          \/ Abandons(r) \/ Settles(r) \/ BodyEnds(r) \/ BodyDropped(r)
    \/ PeriodicFlush \/ FlushSnapshot \/ FlushEnds
    \/ BeginDrain \/ GatewayDropped \/ ShutdownStep

Spec == Init /\ [][Next]_vars

(* The task of shutdown() runs, and each of its waits has a deadline. *)
FairSpec == Spec /\ WF_vars(ShutdownStep)

-----------------------------------------------------------------------------
TypeOK ==
    /\ step \in {"serving", "drain", "check", "window", "flush", "flushing", "abort",
                 "done", "dropped"}
    /\ phase \in {"Running", "Draining", "Terminating"}
    /\ ticket \in [Requests -> {"none", "handler", "body", "over"}]
    /\ fwd \in [Requests -> {"none", "running", "closing", "done", "aborted"}]
    /\ settled \subseteq Requests /\ written \subseteq settled
    /\ flush \in [at : {"none", "queued", "running", "done", "failed"}, batch : SUBSET settled]
    /\ ended \subseteq Requests /\ late \subseteq Requests
    /\ \A r \in Requests : /\ fwd[r] = "done" => r \in settled
                           /\ r \in settled => fwd[r] \in {"done", "aborted"}

(* If the final flush succeeded, the usage of every response that ended regularly before
   it is in the database when shutdown() returns: a body only ends after its task
   settled, and the flush comes after the drain (gateway.rs, forward.rs). *)
EndedIsBilled == step = "done" /\ flush.at = "done" => ended \subseteq written

(* A response that is cut by abort_all at the end of shutdown() while its client waits
   was told to finish first (Terminating), unless it only came in after the drain was
   over (gateway.rs). *)
CutWasAnnounced ==
    step = "done" =>
        \A r \in Requests : fwd[r] = "aborted" /\ ticket[r] = "body" /\ r \notin late
                                => phase = "Terminating"

(* shutdown() returns whatever clients, agents and the database do. *)
ShutdownReturns == step = "drain" ~> step = "done"

=============================================================================
