---------------------------- MODULE TunnelHealth ----------------------------
(***************************************************************************)
(* When does the gateway give up a tunnel: the verdicts of                 *)
(* Entry::head_timeout_is_fatal, the strikes of Registry::evict and the    *)
(* evidence that resets them (note_tunnel_op_ok, heartbeats).  One entry   *)
(* of the table from its registration on; the requests are those routed to *)
(* it.  Clock values are abstracted to the window they fall into, and time *)
(* may pass between any two steps.  A verdict reads atomics before evict   *)
(* takes the lock, so it is a step of its own.                             *)
(***************************************************************************)
EXTENDS Integers, FiniteSets

CONSTANTS
    Requests,
    TUNNEL_TIMEOUTS_BEFORE_EVICT

ASSUME HealthAssumption ==
    /\ IsFiniteSet(Requests)
    /\ TUNNEL_TIMEOUTS_BEFORE_EVICT \in Nat \ {0}

VARIABLES
    listed,     \* the entry is in the table
    lastHead,   \* age of last_head_ok
    fresh,      \* last_seen_millis is within agent_stale_after
    beaten,     \* last_heartbeat_millis # NEVER
    strikes,    \* open_timeouts, head_timeouts, tunnel_write_failures
    req,        \* where each request is; a cause while its verdict waits for the lock
    by,         \* the cause the entry was removed for
    early,      \* verdicts under way when the last response head arrived
    stuck       \* the agent beats but never answers again

vars == <<listed, lastHead, fresh, beaten, strikes, req, by, early, stuck>>

Causes == {"OpenTimeout", "HeadTimeout", "TunnelWriteFailed"}
(* never received, within head_alive_window, beyond it, beyond head_silent_grace *)
Ages   == {"never", "window", "quiet", "silent"}

Judged == {r \in Requests : req[r] \in Causes}

Init ==
    /\ listed = TRUE /\ lastHead = "never" /\ fresh = TRUE /\ beaten = FALSE
    /\ strikes = [c \in Causes |-> 0]
    /\ req = [r \in Requests |-> "idle"]
    /\ by = "none" /\ early = 0 /\ stuck = FALSE

(* Entry::peer_alive; its window is agent_stale_after too, and every heartbeat writes
   both clocks *)
PeerAlive == beaten /\ fresh

(* mutant of HeadTimeoutIsFatal: heartbeats excuse any silence *)
FatalUnlessBeating ==
    \/ lastHead = "never"
    \/ lastHead # "window" /\ ~PeerAlive

HeadTimeoutIsFatal ==
    \/ lastHead = "never"
    \/ lastHead # "window" /\ ~(PeerAlive /\ lastHead # "silent")

Goto(r, s) == req' = [req EXCEPT ![r] = s]

-----------------------------------------------------------------------------
(* A request acquires a slot: only a fresh entry is a candidate. *)
Begin(r) ==
    /\ req[r] = "idle"
    /\ listed /\ fresh
    /\ Goto(r, "setup")
    /\ UNCHANGED <<listed, lastHead, fresh, beaten, strikes, by, early, stuck>>

(* the stream is open and the request frame written *)
Sent(r) ==
    /\ req[r] = "setup"
    /\ Goto(r, "head")
    /\ UNCHANGED <<listed, lastHead, fresh, beaten, strikes, by, early, stuck>>

(* opening or writing fails; a busy node and a write timeout count nothing *)
SetupFails(r) ==
    /\ req[r] = "setup"
    /\ \E s \in {"OpenTimeout", "TunnelWriteFailed", "idle"} : Goto(r, s)
    /\ UNCHANGED <<listed, lastHead, fresh, beaten, strikes, by, early, stuck>>

(* mutant of HeadOk: the strikes are not reset *)
HeadOkKeepsStrikes(r) ==
    /\ req[r] = "head" /\ ~stuck
    /\ Goto(r, "idle")
    /\ \/ listed /\ lastHead' = "window" /\ early' = Cardinality(Judged)
       \/ ~listed /\ UNCHANGED <<lastHead, early>>
    /\ UNCHANGED <<listed, fresh, beaten, strikes, by, stuck>>

(* a response head arrives: note_tunnel_op_ok, if the entry is still in the table *)
HeadOk(r) ==
    /\ req[r] = "head" /\ ~stuck
    /\ Goto(r, "idle")
    /\ \/ /\ listed
          /\ strikes' = [c \in Causes |-> 0]
          /\ lastHead' = "window"
          /\ early' = Cardinality(Judged)
       \/ ~listed /\ UNCHANGED <<strikes, lastHead, early>>
    /\ UNCHANGED <<listed, fresh, beaten, by, stuck>>

(* an Error frame or a failed read (no evidence either way); the client leaves *)
HeadEnds(r) ==
    /\ req[r] = "head"
    /\ Goto(r, "idle")
    /\ UNCHANGED <<listed, lastHead, fresh, beaten, strikes, by, early, stuck>>

(* report_head_timeout: the verdict *)
HeadTimeout(r) ==
    /\ req[r] = "head"
    /\ Goto(r, IF HeadTimeoutIsFatal THEN "HeadTimeout" ELSE "idle")
    /\ UNCHANGED <<listed, lastHead, fresh, beaten, strikes, by, early, stuck>>

(* Registry::evict under the write lock *)
Strike(r) ==
    /\ req[r] \in Causes
    /\ Goto(r, "idle")
    /\ LET c == req[r] IN
       \/ /\ listed
          /\ strikes' = [strikes EXCEPT ![c] = @ + 1]
          /\ \/ strikes'[c] < TUNNEL_TIMEOUTS_BEFORE_EVICT /\ UNCHANGED <<listed, by>>
             \/ strikes'[c] >= TUNNEL_TIMEOUTS_BEFORE_EVICT /\ listed' = FALSE /\ by' = c
       \/ ~listed /\ UNCHANGED <<strikes, listed, by>>
    /\ UNCHANGED <<lastHead, fresh, beaten, early, stuck>>

Heartbeat ==
    /\ listed
    /\ fresh' = TRUE /\ beaten' = TRUE
    /\ UNCHANGED <<listed, lastHead, strikes, req, by, early, stuck>>

GoStale ==
    /\ fresh
    /\ fresh' = FALSE
    /\ UNCHANGED <<listed, lastHead, beaten, strikes, req, by, early, stuck>>

HeadAges ==
    /\ \/ lastHead = "window" /\ lastHead' \in {"quiet", "silent"}
       \/ lastHead = "quiet" /\ lastHead' = "silent"
    /\ UNCHANGED <<listed, fresh, beaten, strikes, req, by, early, stuck>>

(* the agent's data plane stops; its heartbeat task need not *)
GetsStuck ==
    /\ ~stuck
    /\ stuck' = TRUE
    /\ UNCHANGED <<listed, lastHead, fresh, beaten, strikes, req, by, early>>

Next ==
    \/ \E r \in Requests :
          \/ Begin(r) \/ Sent(r) \/ SetupFails(r) \/ HeadOk(r) \/ HeadEnds(r)
          \/ HeadTimeout(r) \/ Strike(r)
    \/ Heartbeat \/ GoStale \/ HeadAges \/ GetsStuck

Spec == Init /\ [][Next]_vars

(* Requests keep coming, some are sent and outwait head_timeout; tasks are scheduled
   and time passes. *)
Fairness ==
    /\ SF_vars(\E r \in Requests : Begin(r)) /\ SF_vars(\E r \in Requests : Sent(r))
    /\ SF_vars(\E r \in Requests : HeadTimeout(r))
    /\ WF_vars(\E r \in Requests : Strike(r))
    /\ WF_vars(HeadAges)

FairSpec == Spec /\ Fairness

-----------------------------------------------------------------------------
TypeOK ==
    /\ listed \in BOOLEAN /\ fresh \in BOOLEAN /\ beaten \in BOOLEAN /\ stuck \in BOOLEAN
    /\ lastHead \in Ages
    /\ strikes \in [Causes -> 0 .. TUNNEL_TIMEOUTS_BEFORE_EVICT]
    /\ req \in [Requests -> {"idle", "setup", "head"} \cup Causes]
    /\ by \in Causes \cup {"none"} /\ (listed <=> by = "none")
    /\ early \in 0 .. Cardinality(Requests)

(* An agent that answered within head_alive_window loses its entry for silence only if
   as many verdicts as the threshold were already on their way to the lock when it
   answered (report_head_timeout judges before evict takes the lock). *)
AnsweringIsKept ==
    by = "HeadTimeout" /\ lastHead = "window" => early >= TUNNEL_TIMEOUTS_BEFORE_EVICT

(* An agent that stops answering for good while it keeps beating does not stay in the
   table for ever: heartbeats only excuse silence up to head_silent_grace (entry.rs). *)
StuckIsEvicted == <>[]stuck /\ []<>fresh => <>~listed
=============================================================================
