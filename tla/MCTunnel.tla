------------------------------ MODULE MCTunnel ------------------------------
(***************************************************************************)
(* The two ends of a tunnel and the frames on it for TLC: TunnelHealth (the *)
(* gateway's verdict), AgentSession (the agent's) and FrameReader (both).  *)
(* They share no state; part says which of them a behaviour is about.      *)
(***************************************************************************)
EXTENDS TunnelHealth, AgentSession, FrameReader

VARIABLE part

tunnelVars == <<vars, agentVars, readerVars, part>>

Frame(kind, len) == [kind |-> kind, len |-> len]

(* up to three frames, an empty one among them; the last may be no frame, or too long *)
MCStreams ==
    LET Good  == {Frame("frame", 0), Frame("frame", 2)}
        Final == Good \cup {Frame("frame", 3), Frame("noise", 1), Frame("frame", 4)}
    IN  {<<>>} \cup {<<l>> : l \in Final} \cup {<<g, l>> : g \in Good, l \in Final}
        \cup {<<g, h, l>> : g \in Good, h \in Good, l \in Good}

(* the other parts rest in a state of theirs in which nothing is due: an entry that was
   removed, an agent that was told to stop, a stream without frames *)
EntryGone ==
    /\ listed = FALSE /\ by = "OpenTimeout" /\ lastHead = "never" /\ fresh = TRUE /\ beaten = FALSE
    /\ strikes = [c \in Causes |-> IF c = by THEN TUNNEL_TIMEOUTS_BEFORE_EVICT ELSE 0]
    /\ req = [r \in Requests |-> "idle"] /\ early = 0 /\ stuck = FALSE

AgentStopped ==
    /\ run = "connecting" /\ Quiet /\ level = 0 /\ long = FALSE /\ proc = "stopped"
    /\ max_concurrency = 0

TunnelInit ==
    /\ part \in {"health", "agent", "reader"}
    /\ IF part = "health" THEN Init ELSE EntryGone
    /\ IF part = "agent" THEN AgentInit ELSE AgentStopped
    /\ ReaderInit /\ (part # "reader" => sending = <<>>)

TunnelNext ==
    \/ part = "health" /\ Next /\ UNCHANGED <<agentVars, readerVars, part>>
    \/ part = "agent" /\ AgentNext /\ UNCHANGED <<vars, readerVars, part>>
    \/ part = "reader" /\ ReaderNext /\ UNCHANGED <<vars, agentVars, part>>

TunnelSpec == TunnelInit /\ [][TunnelNext]_tunnelVars /\ Fairness /\ AgentFairness
=============================================================================
