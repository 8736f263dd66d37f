---------------------------- MODULE RequestPath ----------------------------
(***************************************************************************)
(* One request from the HTTP handler to the local model and back: the      *)
(* attempt loop (proxy/routing.rs), the wait for the response head         *)
(* (proxy/head.rs), the forwarding task (proxy/forward.rs, usage.rs), the  *)
(* agent's stream task (agent/stream.rs), the client that may stop reading *)
(* or leave, a tunnel that may break and a gateway that may shut down.     *)
(*                                                                         *)
(* Each attempt uses one bidirectional stream.  `up' is how much of the    *)
(* request frame the gateway handed to the stream, `sig' what follows it   *)
(* (a Cancel frame, or the end of the gateway's direction), `down' the     *)
(* frames on their way back.  Timeouts may fire whenever their wait lasts. *)
(***************************************************************************)
EXTENDS Integers, Sequences, FiniteSets

CONSTANTS
    Agents,
    MAX_TUNNEL_ATTEMPTS,
    ChannelCap,     \* capacity of the channel to the client, 32 in the code
    MaxChunks,      \* bound: chunks one upstream response may have
    NoAgent

ASSUME ConstantsAssumption ==
    /\ IsFiniteSet(Agents)
    /\ NoAgent \notin Agents
    /\ MAX_TUNNEL_ATTEMPTS \in Nat \ {0}
    /\ ChannelCap \in Nat \ {0}
    /\ MaxChunks \in Nat

VARIABLES
    pc,         \* where the gateway's task is
    cur,        \* the agent of the current attempt
    tried,      \* stable ids tried so far
    failed,     \* last_failure is Some
    answer,     \* what the handler answered
    sse,        \* is_stream
    item,       \* the item the forwarding task is sending to the client
    fin,        \* how forward_body ended
    up, sig, down, lost,    \* per agent: the stream of the attempt and its connection
    agent,      \* per agent: its stream task
    cancelled,  \* per agent: its cancellation token
    calls,      \* agents that have called their local upstream with this request
    made,       \* chunks the upstream has produced
    whole,      \* the upstream has produced its whole response
    chan, tx, rx,           \* channel to the client and its two ends
    got, ended,             \* what the client received, how the body ended for it
    lostMark,   \* a marker of an incomplete response did not reach the channel
    taken, charged, settled,  \* chunks read from the tunnel, observed, times settled
    phase       \* ShutdownPhase

gwVars    == <<pc, cur, tried, failed, answer, sse, item, fin>>
tunVars   == <<up, sig, down, lost>>
agentVars == <<agent, cancelled, calls, made, whole>>
cliVars   == <<chan, tx, rx, got, ended, lostMark>>
useVars   == <<taken, charged, settled>>
vars      == <<gwVars, tunVars, agentVars, cliVars, useVars, phase>>

Setup   == {"acquire", "open", "write", "await"}    \* inside the HTTP handler
Forward == {"top", "select", "push", "quit"}                 \* inside the forwarding task
Answers == {"none", "NoEdge", "ModelNotFound", "AtCapacity", "BadGateway",
            "UpstreamStatus", "TunnelRead", "HeadTimeout", "stream", "dropped"}
Ends    == {"none", "UpstreamEnd", "UpstreamTruncated", "UpstreamError", "UpstreamClosed",
            "TunnelError", "IdleTimeout", "ClientGone", "ClientStalled",
            "GatewayShutdown", "ProtocolViolation", "panicked"}
Frames  == {"head", "body", "oversized", "end", "trunc", "error"}

(* an item for the client: a body chunk, an SSE error event, or an error that aborts
   the body; `then' is how forward_body ends once a marker has been handled *)
Chunk(n)        == [kind |-> "chunk", n |-> n, then |-> "none"]
SseMark(then)   == [kind |-> "sse", n |-> 0, then |-> then]
ErrMark(then)   == [kind |-> "err", n |-> 0, then |-> then]
Items           == [kind : {"chunk", "sse", "err"}, n : 0 .. MaxChunks, then : Ends]
NoItem          == Chunk(0)
Frame(k, n)     == [kind |-> k, n |-> n]

Working == {"calling", "relaying"}

Init ==
    /\ pc = "acquire" /\ cur = NoAgent /\ tried = {} /\ failed = FALSE
    /\ answer = "none" /\ sse \in BOOLEAN /\ item = NoItem /\ fin = "none"
    /\ up = [a \in Agents |-> "none"] /\ sig = [a \in Agents |-> "none"]
    /\ down = [a \in Agents |-> <<>>] /\ lost = [a \in Agents |-> FALSE]
    /\ agent = [a \in Agents |-> "none"] /\ cancelled = [a \in Agents |-> FALSE]
    /\ calls = {} /\ made = 0 /\ whole = FALSE
    /\ chan = <<>> /\ tx = TRUE /\ rx = TRUE /\ got = <<>> /\ ended = "no"
    /\ lostMark = FALSE
    /\ taken = 0 /\ charged = 0 /\ settled = 0
    /\ phase = "Running"

-----------------------------------------------------------------------------
(* The HTTP handler: attempts. *)

(* the gateway's direction of the stream ends: finish(), or the SendStream is dropped *)
CloseSend == sig' = [sig EXCEPT ![cur] = IF @ = "none" THEN "closed" ELSE @]

(* tunnel_cancel bounded by op_timeout, then finish(): the Cancel frame may not get out *)
CancelSend == \E s \in {"cancel", "closed"} :
                 sig' = [sig EXCEPT ![cur] = IF @ = "none" THEN s ELSE @]

Reply(a) == pc' = "end" /\ answer' = a

(* routing.rs: the registry hands out an agent that was not tried yet *)
Acquire(a) ==
    /\ pc = "acquire"
    /\ a \notin tried
    /\ pc' = "open" /\ cur' = a /\ tried' = tried \cup {a}
    /\ UNCHANGED <<failed, answer, sse, item, fin, tunVars, agentVars, cliVars, useVars, phase>>

(* routing.rs, rejection_response: nobody left; an earlier tunnel failure wins *)
NoCandidate ==
    /\ pc = "acquire"
    /\ \/ failed /\ Reply("BadGateway")
       \/ ~failed /\ \E a \in {"NoEdge", "ModelNotFound", "AtCapacity"} : Reply(a)
    /\ UNCHANGED <<cur, tried, failed, sse, item, fin, tunVars, agentVars, cliVars, useVars, phase>>

(* an attempt failed before the request was on the stream: another agent, or give up *)
NextAttempt(counts, last) ==
    \/ /\ Cardinality(tried) >= MAX_TUNNEL_ATTEMPTS
       /\ Reply(last)
       /\ UNCHANGED failed
    \/ /\ Cardinality(tried) < MAX_TUNNEL_ATTEMPTS
       /\ pc' = "acquire" /\ failed' = (failed \/ counts)
       /\ UNCHANGED answer

OpenStream ==
    /\ pc = "open"
    /\ ~lost[cur]
    /\ pc' = "write"
    /\ up' = [up EXCEPT ![cur] = "open"]
    /\ agent' = [agent EXCEPT ![cur] = "reading"]
    /\ UNCHANGED <<cur, tried, failed, answer, sse, item, fin, sig, down, lost, cancelled,
                   calls, made, whole, cliVars, useVars, phase>>

(* routing.rs: a timeout while the node is full is `busy' and no tunnel failure *)
OpenFails ==
    /\ pc = "open"
    /\ NextAttempt(FALSE, "AtCapacity") \/ NextAttempt(TRUE, "BadGateway")
    /\ UNCHANGED <<cur, tried, sse, item, fin, tunVars, agentVars, cliVars, useVars, phase>>

(* mutant of WriteSome: the write may still fail once the whole frame was accepted *)
WriteSomeUnsure ==
    /\ pc = "write"
    /\ ~lost[cur]
    /\ \/ up[cur] = "open" /\ up' = [up EXCEPT ![cur] = "full"] /\ UNCHANGED pc
       \/ up' = [up EXCEPT ![cur] = "full"] /\ pc' = "await"
    /\ UNCHANGED <<cur, tried, failed, answer, sse, item, fin, sig, down, lost, agentVars,
                   cliVars, useVars, phase>>

(* write_all: the stream accepts a prefix of the frame, then the rest *)
WriteSome ==
    /\ pc = "write"
    /\ ~lost[cur]
    /\ \/ up[cur] = "open" /\ up' = [up EXCEPT ![cur] = "part"] /\ UNCHANGED pc
       \/ up' = [up EXCEPT ![cur] = "full"] /\ pc' = "await"
    /\ UNCHANGED <<cur, tried, failed, answer, sse, item, fin, sig, down, lost, agentVars,
                   cliVars, useVars, phase>>

(* the write fails or times out: the last byte was not accepted *)
WriteFails ==
    /\ pc = "write"
    /\ CloseSend
    /\ NextAttempt(TRUE, "BadGateway")
    /\ UNCHANGED <<cur, tried, sse, item, fin, up, down, lost, agentVars, cliVars, useVars, phase>>

-----------------------------------------------------------------------------
(* The HTTP handler: the response head. *)

Arrived(k) == down[cur] # <<>> /\ Head(down[cur]).kind \in k
TakeFrame  == down' = [down EXCEPT ![cur] = Tail(@)]
(* the agent closed its direction and everything it sent was read *)
Eof        == down[cur] = <<>> /\ agent[cur] = "done" /\ ~lost[cur]

(* head.rs: the head arrived; proxy/mod.rs spawns the forwarding task *)
HeadArrives ==
    /\ pc = "await"
    /\ Arrived({"head"})
    /\ TakeFrame
    /\ pc' = "top" /\ answer' = "stream"
    /\ UNCHANGED <<cur, tried, failed, sse, item, fin, up, sig, lost, agentVars, cliVars, useVars, phase>>

(* head.rs: an Error or End frame, the end of the stream, or a broken tunnel *)
HeadFails ==
    /\ pc = "await"
    /\ \/ Arrived({"error", "end", "trunc"}) /\ TakeFrame /\ Reply("UpstreamStatus")
       \/ Eof /\ Reply("UpstreamStatus") /\ UNCHANGED down
       \/ lost[cur] /\ Reply("TunnelRead") /\ UNCHANGED down
    /\ CloseSend
    /\ UNCHANGED <<cur, tried, failed, sse, item, fin, up, lost, agentVars, cliVars, useVars, phase>>

(* mutant of HeadTimeout: the request is sent to another agent *)
HeadTimeoutRetries ==
    /\ pc = "await"
    /\ CancelSend
    /\ NextAttempt(TRUE, "HeadTimeout")
    /\ UNCHANGED <<cur, tried, sse, item, fin, up, down, lost, agentVars, cliVars, useVars, phase>>

(* head.rs: head_timeout; the request may be running, so it is never sent again *)
HeadTimeout ==
    /\ pc = "await"
    /\ CancelSend
    /\ Reply("HeadTimeout")
    /\ UNCHANGED <<cur, tried, failed, sse, item, fin, up, down, lost, agentVars, cliVars, useVars, phase>>

(* the client leaves while the handler runs: hyper drops the handler's future *)
HandlerDropped ==
    /\ pc \in Setup
    /\ Reply("dropped")
    /\ \/ cur # NoAgent /\ CloseSend
       \/ cur = NoAgent /\ UNCHANGED sig
    /\ UNCHANGED <<cur, tried, failed, sse, item, fin, up, down, lost, agentVars, cliVars, useVars, phase>>

-----------------------------------------------------------------------------
(* The forwarding task, forward_body. *)

(* what every return of forward_body drops or settles *)
Leave(end) ==
    /\ pc' = "end" /\ fin' = end /\ item' = NoItem
    /\ tx' = FALSE
    /\ settled' = settled + 1

(* usage.rs, observe *)
Observe(i) == charged' = IF i.kind = "chunk" THEN charged + 1 ELSE charged

Terminating == phase = "Terminating"

(* mutant of EndSignal: `ok' is not read *)
EndSignalIgnoresOk(f) == <<>>

(* upstream_end_signal: nothing for a whole response, a marker for a truncated one *)
EndSignal(f) ==
    IF f = "end" THEN <<>>
    ELSE IF sse THEN <<SseMark("UpstreamTruncated")>> ELSE <<ErrMark("UpstreamTruncated")>>

SendItem(i) == pc' = "push" /\ item' = i

(* a chunk goes to the client; an oversized one, an Error frame, the end of the stream
   and a broken tunnel become an error that aborts the body *)
FrameArrives ==
    /\ pc = "select"
    /\ \/ /\ Arrived({"body"}) /\ TakeFrame
          /\ SendItem(Chunk(Head(down[cur]).n))
          /\ taken' = taken + 1
       \/ /\ Arrived({"oversized"}) /\ TakeFrame
          /\ SendItem(ErrMark("ProtocolViolation"))
          /\ UNCHANGED taken
       \/ /\ Arrived({"error"}) /\ TakeFrame
          /\ SendItem(ErrMark("UpstreamError"))
          /\ UNCHANGED taken
       \/ /\ Eof
          /\ SendItem(ErrMark("UpstreamClosed"))
          /\ UNCHANGED <<taken, down>>
       \/ /\ lost[cur]
          /\ SendItem(ErrMark("TunnelError"))
          /\ UNCHANGED <<taken, down>>
    /\ UNCHANGED <<cur, tried, failed, answer, sse, fin, up, sig, lost, agentVars, cliVars,
                   charged, settled, phase>>

(* ProxyResponseEnd *)
EndArrives ==
    /\ pc = "select"
    /\ Arrived({"end", "trunc"}) /\ TakeFrame
    /\ LET f == Head(down[cur]).kind
           s == EndSignal(f) IN
       \/ /\ s # <<>> /\ SendItem(s[1])
          /\ UNCHANGED <<fin, tx, settled, sig>>
       \/ /\ s = <<>>
          /\ Leave(IF f = "end" THEN "UpstreamEnd" ELSE "UpstreamTruncated")
          /\ CloseSend
    /\ UNCHANGED <<cur, tried, failed, answer, sse, up, lost, agentVars, chan, rx, got, ended,
                   lostMark, taken, charged, phase>>

(* no frame within idle_timeout *)
IdleTimeout ==
    /\ pc = "select"
    /\ SendItem(ErrMark("IdleTimeout"))
    /\ UNCHANGED <<cur, tried, failed, answer, sse, fin, tunVars, agentVars, cliVars, useVars, phase>>

(* tx.closed() while the upstream is silent *)
ClientClosed ==
    /\ pc = "select"
    /\ ~rx
    /\ Leave("ClientGone") /\ CancelSend
    /\ UNCHANGED <<cur, tried, failed, answer, sse, up, down, lost, agentVars, chan, rx, got,
                   ended, lostMark, taken, charged, phase>>

(* what follows the send of item i with the given outcome *)
AfterSend(i, outcome) ==
    \/ /\ i.kind = "chunk" /\ outcome \in {"Delivered", "ShuttingDown"}
       /\ pc' = "top" /\ item' = NoItem
       /\ UNCHANGED <<fin, tx, settled, sig>>
    \/ /\ i.kind = "chunk" /\ outcome \in {"ClientGone", "Stalled"}
       /\ Leave(IF outcome = "Stalled" THEN "ClientStalled" ELSE "ClientGone")
       /\ CancelSend
    \/ /\ i.kind # "chunk"
       /\ Leave(i.then)
       /\ IF i.then \in {"ProtocolViolation", "IdleTimeout", "GatewayShutdown"}
          THEN CancelSend ELSE CloseSend

Pushing == pc \in {"push", "quit"}
PushUnchanged == UNCHANGED <<cur, tried, failed, answer, sse, up, down, lost, agentVars, rx, got,
                             ended, taken, phase>>

Delivered ==
    /\ Pushing
    /\ rx /\ Len(chan) < ChannelCap
    /\ chan' = Append(chan, item)
    /\ Observe(item) /\ AfterSend(item, "Delivered")
    /\ UNCHANGED lostMark
    /\ PushUnchanged

(* mutants of NotDelivered: a full channel is waited for without a limit; what the
   client did not take is not charged *)
WaitForClient ==
    /\ Pushing
    /\ ~rx /\ AfterSend(item, "ClientGone")
    /\ Observe(item)
    /\ lostMark' = (lostMark \/ item.kind # "chunk")
    /\ UNCHANGED chan
    /\ PushUnchanged
UndeliveredIsFree ==
    /\ Pushing
    /\ \/ ~rx /\ AfterSend(item, "ClientGone")
       \/ rx /\ Len(chan) = ChannelCap /\ AfterSend(item, "Stalled")
    /\ lostMark' = (lostMark \/ item.kind # "chunk")
    /\ UNCHANGED <<chan, charged>>
    /\ PushUnchanged

(* the receiving end is gone, or the channel stays full for client_stall *)
NotDelivered ==
    /\ Pushing
    /\ \/ ~rx /\ AfterSend(item, "ClientGone")
       \/ rx /\ Len(chan) = ChannelCap /\ AfterSend(item, "Stalled")
    /\ Observe(item)
    /\ lostMark' = (lostMark \/ item.kind # "chunk")
    /\ UNCHANGED chan
    /\ PushUnchanged

(* mutant of ShutdownInterrupts: any change of phase gives up the item *)
AnyPhaseInterrupts ==
    /\ pc = "push"
    /\ phase # "Running"
    /\ AfterSend(item, "ShuttingDown")
    /\ Observe(item)
    /\ lostMark' = (lostMark \/ item.kind # "chunk")
    /\ UNCHANGED chan
    /\ PushUnchanged

(* send_to_client_or_shutdown: only Terminating gives up the item *)
ShutdownInterrupts ==
    /\ pc = "push"
    /\ Terminating
    /\ AfterSend(item, "ShuttingDown")
    /\ Observe(item)
    /\ lostMark' = (lostMark \/ item.kind # "chunk")
    /\ UNCHANGED chan
    /\ PushUnchanged

(* the top of the loop, when not Terminating; `changed()' in the select leads back to it *)
Select ==
    /\ \/ pc = "top" /\ ~Terminating /\ pc' = "select"
       \/ pc = "select" /\ Terminating /\ pc' = "top"
    /\ UNCHANGED <<cur, tried, failed, answer, sse, item, fin, tunVars, agentVars, cliVars,
                   useVars, phase>>

(* the top of the loop: an SSE body gets an error event, any other just ends *)
Quit ==
    /\ pc = "top"
    /\ Terminating
    /\ \/ /\ sse
          /\ pc' = "quit" /\ item' = SseMark("GatewayShutdown")
          /\ UNCHANGED <<fin, tx, settled, sig>>
       \/ /\ ~sse
          /\ Leave("GatewayShutdown") /\ CancelSend
    /\ UNCHANGED <<cur, tried, failed, answer, sse, up, down, lost, agentVars, chan, rx, got,
                   ended, lostMark, taken, charged, phase>>

(* Drop for ForwardGuard and UsageCollector when the task panics: an error is pushed if
   the channel has room (a task that is aborted is in module Shutdown) *)
Panic ==
    /\ pc \in Forward
    /\ Leave("panicked") /\ CloseSend
    /\ \/ rx /\ Len(chan) < ChannelCap /\ chan' = Append(chan, ErrMark("panicked")) /\ UNCHANGED lostMark
       \/ ~(rx /\ Len(chan) < ChannelCap) /\ lostMark' = TRUE /\ UNCHANGED chan
    /\ UNCHANGED <<cur, tried, failed, answer, sse, up, down, lost, agentVars, rx, got, ended,
                   taken, charged, phase>>

-----------------------------------------------------------------------------
(* The client: it reads at its own pace, stops reading, or leaves. *)

ClientReads ==
    /\ answer = "stream" /\ rx /\ ended = "no"
    /\ chan # <<>>
    /\ chan' = Tail(chan)
    /\ \/ Head(chan).kind = "err" /\ ended' = "aborted" /\ rx' = FALSE /\ UNCHANGED got
       \/ Head(chan).kind # "err" /\ got' = Append(got, Head(chan)) /\ UNCHANGED <<ended, rx>>
    /\ UNCHANGED <<gwVars, tunVars, agentVars, tx, lostMark, useVars, phase>>

(* the stream of items ends: hyper writes the terminating chunk *)
ClientSeesEnd ==
    /\ answer = "stream" /\ rx /\ ended = "no"
    /\ chan = <<>> /\ ~tx
    /\ ended' = "clean" /\ rx' = FALSE
    /\ UNCHANGED <<gwVars, tunVars, agentVars, chan, tx, got, lostMark, useVars, phase>>

ClientLeaves ==
    /\ answer = "stream" /\ rx
    /\ rx' = FALSE
    /\ UNCHANGED <<gwVars, tunVars, agentVars, chan, tx, got, ended, lostMark, useVars, phase>>

-----------------------------------------------------------------------------
(* The agent's stream task, handle_stream and forward. *)

AgentUnchanged == UNCHANGED <<gwVars, up, sig, lost, cliVars, useVars, phase>>
Send(a, f)  == down' = [down EXCEPT ![a] = Append(@, f)]
Become(a, s) == agent' = [agent EXCEPT ![a] = s]

(* the whole request frame is read: refused (path, method), or sent to the upstream *)
AgentStarts(a) ==
    /\ agent[a] = "reading" /\ up[a] = "full" /\ ~lost[a]
    /\ \/ Send(a, Frame("error", 0)) /\ Become(a, "done") /\ UNCHANGED calls
       \/ Become(a, "calling") /\ calls' = calls \cup {a} /\ UNCHANGED down
    /\ UNCHANGED <<cancelled, made, whole>>
    /\ AgentUnchanged

(* the frame never completes *)
AgentGivesUp(a) ==
    /\ agent[a] = "reading"
    /\ lost[a] \/ (up[a] # "full" /\ sig[a] # "none")
    /\ Become(a, "done")
    /\ UNCHANGED <<cancelled, calls, made, whole, down>>
    /\ AgentUnchanged

(* mutant of Listener: the end of the gateway's direction is not a cancel *)
ListenerCancelOnly(a) ==
    /\ agent[a] \in Working
    /\ sig[a] = "cancel"
    /\ cancelled' = [cancelled EXCEPT ![a] = TRUE]
    /\ UNCHANGED <<agent, calls, made, whole, down>>
    /\ AgentUnchanged

(* the listener task: Cancel, the end of the stream and a broken stream all cancel *)
Listener(a) ==
    /\ agent[a] \in Working /\ ~cancelled[a]
    /\ sig[a] # "none" \/ lost[a]
    /\ cancelled' = [cancelled EXCEPT ![a] = TRUE]
    /\ UNCHANGED <<agent, calls, made, whole, down>>
    /\ AgentUnchanged

(* the cancellation is noticed between two awaits: the upstream call is dropped *)
AgentCancels(a) ==
    /\ agent[a] \in Working /\ cancelled[a]
    /\ Become(a, "done")
    /\ \/ ~lost[a] /\ Send(a, Frame("error", 0))
       \/ lost[a] /\ UNCHANGED down
    /\ UNCHANGED <<cancelled, calls, made, whole>>
    /\ AgentUnchanged

(* the upstream answers, or cannot be reached *)
UpstreamAnswers(a) ==
    /\ agent[a] = "calling" /\ ~lost[a]
    /\ \/ Send(a, Frame("head", 0)) /\ Become(a, "relaying")
       \/ Send(a, Frame("error", 0)) /\ Become(a, "done")
    /\ UNCHANGED <<cancelled, calls, made, whole>>
    /\ AgentUnchanged

(* the agent cuts chunks to MAX_RESPONSE_CHUNK; one of another version may not *)
UpstreamChunk(a) ==
    /\ agent[a] = "relaying" /\ ~lost[a]
    /\ made < MaxChunks
    /\ made' = made + 1
    /\ \E k \in {"body", "oversized"} : Send(a, Frame(k, made + 1))
    /\ UNCHANGED <<agent, cancelled, calls, whole>>
    /\ AgentUnchanged

(* the body ends, or breaks off *)
UpstreamEnds(a) ==
    /\ agent[a] = "relaying" /\ ~lost[a]
    /\ \/ Send(a, Frame("end", 0)) /\ whole' = TRUE
       \/ Send(a, Frame("trunc", 0)) /\ UNCHANGED whole
    /\ Become(a, "done")
    /\ UNCHANGED <<cancelled, calls, made>>
    /\ AgentUnchanged

(* the connection to the agent breaks: what was on its way is gone *)
TunnelLost(a) ==
    /\ up[a] # "none" /\ ~lost[a]
    /\ lost' = [lost EXCEPT ![a] = TRUE]
    /\ down' = [down EXCEPT ![a] = <<>>]
    /\ UNCHANGED <<gwVars, up, sig, agentVars, cliVars, useVars, phase>>

PhaseAdvances ==
    /\ \/ phase = "Running" /\ phase' = "Draining"
       \/ phase = "Draining" /\ phase' = "Terminating"
    /\ UNCHANGED <<gwVars, tunVars, agentVars, cliVars, useVars>>

-----------------------------------------------------------------------------
HandlerStep ==
    \/ \E a \in Agents : Acquire(a)
    \/ NoCandidate \/ OpenStream \/ OpenFails \/ WriteSome \/ WriteFails
    \/ HeadArrives \/ HeadFails \/ HeadTimeout

ForwardStep ==
    \/ FrameArrives \/ EndArrives \/ IdleTimeout \/ ClientClosed
    \/ Delivered \/ NotDelivered \/ ShutdownInterrupts \/ Select \/ Quit

AgentStep(a) ==
    \/ AgentStarts(a) \/ AgentGivesUp(a) \/ Listener(a) \/ AgentCancels(a)
    \/ UpstreamAnswers(a) \/ UpstreamChunk(a) \/ UpstreamEnds(a)

Next ==
    \/ HandlerStep \/ HandlerDropped
    \/ ForwardStep \/ Panic
    \/ ClientReads \/ ClientSeesEnd \/ ClientLeaves
    \/ \E a \in Agents : AgentStep(a) \/ TunnelLost(a)
    \/ PhaseAdvances

Spec == Init /\ [][Next]_vars

(* The gateway's task is scheduled, every wait of it has a timeout, and the agent's
   task and listener are scheduled.  Nothing is assumed of the client, the upstream,
   the tunnel or the operator. *)
Fairness ==
    /\ WF_vars(HandlerStep) /\ WF_vars(ForwardStep)
    /\ \A a \in Agents : WF_vars(Listener(a)) /\ WF_vars(AgentCancels(a)) /\ WF_vars(AgentGivesUp(a))

FairSpec == Spec /\ Fairness

-----------------------------------------------------------------------------
(* Properties. *)

TypeOK ==
    /\ pc \in Setup \cup Forward \cup {"end"}
    /\ cur \in Agents \cup {NoAgent} /\ tried \subseteq Agents
    /\ failed \in BOOLEAN /\ sse \in BOOLEAN
    /\ answer \in Answers /\ fin \in Ends /\ item \in Items
    /\ up \in [Agents -> {"none", "open", "part", "full"}]
    /\ sig \in [Agents -> {"none", "cancel", "closed"}]
    /\ down \in [Agents -> Seq([kind : Frames, n : 0 .. MaxChunks])]
    /\ lost \in [Agents -> BOOLEAN]
    /\ agent \in [Agents -> {"none", "reading", "done"} \cup Working]
    /\ cancelled \in [Agents -> BOOLEAN]
    /\ calls \subseteq Agents /\ made \in 0 .. MaxChunks /\ whole \in BOOLEAN
    /\ chan \in Seq(Items) /\ tx \in BOOLEAN /\ rx \in BOOLEAN
    /\ Len(chan) <= ChannelCap
    /\ got \in Seq(Items) /\ ended \in {"no", "clean", "aborted"} /\ lostMark \in BOOLEAN
    /\ taken \in Nat /\ charged \in Nat /\ settled \in Nat
    /\ phase \in {"Running", "Draining", "Terminating"}

(* A request is handed to a local upstream at most once, whatever fails and however
   often the gateway retries (routing.rs retries only what was not sent; head.rs never
   retries). *)
AtMostOnce == Cardinality(calls) <= 1

(* When the client is told that no agent took the request (429, 404, 503, 502 of the
   attempt loop), no upstream ever saw it, so the client may safely send it again
   (routing.rs). *)
RefusedMeansNotRun ==
    answer \in {"NoEdge", "ModelNotFound", "AtCapacity", "BadGateway"} => calls = {}

(* what the client received: chunks, with at most an SSE error event behind them *)
Marked   == \E i \in 1 .. Len(got) : got[i].kind = "sse"
Received == Len(got) - (IF Marked THEN 1 ELSE 0)

(* The request as its client may think of it: module OneShot. *)
Fate == IF answer \in {"NoEdge", "ModelNotFound", "AtCapacity", "BadGateway"} THEN "refused"
        ELSE IF \E a \in Agents : up[a] = "full" THEN "sent"
        ELSE IF pc = "end" THEN "dropped" ELSE "pending"
Body == [i \in 1 .. Received |-> got[i].n]

Abstract == INSTANCE OneShot WITH fate <- Fate, ran <- (calls # {}), produced <- made, body <- Body

(* The request path implements OneShot: it is run only after it was sent and only once,
   a refusal is final, and the client receives the chunks of that run in order and
   without a gap, also across a shutdown that interrupts a send (forward.rs). *)
ImplementsOneShot == Abstract!Spec

(* A body that ends cleanly and without an error event is the whole response, except
   after a client stall, a termination of a body that is not an event stream, or a
   marker the full channel did not take (forward.rs: a truncated response must not look
   complete). *)
CleanEndIsWhole ==
    /\ ended = "clean" /\ ~Marked /\ ~lostMark
    /\ fin # "ClientStalled"
    /\ ~(fin = "GatewayShutdown" /\ ~sse)
    => whole /\ Received = made

(* Usage is settled exactly once per forwarded response, whichever way it ends, with
   every chunk taken from the tunnel, delivered or not; a panic loses at most the chunk
   in hand and never one the client received (usage.rs, forward.rs). *)
UsageIsSettled ==
    /\ settled = (IF answer = "stream" /\ pc = "end" THEN 1 ELSE 0)
    /\ Received <= charged
    /\ pc = "end" => charged >= taken - 1 /\ (fin # "panicked" => charged = taken)

(* The gateway's task ends, and with it the agent slot and the tenant slot it holds,
   even if the client, the agent or the upstream never does anything again
   (tunnel_op_timeout, head_timeout, request_timeout, client_stall); only an upstream
   that sends chunks for ever, beyond any MaxChunks, keeps it. *)
TaskEnds == <>(pc = "end")

(* Once the gateway is done with a request no agent keeps working on it: Cancel, the
   end of the stream and a broken tunnel all stop the upstream call (agent/stream.rs). *)
NoOrphanWork ==
    \A a \in Agents : (pc = "end" /\ agent[a] \in Working) ~> (agent[a] \notin Working)

=============================================================================
