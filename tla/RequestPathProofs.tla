------------------------- MODULE RequestPathProofs -------------------------
(***************************************************************************)
(* For every set of agents, every limit on the attempts, every capacity of *)
(* the channel and every length of an answer: a request runs on at most    *)
(* one upstream, and on none when the client is told that no agent took    *)
(* it; what reaches the client is a prefix of what the agent produced, a   *)
(* clean end comes after the whole of it, and the usage is settled once;   *)
(* so the path implements OneShot.                                         *)
(***************************************************************************)
EXTENDS RequestPath, FiniteSetTheorems, TLAPS

Refused == {"NoEdge", "ModelNotFound", "AtCapacity", "BadGateway"}

(* Only the current attempt, and only once it has left the attempt loop, has the whole
   frame on its stream; only such an agent can have called its upstream. *)
SentOnce ==
    /\ cur \in Agents \cup {NoAgent}
    /\ pc \in {"open", "write", "await"} => cur \in Agents
    /\ DOMAIN up = Agents
    /\ \A a \in Agents : up[a] = "full" => a = cur /\ pc \notin {"acquire", "open", "write"}
    /\ calls \subseteq {a \in Agents : up[a] = "full"}
    /\ answer \in Refused => pc = "end" /\ \A a \in Agents : up[a] # "full"

(* SentOnce holds initially. *)
LEMMA SentOnceInit == Init => SentOnce
  BY DEF Init, SentOnce, Refused

(* A step that leaves the streams and the calls alone and either stays clear of the
   attempt loop or gives up before the frame was sent. *)
LEMMA SentOnceKept ==
    ASSUME SentOnce, UNCHANGED <<cur, up, calls>>,
           \/ UNCHANGED <<pc, answer>>
           \/ /\ pc \notin {"acquire", "open", "write", "end"}
              /\ pc' \notin {"acquire", "open", "write", "await"}
              /\ answer' = answer \/ answer' \notin Refused
           \/ /\ pc \in {"acquire", "open", "write"}
              /\ pc' \in {"acquire", "end"}
              /\ answer' = answer \/ pc' = "end"
    PROVE  SentOnce'
  BY DEF SentOnce

(* Every step preserves SentOnce. *)
LEMMA SentOnceNext == SentOnce /\ [Next]_vars => SentOnce'
  <1> SUFFICES ASSUME SentOnce, [Next]_vars PROVE SentOnce'
    OBVIOUS
  <1>1. CASE UNCHANGED vars
    BY <1>1, SentOnceKept DEF vars, gwVars, tunVars, agentVars
  <1>2. ASSUME NEW a \in Agents, Acquire(a) PROVE SentOnce'
    BY <1>2 DEF Acquire, SentOnce, tunVars, agentVars
  <1>3. CASE NoCandidate
    BY <1>3, SentOnceKept DEF NoCandidate, Reply, tunVars, agentVars
  <1>4. CASE OpenStream
    BY <1>4 DEF OpenStream, SentOnce
  <1>5. CASE OpenFails
    BY <1>5, SentOnceKept DEF OpenFails, NextAttempt, Reply, tunVars, agentVars
  <1>6. CASE WriteSome
    BY <1>6 DEF WriteSome, SentOnce, Refused, agentVars
  <1>7. CASE WriteFails
    BY <1>7, SentOnceKept DEF WriteFails, NextAttempt, Reply, agentVars
  <1>8. CASE HeadArrives
    BY <1>8, SentOnceKept DEF HeadArrives, Refused, agentVars
  <1>9. CASE HeadFails
    BY <1>9, SentOnceKept DEF HeadFails, Reply, Refused, agentVars
  <1>10. CASE HeadTimeout
    BY <1>10, SentOnceKept DEF HeadTimeout, Reply, Refused, agentVars
  <1>11. CASE HandlerDropped
    BY <1>11 DEF HandlerDropped, Reply, Refused, SentOnce, agentVars
  <1>12. CASE ForwardStep \/ Panic
    <2>1. UNCHANGED <<cur, up, calls, answer>>
      BY <1>12 DEF ForwardStep, FrameArrives, EndArrives, IdleTimeout, ClientClosed, Delivered,
                   NotDelivered, ShutdownInterrupts, Select, Quit, Panic, PushUnchanged,
                   tunVars, agentVars
    <2>2. pc \in Forward
      BY <1>12 DEF ForwardStep, FrameArrives, EndArrives, IdleTimeout, ClientClosed, Delivered,
                   NotDelivered, ShutdownInterrupts, Select, Quit, Panic, Pushing, Forward
    <2>3. pc' \in Forward \cup {"end"}
      BY <1>12 DEF ForwardStep, FrameArrives, EndArrives, IdleTimeout, ClientClosed, Delivered,
                   NotDelivered, ShutdownInterrupts, Select, Quit, Panic, SendItem, Leave,
                   AfterSend, Forward
    <2>4. QED
      BY <2>1, <2>2, <2>3, SentOnceKept DEF Forward
  <1>13. CASE ClientReads \/ ClientSeesEnd \/ ClientLeaves
    BY <1>13, SentOnceKept
       DEF ClientReads, ClientSeesEnd, ClientLeaves, gwVars, tunVars, agentVars
  <1>14. ASSUME NEW a \in Agents, AgentStarts(a) PROVE SentOnce'
    BY <1>14 DEF AgentStarts, AgentUnchanged, SentOnce, gwVars
  <1>15. ASSUME NEW a \in Agents, AgentStep(a), ~AgentStarts(a) PROVE SentOnce'
    BY <1>15, SentOnceKept
       DEF AgentStep, AgentGivesUp, Listener, AgentCancels, UpstreamAnswers, UpstreamChunk,
           UpstreamEnds, AgentUnchanged, gwVars
  <1>16. ASSUME NEW a \in Agents, TunnelLost(a) PROVE SentOnce'
    BY <1>16, SentOnceKept DEF TunnelLost, gwVars, agentVars
  <1>17. CASE PhaseAdvances
    BY <1>17, SentOnceKept DEF PhaseAdvances, gwVars, tunVars, agentVars
  <1>18. QED
    BY <1>1, <1>2, <1>3, <1>4, <1>5, <1>6, <1>7, <1>8, <1>9, <1>10, <1>11, <1>12, <1>13,
       <1>14, <1>15, <1>16, <1>17 DEF Next, HandlerStep

(* SentOnce is an invariant. *)
LEMMA SentOnceInvariance == Spec => []SentOnce
  BY SentOnceInit, SentOnceNext, PTL DEF Spec

(* The request is handed to at most one local upstream (routing.rs, head.rs). *)
THEOREM RunsAtMostOnce == Spec => []AtMostOnce
  <1>1. SentOnce => AtMostOnce
    <2> SUFFICES ASSUME SentOnce PROVE Cardinality(calls) <= 1
      BY DEF AtMostOnce
    <2>1. calls \subseteq {cur}
      BY DEF SentOnce
    <2>2. IsFiniteSet({cur}) /\ Cardinality({cur}) = 1
      BY FS_Singleton
    <2>3. QED
      BY <2>1, <2>2, FS_Subset
  <1>2. QED
    BY <1>1, SentOnceInvariance, PTL

(* A request refused by the attempt loop was seen by no upstream (routing.rs). *)
THEOREM RefusedWasNotRun == Spec => []RefusedMeansNotRun
  <1>1. SentOnce => RefusedMeansNotRun
    BY DEF SentOnce, RefusedMeansNotRun, Refused
  <1>2. QED
    BY <1>1, SentOnceInvariance, PTL

-----------------------------------------------------------------------------
(* The response.  Along the path from the upstream to the client a chunk carries its
   number; the invariant says which numbers are where. *)

(* Nothing of the body exists before the head was forwarded; from then on one agent,
   that of the last attempt, has the request. *)
BodySound ==
    /\ answer # "stream" =>
          /\ pc \notin Forward
          /\ got = <<>> /\ chan = <<>> /\ taken = 0 /\ charged = 0 /\ settled = 0
          /\ ended = "no" /\ fin = "none" /\ tx
    /\ answer = "stream" =>
          /\ pc \in Forward \cup {"end"}
          /\ cur \in Agents /\ up[cur] = "full" /\ agent[cur] \in {"relaying", "done"}

(* Only an agent that got the whole frame works, calls its upstream and sends frames. *)
AgentSound ==
    /\ \A a \in Agents :
          /\ agent[a] \in Working => up[a] = "full" /\ a \in calls
          /\ a \in calls => agent[a] \in Working \cup {"done"}
          /\ lost[a] => down[a] = <<>>
          /\ down[a] # <<>> => up[a] = "full" /\ agent[a] \in {"relaying", "done"}
    /\ whole \/ made > 0 => cur \in Agents /\ up[cur] = "full" /\ agent[cur] \in {"relaying", "done"}
    /\ whole => agent[cur] = "done"

(* The gateway still reads from the stream of the current attempt. *)
Reading == pc \in {"await", "top", "select"} \/ (pc = "push" /\ item.kind = "chunk")
(* the head is the first frame as long as it is awaited *)
Ahead   == IF pc = "await" THEN 1 ELSE 0

(* The frames on their way continue what was taken, without a gap, and end with at most
   one final frame, which only a finished agent has sent. *)
StreamSound ==
    Reading =>
        LET s == down[cur] IN
        /\ \A i \in 1 .. Len(s) :
              /\ s[i].kind = "head" => pc = "await" /\ i = 1
              /\ i = 1 /\ pc = "await" => s[i].kind \in {"head", "error"}
              /\ s[i].kind \in {"body", "oversized"} => s[i].n = taken + i - Ahead /\ s[i].n <= made
              /\ s[i].kind \in {"end", "trunc", "error"} => i = Len(s) /\ agent[cur] = "done"
              /\ s[i].kind = "end" => whole /\ made = taken + i - 1 - Ahead
        /\ agent[cur] = "relaying" /\ ~lost[cur] =>
              made = taken + Len(s) - Ahead /\ (pc = "await" => s # <<>>)

(* The ends of forward_body that leave a marker. *)
MarkedEnds == {"UpstreamTruncated", "UpstreamError", "UpstreamClosed", "TunnelError",
               "IdleTimeout", "ProtocolViolation"}

(* The item in hand is the chunk taken last, or a marker. *)
ItemSound ==
    /\ pc = "push" /\ item.kind = "chunk" => item.n = taken /\ taken > 0
    /\ pc = "push" /\ item.kind # "chunk" => item.then \in MarkedEnds
    /\ pc = "quit" => item = SseMark("GatewayShutdown") /\ sse

(* What the client received and what waits for it: the chunks from the first on, and a
   marker only at the very end. *)
ClientSound ==
    /\ \A i \in 1 .. Len(got) :
          /\ got[i].kind = "chunk" => got[i].n = i /\ i <= charged
          /\ got[i].kind # "chunk" => got[i].kind = "sse" /\ i = Len(got) /\ chan = <<>> /\ pc = "end"
    /\ \A i \in 1 .. Len(chan) :
          /\ chan[i].kind = "chunk" => chan[i].n = Len(got) + i /\ Len(got) + i <= charged
          /\ chan[i].kind # "chunk" => i = Len(chan) /\ pc = "end"

(* Every chunk taken is with the client, on its way to it, in hand, or given up by a
   termination, and is charged when it leaves the hand. *)
CountSound ==
    /\ taken <= made /\ charged <= taken
    /\ \/ pc = "select"
       \/ pc = "top" /\ ~Terminating
       \/ pc = "push" /\ item.kind # "chunk"
       => Len(got) + Len(chan) = taken
    /\ pc = "push" /\ item.kind = "chunk" => Len(got) + Len(chan) = taken - 1 /\ charged = taken - 1
    /\ pc \in {"top", "select", "quit"} \/ (pc = "push" /\ item.kind # "chunk") => charged = taken
    /\ pc = "end" => charged >= taken - 1 /\ (fin # "panicked" => charged = taken)
    /\ settled = (IF answer = "stream" /\ pc = "end" THEN 1 ELSE 0)

(* How a body that ended may look. *)
EndSound ==
    /\ answer = "stream" /\ pc # "end" => tx
    /\ ended = "clean" => pc = "end" /\ chan = <<>> /\ ~rx
    /\ answer = "stream" /\ pc = "end" =>
          \/ /\ fin = "UpstreamEnd"
             /\ whole /\ made = Len(got) + Len(chan)
             /\ \A i \in 1 .. Len(got) : got[i].kind = "chunk"
             /\ \A i \in 1 .. Len(chan) : chan[i].kind = "chunk"
          \/ fin = "ClientGone" /\ ~rx /\ ended # "clean"
          \/ fin = "ClientStalled"
          \/ fin = "GatewayShutdown" /\ ~sse
          \/ lostMark
          \/ ended = "aborted"
          \/ Marked
          \/ chan # <<>> /\ chan[Len(chan)].kind # "chunk"

(* The inductive invariant of the response. *)
FlowInv ==
    /\ TypeOK /\ SentOnce
    /\ BodySound /\ AgentSound /\ StreamSound
    /\ ItemSound /\ ClientSound /\ CountSound /\ EndSound

(* Taking the first element of a queue, *)
LEMMA TailFacts ==
    ASSUME NEW S, NEW s \in Seq(S), s # <<>>
    PROVE  /\ Tail(s) \in Seq(S) /\ Len(Tail(s)) = Len(s) - 1 /\ Len(s) \in Nat /\ Len(s) > 0
           /\ \A i \in 1 .. Len(s) - 1 : Tail(s)[i] = s[i + 1]
           /\ Head(s) = s[1] /\ s[1] \in S
  OBVIOUS

(* ... and adding one at its end. *)
LEMMA AppendFacts ==
    ASSUME NEW S, NEW s \in Seq(S), NEW e \in S
    PROVE  /\ Append(s, e) \in Seq(S) /\ Len(Append(s, e)) = Len(s) + 1 /\ Len(s) \in Nat
           /\ \A i \in 1 .. Len(s) : Append(s, e)[i] = s[i]
           /\ Append(s, e)[Len(s) + 1] = e
           /\ Append(s, e) # <<>>
  OBVIOUS

(* Chunks, markers and frames are well typed. *)
LEMMA ItemTypes ==
    /\ \A n \in 0 .. MaxChunks : Chunk(n) \in Items
    /\ \A e \in Ends : SseMark(e) \in Items /\ ErrMark(e) \in Items
    /\ NoItem \in Items
    /\ \A k \in Frames, n \in 0 .. MaxChunks : Frame(k, n) \in [kind : Frames, n : 0 .. MaxChunks]
  BY ConstantsAssumption DEF Chunk, SseMark, ErrMark, NoItem, Items, Frame, Ends

(* TypeOK by the groups of variables that steps leave alone. *)
GwType ==
    /\ pc \in Setup \cup Forward \cup {"end"}
    /\ cur \in Agents \cup {NoAgent} /\ tried \subseteq Agents
    /\ failed \in BOOLEAN /\ sse \in BOOLEAN
    /\ answer \in Answers /\ fin \in Ends /\ item \in Items
TunType ==
    /\ up \in [Agents -> {"none", "open", "part", "full"}]
    /\ sig \in [Agents -> {"none", "cancel", "closed"}]
    /\ down \in [Agents -> Seq([kind : Frames, n : 0 .. MaxChunks])]
    /\ lost \in [Agents -> BOOLEAN]
AgentType ==
    /\ agent \in [Agents -> {"none", "reading", "done"} \cup Working]
    /\ cancelled \in [Agents -> BOOLEAN]
    /\ calls \subseteq Agents /\ made \in 0 .. MaxChunks /\ whole \in BOOLEAN
CliType ==
    /\ chan \in Seq(Items) /\ tx \in BOOLEAN /\ rx \in BOOLEAN
    /\ Len(chan) <= ChannelCap
    /\ got \in Seq(Items) /\ ended \in {"no", "clean", "aborted"} /\ lostMark \in BOOLEAN
UseType == taken \in Nat /\ charged \in Nat /\ settled \in Nat
PhaseType == phase \in {"Running", "Draining", "Terminating"}

(* TypeOK is its parts, *)
LEMMA TypeParts ==
    TypeOK <=> GwType /\ TunType /\ AgentType /\ CliType /\ UseType /\ PhaseType
  BY DEF TypeOK, GwType, TunType, AgentType, CliType, UseType, PhaseType

(* ... in the next state too. *)
LEMMA TypePartsNext ==
    TypeOK' <=> (GwType /\ TunType /\ AgentType /\ CliType /\ UseType /\ PhaseType)'
  BY DEF TypeOK, GwType, TunType, AgentType, CliType, UseType, PhaseType

(* Closing or cancelling the send side keeps its type. *)
LEMMA SigType ==
    ASSUME TypeOK, CloseSend \/ CancelSend
    PROVE  sig' \in [Agents -> {"none", "cancel", "closed"}]
  BY DEF TypeOK, CloseSend, CancelSend

(* Taking a frame leaves the other streams alone and the rest of this one. *)
LEMMA TakeType ==
    ASSUME TypeOK, NEW k, Arrived(k), TakeFrame, cur \in Agents
    PROVE  /\ down' \in [Agents -> Seq([kind : Frames, n : 0 .. MaxChunks])]
           /\ down'[cur] = Tail(down[cur]) /\ \A a \in Agents \ {cur} : down'[a] = down[a]
           /\ down[cur] \in Seq([kind : Frames, n : 0 .. MaxChunks]) /\ down[cur] # <<>>
           /\ Head(down[cur]) = down[cur][1] /\ down[cur][1].kind \in k
           /\ down[cur][1].n \in 0 .. MaxChunks
           /\ Len(down[cur]) \in Nat /\ Len(down[cur]) > 0 /\ Len(down'[cur]) = Len(down[cur]) - 1
           /\ \A i \in 1 .. Len(down[cur]) - 1 : down'[cur][i] = down[cur][i + 1]
  <1> DEFINE s == down[cur]
             F == [kind : Frames, n : 0 .. MaxChunks]
  <1>1. s \in Seq(F) /\ s # <<>>
    BY DEF TypeOK, Arrived
  <1>2. /\ Tail(s) \in Seq(F) /\ Len(Tail(s)) = Len(s) - 1 /\ Len(s) \in Nat /\ Len(s) > 0
        /\ \A i \in 1 .. Len(s) - 1 : Tail(s)[i] = s[i + 1]
        /\ Head(s) = s[1] /\ s[1] \in F
    <2> HIDE DEF s, F
    <2> QED
      BY <1>1, TailFacts
  <1>3. down' = [down EXCEPT ![cur] = Tail(s)] /\ down \in [Agents -> Seq(F)]
    BY DEF TakeFrame, TypeOK
  <1>4. s[1].kind \in k
    BY <1>2 DEF Arrived
  <1> HIDE DEF s
  <1>5. down'[cur] = Tail(s) /\ (\A a \in Agents \ {cur} : down'[a] = down[a]) /\ down' \in [Agents -> Seq(F)]
    BY <1>2, <1>3
  <1> QED
    BY <1>1, <1>2, <1>4, <1>5 DEF s

(* Sending a frame puts it behind the others of its stream. *)
LEMMA SendType ==
    ASSUME TypeOK, NEW a \in Agents, NEW f \in [kind : Frames, n : 0 .. MaxChunks], Send(a, f)
    PROVE  /\ down' \in [Agents -> Seq([kind : Frames, n : 0 .. MaxChunks])]
           /\ \A b \in Agents \ {a} : down'[b] = down[b]
           /\ Len(down[a]) \in Nat /\ Len(down'[a]) = Len(down[a]) + 1
           /\ \A i \in 1 .. Len(down[a]) : down'[a][i] = down[a][i]
           /\ down'[a][Len(down[a]) + 1] = f
           /\ down'[a] # <<>>
  <1> DEFINE s == down[a]
             F == [kind : Frames, n : 0 .. MaxChunks]
  <1>1. s \in Seq(F)
    BY DEF TypeOK
  <1>2. /\ Append(s, f) \in Seq(F) /\ Len(Append(s, f)) = Len(s) + 1 /\ Len(s) \in Nat
        /\ \A i \in 1 .. Len(s) : Append(s, f)[i] = s[i]
        /\ Append(s, f)[Len(s) + 1] = f
        /\ Append(s, f) # <<>>
    <2> HIDE DEF s, F
    <2>1. f \in F
      BY DEF F
    <2> QED
      BY <1>1, <2>1, AppendFacts
  <1>3. down' = [down EXCEPT ![a] = Append(s, f)] /\ down \in [Agents -> Seq(F)]
    BY DEF Send, TypeOK
  <1> HIDE DEF s
  <1>4. down'[a] = Append(s, f) /\ (\A b \in Agents \ {a} : down'[b] = down[b]) /\ down' \in [Agents -> Seq(F)]
    BY <1>2, <1>3
  <1> QED
    BY <1>1, <1>2, <1>4 DEF s

-----------------------------------------------------------------------------
(* The handler: nothing of the body exists yet. *)

HandlerTouches == UNCHANGED <<sse, item, fin, lost, cancelled, calls, made, whole, cliVars, useVars, phase>>

(* The steps before the head is forwarded keep the types, *)
LEMMA HandlerType ==
    ASSUME FlowInv, HandlerStep \/ HandlerDropped
    PROVE  TypeOK' /\ HandlerTouches /\ pc \in Setup
  <1>a. TypeOK /\ SentOnce
    BY DEF FlowInv
  <1>b. GwType /\ TunType /\ AgentType /\ CliType /\ UseType /\ PhaseType
    BY <1>a, TypeParts
  <1>c. ASSUME HandlerTouches, sig' = sig \/ CloseSend \/ CancelSend,
               down' \in [Agents -> Seq([kind : Frames, n : 0 .. MaxChunks])],
               up' \in [Agents -> {"none", "open", "part", "full"}],
               agent' \in [Agents -> {"none", "reading", "done"} \cup Working],
               pc' \in Setup \cup Forward \cup {"end"}, cur' \in Agents \cup {NoAgent},
               tried' \subseteq Agents, failed' \in BOOLEAN, answer' \in Answers
        PROVE  TypeOK'
    <2>1. sig' \in [Agents -> {"none", "cancel", "closed"}]
      BY <1>a, <1>b, <1>c, SigType DEF TunType
    <2>2. GwType' /\ TunType' /\ AgentType'
      BY <1>b, <1>c, <2>1 DEF HandlerTouches, GwType, TunType, AgentType
    <2>3. CliType' /\ UseType' /\ PhaseType'
      BY <1>b, <1>c DEF HandlerTouches, CliType, UseType, PhaseType, cliVars, useVars
    <2> QED
      BY <2>2, <2>3, TypePartsNext
  <1>d. /\ down \in [Agents -> Seq([kind : Frames, n : 0 .. MaxChunks])]
        /\ up \in [Agents -> {"none", "open", "part", "full"}]
        /\ agent \in [Agents -> {"none", "reading", "done"} \cup Working]
        /\ tried \subseteq Agents /\ failed \in BOOLEAN /\ answer \in Answers
        /\ cur \in Agents \cup {NoAgent}
    BY <1>b DEF GwType, TunType, AgentType
  <1> USE DEF HandlerTouches, tunVars, agentVars, Setup
  <1>1. ASSUME NEW a \in Agents, Acquire(a) PROVE TypeOK' /\ HandlerTouches /\ pc \in Setup
    BY <1>1, <1>c, <1>d DEF Acquire
  <1>2. CASE NoCandidate
    BY <1>2, <1>c, <1>d DEF NoCandidate, Reply, Answers
  <1>3. CASE OpenStream
    BY <1>3, <1>c, <1>d DEF OpenStream
  <1>4. CASE OpenFails
    BY <1>4, <1>c, <1>d DEF OpenFails, NextAttempt, Reply, Answers
  <1>5. CASE WriteSome
    BY <1>5, <1>c, <1>d DEF WriteSome
  <1>6. CASE WriteFails
    BY <1>6, <1>c, <1>d DEF WriteFails, NextAttempt, Reply, Answers
  <1>7. CASE HeadArrives
    <2>1. down' \in [Agents -> Seq([kind : Frames, n : 0 .. MaxChunks])]
      BY <1>7, <1>a, TakeType DEF HeadArrives, SentOnce
    <2> QED
      BY <1>7, <1>c, <1>d, <2>1 DEF HeadArrives, Forward, Answers
  <1>8. CASE HeadFails
    <2>1. down' \in [Agents -> Seq([kind : Frames, n : 0 .. MaxChunks])]
      BY <1>8, <1>a, <1>d, TakeType DEF HeadFails, SentOnce
    <2> QED
      BY <1>8, <1>c, <1>d, <2>1 DEF HeadFails, Reply, Answers
  <1>9. CASE HeadTimeout
    BY <1>9, <1>c, <1>d DEF HeadTimeout, Reply, Answers
  <1>10. CASE HandlerDropped
    BY <1>10, <1>c, <1>d DEF HandlerDropped, Reply, Answers
  <1> QED
    BY <1>1, <1>2, <1>3, <1>4, <1>5, <1>6, <1>7, <1>8, <1>9, <1>10 DEF HandlerStep

(* As long as the head was not forwarded there is no body to lose. *)
LEMMA SetupKeeps ==
    ASSUME FlowInv, pc \in Setup, HandlerTouches, answer' # "stream", pc' \in Setup \cup {"end"}
    PROVE  BodySound' /\ ItemSound' /\ ClientSound' /\ CountSound' /\ EndSound'
  <1>1. /\ answer # "stream" /\ got = <<>> /\ chan = <<>> /\ taken = 0 /\ charged = 0 /\ settled = 0
        /\ ended = "no" /\ fin = "none" /\ tx /\ made \in Nat
    BY DEF FlowInv, BodySound, Setup, Forward, TypeOK
  <1>2. UNCHANGED <<got, chan, taken, charged, settled, ended, fin, tx, made>>
    BY DEF HandlerTouches, cliVars, useVars
  <1> QED
    BY <1>1, <1>2 DEF BodySound, ItemSound, ClientSound, CountSound, EndSound, Setup, Forward

(* ... and preserve FlowInv: there is no body yet. *)
LEMMA HandlerFlow ==
    ASSUME FlowInv, [Next]_vars, HandlerStep \/ HandlerDropped
    PROVE  FlowInv'
  <1>a. /\ TypeOK /\ SentOnce /\ BodySound /\ AgentSound /\ StreamSound
        /\ pc \in Setup /\ HandlerTouches
    BY HandlerType DEF FlowInv
  <1>b. TypeOK' /\ SentOnce'
    BY HandlerType, SentOnceNext DEF FlowInv
  <1>c. /\ answer # "stream" /\ taken = 0 /\ got = <<>> /\ chan = <<>> /\ charged = 0
        /\ settled = 0 /\ ended = "no" /\ fin = "none"
    BY <1>a DEF BodySound, Setup, Forward
  <1>d. UNCHANGED <<lost, calls, made, whole, taken, charged, settled, got, chan, ended, tx, rx, lostMark>>
    BY <1>a DEF HandlerTouches, cliVars, useVars
  <1>e. (\A a \in Agents : up[a] # "full") => made = 0 /\ ~whole
    BY <1>a DEF AgentSound, TypeOK
  <1>f. \A a \in Agents : up[a] # "full" => /\ agent[a] \notin Working /\ a \notin calls
                                           /\ down[a] = <<>>
    BY <1>a DEF AgentSound, SentOnce
  <1>g. ASSUME answer' # "stream", pc' \in {"acquire", "open", "write", "end"}, AgentSound'
        PROVE  FlowInv'
    <2>1. StreamSound'
      BY <1>g DEF StreamSound, Reading
    <2> QED
      BY <1>a, <1>b, <1>g, <2>1, SetupKeeps DEF FlowInv, Setup
  <1>h. ASSUME UNCHANGED <<agent, up, down, cur>> PROVE AgentSound'
    BY <1>a, <1>d, <1>h DEF AgentSound
  <1>1. ASSUME NEW a \in Agents, Acquire(a) PROVE FlowInv'
    <2>1. /\ UNCHANGED <<agent, up, down, answer>> /\ pc' = "open"
          /\ \A b \in Agents : up[b] # "full"
      BY <1>1, <1>a DEF Acquire, SentOnce, agentVars, tunVars
    <2>2. AgentSound'
      BY <1>a, <1>d, <1>e, <2>1 DEF AgentSound, TypeOK
    <2> QED
      BY <1>c, <1>g, <2>1, <2>2
  <1>2. CASE NoCandidate
    BY <1>2, <1>g, <1>h DEF NoCandidate, Reply, agentVars, tunVars
  <1>3. CASE OpenStream
    <2>1. /\ UNCHANGED <<down, cur, answer>> /\ pc' = "write" /\ cur \in Agents
          /\ \A b \in Agents : up[b] # "full" /\ up'[b] # "full"
          /\ agent' = [agent EXCEPT ![cur] = "reading"]
      BY <1>3, <1>a DEF OpenStream, SentOnce, TypeOK
    <2>2. AgentSound'
      BY <1>a, <1>d, <1>e, <1>f, <2>1 DEF AgentSound, TypeOK, Working
    <2> QED
      BY <1>c, <1>g, <2>1, <2>2
  <1>4. CASE OpenFails
    BY <1>4, <1>c, <1>g, <1>h DEF OpenFails, NextAttempt, Reply, agentVars, tunVars
  <1>5. CASE WriteSome
    <2>1. /\ UNCHANGED <<down, cur, answer, agent>> /\ cur \in Agents
          /\ up[cur] # "full" /\ \A b \in Agents \ {cur} : up'[b] = up[b]
          /\ pc' \in {"write", "await"}
      BY <1>5, <1>a DEF WriteSome, SentOnce, TypeOK, agentVars
    <2>2. AgentSound'
      BY <1>a, <1>d, <1>e, <1>f, <2>1 DEF AgentSound, TypeOK, SentOnce
    <2>3. down[cur] = <<>> /\ agent[cur] \notin Working
      BY <1>f, <2>1
    <2>4. CASE pc' = "write"
      BY <1>c, <1>g, <2>1, <2>2, <2>4
    <2>5. CASE pc' = "await"
      <3>1. StreamSound'
        BY <2>1, <2>3 DEF StreamSound, Working
      <3> QED
        BY <1>a, <1>b, <1>c, <2>1, <2>2, <2>5, <3>1, SetupKeeps DEF FlowInv, Setup
    <2> QED
      BY <2>1, <2>4, <2>5
  <1>6. CASE WriteFails
    BY <1>6, <1>c, <1>g, <1>h DEF WriteFails, NextAttempt, Reply, agentVars, tunVars
  <1>7. CASE HeadArrives
    <2>1. /\ UNCHANGED <<cur, agent, up>> /\ cur \in Agents /\ pc = "await"
          /\ pc' = "top" /\ answer' = "stream"
      BY <1>7, <1>a DEF HeadArrives, SentOnce, agentVars
    <2>2. /\ down'[cur] = Tail(down[cur]) /\ \A a \in Agents \ {cur} : down'[a] = down[a]
          /\ down[cur] # <<>> /\ down[cur][1].kind = "head"
          /\ Len(down[cur]) \in Nat /\ Len(down[cur]) > 0 /\ Len(down'[cur]) = Len(down[cur]) - 1
          /\ \A i \in 1 .. Len(down[cur]) - 1 : down'[cur][i] = down[cur][i + 1]
      BY <1>7, <1>a, <2>1, TakeType DEF HeadArrives
    <2>3. up[cur] = "full" /\ agent[cur] \in {"relaying", "done"} /\ ~lost[cur]
      BY <1>a, <2>1, <2>2 DEF AgentSound
    <2>4. AgentSound'
      BY <1>a, <1>d, <2>1, <2>2, <2>3 DEF AgentSound
    <2>5. StreamSound'
      <3> DEFINE s == down[cur]
                 z == down'[cur]
      <3>1. /\ \A i \in 1 .. Len(s) :
                  /\ s[i].kind = "head" => i = 1
                  /\ s[i].kind \in {"body", "oversized"} => s[i].n = i - 1 /\ s[i].n <= made
                  /\ s[i].kind \in {"end", "trunc", "error"} => i = Len(s) /\ agent[cur] = "done"
                  /\ s[i].kind = "end" => whole /\ made = i - 2
            /\ agent[cur] = "relaying" => made = Len(s) - 1
        BY <1>a, <1>c, <2>1, <2>3 DEF StreamSound, Reading, Ahead
      <3>2. /\ Len(s) \in Nat /\ Len(s) > 0 /\ Len(z) = Len(s) - 1
            /\ \A i \in 1 .. Len(s) - 1 : z[i] = s[i + 1]
        BY <2>2
      <3> HIDE DEF s, z
      <3>3. \A i \in 1 .. Len(z) :
                  /\ z[i].kind # "head"
                  /\ z[i].kind \in {"body", "oversized"} => z[i].n = i /\ z[i].n <= made
                  /\ z[i].kind \in {"end", "trunc", "error"} => i = Len(z) /\ agent[cur] = "done"
                  /\ z[i].kind = "end" => whole /\ made = i - 1
        BY <3>1, <3>2
      <3>4. agent[cur] = "relaying" => made = Len(z)
        BY <3>1, <3>2
      <3> QED
        BY <1>c, <1>d, <2>1, <3>2, <3>3, <3>4 DEF StreamSound, Ahead, z
    <2>6. BodySound' /\ ItemSound' /\ ClientSound' /\ EndSound'
      <3>1. tx
        BY <1>a, <1>c DEF BodySound
      <3> QED
        BY <1>c, <1>d, <2>1, <2>3, <3>1 DEF BodySound, ItemSound, ClientSound, EndSound, Forward
    <2>7. CountSound'
      BY <1>a, <1>c, <1>d, <2>1 DEF CountSound, FlowInv, TypeOK
    <2> QED
      BY <1>b, <2>4, <2>5, <2>6, <2>7 DEF FlowInv
  <1>8. CASE HeadFails
    <2>1. /\ UNCHANGED <<cur, agent, up>> /\ cur \in Agents /\ answer' # "stream" /\ pc' = "end"
      BY <1>8, <1>a DEF HeadFails, SentOnce, agentVars, Reply
    <2>2. CASE UNCHANGED down
      BY <1>g, <1>h, <2>1, <2>2
    <2>3. CASE Arrived({"error", "end", "trunc"}) /\ TakeFrame
      <3>1. down[cur] # <<>> /\ \A a \in Agents \ {cur} : down'[a] = down[a]
        BY <1>a, <2>1, <2>3, TakeType
      <3>2. AgentSound'
        BY <1>a, <1>d, <2>1, <3>1 DEF AgentSound
      <3> QED
        BY <1>g, <2>1, <3>2
    <2> QED
      BY <1>8, <2>2, <2>3 DEF HeadFails
  <1>9. CASE HeadTimeout
    BY <1>9, <1>g, <1>h DEF HeadTimeout, Reply, agentVars, tunVars
  <1>10. CASE HandlerDropped
    BY <1>10, <1>g, <1>h DEF HandlerDropped, Reply, agentVars, tunVars
  <1> QED
    BY <1>1, <1>2, <1>3, <1>4, <1>5, <1>6, <1>7, <1>8, <1>9, <1>10 DEF HandlerStep

-----------------------------------------------------------------------------
(* The forwarding task. *)

(* What FlowInv says while forward_body runs. *)
LEMMA InForward ==
    ASSUME FlowInv, pc \in Forward
    PROVE  /\ answer = "stream" /\ cur \in Agents /\ up[cur] = "full"
           /\ agent[cur] \in {"relaying", "done"}
           /\ tx /\ ended # "clean" /\ settled = 0
           /\ \A i \in 1 .. Len(got) : got[i].kind = "chunk"
           /\ \A i \in 1 .. Len(chan) : chan[i].kind = "chunk"
           /\ Len(got) \in Nat /\ Len(chan) \in Nat
           /\ charged <= taken /\ charged >= taken - 1 /\ taken <= made
           /\ taken \in Nat /\ charged \in Nat /\ made \in Nat
  <1>1. /\ answer = "stream" /\ cur \in Agents /\ up[cur] = "full"
        /\ agent[cur] \in {"relaying", "done"}
    BY DEF FlowInv, BodySound
  <1>2. pc # "end"
    BY DEF Forward
  <1>3. tx /\ ended # "clean"
    BY <1>1, <1>2 DEF FlowInv, EndSound
  <1>4. /\ \A i \in 1 .. Len(got) : got[i].kind = "chunk"
        /\ \A i \in 1 .. Len(chan) : chan[i].kind = "chunk"
    BY <1>2 DEF FlowInv, ClientSound
  <1>5. /\ Len(got) \in Nat /\ Len(chan) \in Nat
        /\ taken \in Nat /\ charged \in Nat /\ made \in Nat /\ item \in Items
    BY DEF FlowInv, TypeOK
  <1>6. settled = 0 /\ charged <= taken /\ charged >= taken - 1 /\ taken <= made
    BY <1>2, <1>5 DEF FlowInv, CountSound, Forward
  <1> QED
    BY <1>1, <1>3, <1>4, <1>5, <1>6

(* Taking a frame changes nothing an agent knows, *)
LEMMA TakeAgents ==
    ASSUME FlowInv, NEW k, Arrived(k), TakeFrame, cur \in Agents,
           UNCHANGED <<agent, up, calls, lost, whole, made, cur>>
    PROVE  AgentSound'
  <1>1. down[cur] # <<>> /\ \A a \in Agents \ {cur} : down'[a] = down[a]
    BY TakeType DEF FlowInv
  <1> QED
    BY <1>1 DEF FlowInv, AgentSound

(* ... nor does a step that touches neither agents nor streams. *)
LEMMA SameAgents ==
    ASSUME FlowInv, UNCHANGED <<agent, up, calls, lost, whole, made, cur, down>>
    PROVE  AgentSound'
  BY DEF FlowInv, AgentSound

(* Every way out of forward_body: settled once, and when the body is not whole there is
   a marker, a record that it was lost, or one of the ends that leave none. *)
LEMMA LeaveFlow ==
    ASSUME FlowInv, TypeOK', SentOnce', AgentSound', pc \in Forward, NEW e, Leave(e),
           UNCHANGED <<cur, answer, sse, up, agent, made, whole, rx, got, ended, taken>>,
           \/ UNCHANGED chan
           \/ \E m \in Items : m.kind # "chunk" /\ chan' = Append(chan, m),
           charged' \in Nat, charged <= charged', charged' <= taken, charged' >= taken - 1,
           e # "panicked" => charged' = taken,
           \/ e = "UpstreamEnd" /\ whole /\ made = Len(got) + Len(chan) /\ UNCHANGED chan
           \/ e = "ClientGone" /\ ~rx
           \/ e = "ClientStalled"
           \/ e = "GatewayShutdown" /\ ~sse
           \/ lostMark'
           \/ ~UNCHANGED chan
    PROVE  FlowInv'
  <1>a. /\ answer = "stream" /\ cur \in Agents /\ up[cur] = "full"
        /\ agent[cur] \in {"relaying", "done"}
        /\ tx /\ ended # "clean" /\ settled = 0
        /\ \A i \in 1 .. Len(got) : got[i].kind = "chunk"
        /\ \A i \in 1 .. Len(chan) : chan[i].kind = "chunk"
        /\ Len(got) \in Nat /\ Len(chan) \in Nat
        /\ charged <= taken /\ charged >= taken - 1 /\ taken <= made
        /\ taken \in Nat /\ charged \in Nat /\ made \in Nat
    BY InForward
  <1>b. pc' = "end" /\ fin' = e /\ settled' = 1
    BY <1>a DEF Leave
  <1>c. chan \in Seq(Items) /\ pc # "end"
    BY DEF FlowInv, TypeOK, Forward
  <1>d. /\ \A i \in 1 .. Len(got) : got[i].n = i /\ i <= charged
        /\ \A i \in 1 .. Len(chan) : chan[i].n = Len(got) + i /\ Len(got) + i <= charged
    BY <1>a DEF FlowInv, ClientSound
  <1>e. \/ UNCHANGED chan
        \/ /\ Len(chan') = Len(chan) + 1 /\ chan' # <<>>
           /\ \A i \in 1 .. Len(chan) : chan'[i] = chan[i]
           /\ chan'[Len(chan')].kind # "chunk"
    <2>1. ASSUME NEW m \in Items, m.kind # "chunk", chan' = Append(chan, m)
          PROVE  /\ Len(chan') = Len(chan) + 1 /\ chan' # <<>>
                 /\ \A i \in 1 .. Len(chan) : chan'[i] = chan[i]
                 /\ chan'[Len(chan')].kind # "chunk"
      BY <1>c, <2>1, AppendFacts
    <2> QED
      BY <2>1
  <1>1. BodySound' /\ StreamSound' /\ ItemSound'
    BY <1>a, <1>b DEF BodySound, StreamSound, Reading, ItemSound, Forward
  <1>2. ClientSound'
    <2>1. \A i \in 1 .. Len(got) : got[i].n = i /\ i <= charged'
      BY <1>a, <1>d
    <2>0. \A i \in 1 .. Len(chan) :
             chan[i].kind = "chunk" /\ chan[i].n = Len(got) + i /\ Len(got) + i <= charged'
      <3> SUFFICES ASSUME NEW i \in 1 .. Len(chan)
                   PROVE  chan[i].kind = "chunk" /\ chan[i].n = Len(got) + i /\ Len(got) + i <= charged'
        OBVIOUS
      <3>1. chan[i].kind = "chunk" /\ chan[i].n = Len(got) + i /\ Len(got) + i <= charged
        BY <1>a, <1>d
      <3>2. i \in Int /\ Len(got) \in Int /\ charged \in Int /\ charged' \in Int /\ charged <= charged'
        BY <1>a
      <3> QED
        BY <3>1, <3>2
    <2>2. \A i \in 1 .. Len(chan') :
             /\ chan'[i].kind = "chunk" => chan'[i].n = Len(got) + i /\ Len(got) + i <= charged'
             /\ chan'[i].kind # "chunk" => i = Len(chan')
      <3>1. CASE UNCHANGED chan
        BY <2>0, <3>1
      <3>2. CASE /\ Len(chan') = Len(chan) + 1
                 /\ \A i \in 1 .. Len(chan) : chan'[i] = chan[i]
                 /\ chan'[Len(chan')].kind # "chunk"
        <4> SUFFICES ASSUME NEW i \in 1 .. Len(chan')
                     PROVE  /\ chan'[i].kind = "chunk" =>
                                  chan'[i].n = Len(got) + i /\ Len(got) + i <= charged'
                            /\ chan'[i].kind # "chunk" => i = Len(chan')
          OBVIOUS
        <4>1. i \in 1 .. Len(chan) \/ i = Len(chan')
          BY <1>a, <3>2
        <4>2. CASE i \in 1 .. Len(chan)
          BY <2>0, <3>2, <4>2
        <4> QED
          BY <3>2, <4>1, <4>2
      <3> QED
        BY <1>e, <3>1, <3>2
    <2> QED
      BY <1>a, <1>b, <2>1, <2>2 DEF ClientSound
  <1>3. CountSound'
    BY <1>a, <1>b DEF CountSound
  <1>4. EndSound'
    BY <1>a, <1>b, <1>e DEF EndSound
  <1> QED
    BY <1>1, <1>2, <1>3, <1>4 DEF FlowInv

(* A marker in hand: the stream is not read any further. *)
LEMMA MarkFlow ==
    ASSUME FlowInv, TypeOK', SentOnce', AgentSound', pc = "select", NEW m \in Items, SendItem(m),
           m.kind # "chunk", m.then \in MarkedEnds,
           UNCHANGED <<cur, answer, sse, fin, up, agent, made, whole, cliVars, useVars>>
    PROVE  FlowInv'
  <1>a. /\ answer = "stream" /\ cur \in Agents /\ up[cur] = "full"
        /\ agent[cur] \in {"relaying", "done"}
        /\ tx /\ ended # "clean" /\ settled = 0
        /\ \A i \in 1 .. Len(got) : got[i].kind = "chunk"
        /\ \A i \in 1 .. Len(chan) : chan[i].kind = "chunk"
    BY InForward DEF Forward
  <1>b. pc' = "push" /\ item' = m
    BY DEF SendItem
  <1>c. UNCHANGED <<chan, tx, rx, got, ended, lostMark, taken, charged, settled>>
    BY DEF cliVars, useVars
  <1>1. BodySound' /\ StreamSound' /\ ItemSound'
    BY <1>a, <1>b DEF BodySound, StreamSound, Reading, ItemSound, Forward
  <1>2. ClientSound' /\ EndSound'
    BY <1>a, <1>b, <1>c DEF FlowInv, ClientSound, EndSound
  <1>3. CountSound'
    BY <1>a, <1>b, <1>c DEF FlowInv, CountSound
  <1> QED
    BY <1>1, <1>2, <1>3 DEF FlowInv

ForwardTouches == UNCHANGED <<cur, tried, failed, answer, sse, up, lost, agentVars, rx, got, ended, phase>>

(* What the steps of forward_body leave alone. *)
LEMMA ForwardShape ==
    ASSUME ForwardStep \/ Panic
    PROVE  ForwardTouches /\ pc \in Forward
  BY DEF ForwardStep, FrameArrives, EndArrives, IdleTimeout, ClientClosed, Delivered, NotDelivered,
         ShutdownInterrupts, Select, Quit, Panic, PushUnchanged, Pushing, Forward, ForwardTouches,
         agentVars, tunVars, cliVars

(* They keep the types when what they write is well typed, *)
LEMMA ForwardTyped ==
    ASSUME FlowInv, ForwardTouches, pc' \in Forward \cup {"end"}, fin' \in Ends, item' \in Items,
           sig' = sig \/ CloseSend \/ CancelSend,
           down' \in [Agents -> Seq([kind : Frames, n : 0 .. MaxChunks])],
           chan' \in Seq(Items), Len(chan') <= ChannelCap, tx' \in BOOLEAN, lostMark' \in BOOLEAN,
           taken' \in Nat, charged' \in Nat, settled' \in Nat
    PROVE  TypeOK'
  <1>a. TypeOK /\ GwType /\ TunType /\ AgentType /\ CliType /\ UseType /\ PhaseType
    BY TypeParts DEF FlowInv
  <1>1. sig' \in [Agents -> {"none", "cancel", "closed"}]
    BY <1>a, SigType DEF TunType
  <1>2. GwType' /\ TunType' /\ AgentType'
    BY <1>a, <1>1 DEF ForwardTouches, GwType, TunType, AgentType, agentVars
  <1>3. CliType' /\ UseType' /\ PhaseType'
    BY <1>a DEF ForwardTouches, CliType, UseType, PhaseType
  <1> QED
    BY <1>2, <1>3, TypePartsNext

(* ... which it is when the task ends. *)
LEMMA LeaveTyped ==
    ASSUME TypeOK, NEW e \in Ends, Leave(e)
    PROVE  pc' = "end" /\ fin' \in Ends /\ item' \in Items /\ tx' \in BOOLEAN /\ settled' \in Nat
  <1>1. settled' \in Nat
    BY DEF TypeOK, Leave
  <1>2. item' \in Items
    BY ItemTypes DEF Leave
  <1> QED
    BY <1>1, <1>2 DEF Leave

(* A frame that arrives, or none for too long. *)
LEMMA FrameFlow ==
    ASSUME FlowInv, SentOnce', FrameArrives \/ IdleTimeout
    PROVE  FlowInv'
  <1>a. /\ answer = "stream" /\ cur \in Agents /\ up[cur] = "full"
        /\ agent[cur] \in {"relaying", "done"}
        /\ tx /\ ended # "clean" /\ settled = 0
        /\ \A i \in 1 .. Len(got) : got[i].kind = "chunk"
        /\ \A i \in 1 .. Len(chan) : chan[i].kind = "chunk"
        /\ Len(got) \in Nat /\ Len(chan) \in Nat
        /\ charged <= taken /\ charged >= taken - 1 /\ taken <= made
        /\ taken \in Nat /\ charged \in Nat /\ made \in Nat
    BY InForward DEF FrameArrives, IdleTimeout, Forward
  <1>b. /\ pc = "select" /\ ForwardTouches /\ UNCHANGED <<fin, sig, chan, tx, lostMark, charged, settled>>
    BY ForwardShape DEF FrameArrives, IdleTimeout, ForwardStep, tunVars, cliVars, useVars
  <1>c. /\ TypeOK /\ fin \in Ends /\ chan \in Seq(Items) /\ Len(chan) <= ChannelCap
        /\ tx \in BOOLEAN /\ lostMark \in BOOLEAN /\ settled \in Nat
        /\ down \in [Agents -> Seq([kind : Frames, n : 0 .. MaxChunks])]
    BY DEF FlowInv, TypeOK
  <1>d. UNCHANGED <<agent, up, calls, lost, whole, made, cur, answer, sse, rx, got, ended>>
    BY <1>b DEF ForwardTouches, agentVars
  <1>e. ASSUME NEW m \in Items, SendItem(m), m.kind # "chunk", m.then \in MarkedEnds, UNCHANGED taken,
               (\E k : Arrived(k) /\ TakeFrame) \/ UNCHANGED down
        PROVE  FlowInv'
    <2>1. down' \in [Agents -> Seq([kind : Frames, n : 0 .. MaxChunks])]
      BY <1>a, <1>c, <1>e, TakeType
    <2>2. TypeOK'
      BY <1>a, <1>b, <1>c, <1>e, <2>1, ForwardTyped DEF SendItem, Forward
    <2>3. AgentSound'
      BY <1>a, <1>d, <1>e, TakeAgents, SameAgents
    <2>4. UNCHANGED <<cliVars, useVars>>
      BY <1>b, <1>d, <1>e DEF cliVars, useVars
    <2> QED
      BY <1>b, <1>d, <1>e, <2>2, <2>3, <2>4, MarkFlow
  <1>f. \A e \in MarkedEnds : ErrMark(e) \in Items /\ ErrMark(e).kind # "chunk" /\ ErrMark(e).then = e
    BY ItemTypes DEF ErrMark, MarkedEnds, Ends
  <1>1. CASE IdleTimeout
    BY <1>1, <1>e, <1>f DEF IdleTimeout, MarkedEnds, tunVars, useVars
  <1>2. CASE \/ Arrived({"oversized"}) /\ TakeFrame /\ SendItem(ErrMark("ProtocolViolation")) /\ UNCHANGED taken
             \/ Arrived({"error"}) /\ TakeFrame /\ SendItem(ErrMark("UpstreamError")) /\ UNCHANGED taken
    BY <1>2, <1>e, <1>f DEF MarkedEnds
  <1>3. CASE \/ SendItem(ErrMark("UpstreamClosed")) /\ UNCHANGED <<taken, down>>
             \/ SendItem(ErrMark("TunnelError")) /\ UNCHANGED <<taken, down>>
    BY <1>3, <1>e, <1>f DEF MarkedEnds
  <1>4. CASE Arrived({"body"}) /\ TakeFrame /\ SendItem(Chunk(Head(down[cur]).n)) /\ taken' = taken + 1
    <2> DEFINE s == down[cur]
               z == down'[cur]
    <2>1. /\ down' \in [Agents -> Seq([kind : Frames, n : 0 .. MaxChunks])]
          /\ Head(s) = s[1] /\ s[1].kind = "body" /\ s[1].n \in 0 .. MaxChunks
          /\ Len(s) \in Nat /\ Len(s) > 0 /\ Len(z) = Len(s) - 1 /\ s # <<>>
          /\ \A i \in 1 .. Len(s) - 1 : z[i] = s[i + 1]
      <3>1. cur \in Agents /\ TypeOK /\ Arrived({"body"}) /\ TakeFrame
        BY <1>4, <1>a, <1>c
      <3>2. s[1].kind \in {"body"}
        BY <3>1, TakeType
      <3> QED
        BY <3>1, <3>2, TakeType
    <2>2. /\ \A i \in 1 .. Len(s) :
                /\ s[i].kind # "head"
                /\ s[i].kind \in {"body", "oversized"} => s[i].n = taken + i /\ s[i].n <= made
                /\ s[i].kind \in {"end", "trunc", "error"} => i = Len(s) /\ agent[cur] = "done"
                /\ s[i].kind = "end" => whole /\ made = taken + i - 1
          /\ agent[cur] = "relaying" /\ ~lost[cur] => made = taken + Len(s)
      BY <1>a, <1>b DEF FlowInv, StreamSound, Reading, Ahead
    <2>3. s[1].n = taken + 1 /\ taken + 1 <= made
      BY <2>1, <2>2
    <2>4. pc' = "push" /\ item' = Chunk(s[1].n) /\ item'.kind = "chunk" /\ item'.n = taken'
      BY <1>4, <2>1, <2>3 DEF SendItem, Chunk
    <2>5. TypeOK'
      <3>1. item' \in Items
        BY <2>1, <2>4, ItemTypes
      <3> QED
        <4>1. taken' \in Nat /\ charged' \in Nat /\ settled' \in Nat
          BY <1>4, <1>a, <1>b, <1>c
        <4>2. /\ pc' \in Forward \cup {"end"} /\ fin' \in Ends /\ sig' = sig
              /\ chan' \in Seq(Items) /\ Len(chan') <= ChannelCap
              /\ tx' \in BOOLEAN /\ lostMark' \in BOOLEAN
          BY <1>b, <1>c, <2>4 DEF Forward
        <4> QED
          BY <1>b, <2>1, <3>1, <4>1, <4>2, ForwardTyped
    <2>6. AgentSound'
      BY <1>4, <1>a, <1>d, TakeAgents
    <2>7. StreamSound'
      <3> HIDE DEF s, z
      <3>1. \A i \in 1 .. Len(z) :
                /\ z[i].kind # "head"
                /\ z[i].kind \in {"body", "oversized"} => z[i].n = taken + 1 + i /\ z[i].n <= made
                /\ z[i].kind \in {"end", "trunc", "error"} => i = Len(z) /\ agent[cur] = "done"
                /\ z[i].kind = "end" => whole /\ made = taken + 1 + i - 1
        <4> SUFFICES ASSUME NEW i \in 1 .. Len(z)
                     PROVE  /\ z[i].kind # "head"
                            /\ z[i].kind \in {"body", "oversized"} => z[i].n = taken + 1 + i /\ z[i].n <= made
                            /\ z[i].kind \in {"end", "trunc", "error"} => i = Len(z) /\ agent[cur] = "done"
                            /\ z[i].kind = "end" => whole /\ made = taken + 1 + i - 1
          OBVIOUS
        <4>1. i \in 1 .. Len(s) - 1 /\ i + 1 \in 1 .. Len(s) /\ (i + 1 = Len(s) => i = Len(z))
          BY <2>1
        <4>2. z[i] = s[i + 1]
          BY <2>1, <4>1
        <4>3. taken + (i + 1) = taken + 1 + i /\ taken + (i + 1) - 1 = taken + 1 + i - 1
          <5>1. taken \in Nat /\ i \in Nat
            BY <1>a, <4>1
          <5> QED
            BY <5>1
        <4>4. /\ s[i + 1].kind # "head"
              /\ s[i + 1].kind \in {"body", "oversized"} => s[i + 1].n = taken + (i + 1) /\ s[i + 1].n <= made
              /\ s[i + 1].kind \in {"end", "trunc", "error"} => i + 1 = Len(s) /\ agent[cur] = "done"
              /\ s[i + 1].kind = "end" => whole /\ made = taken + (i + 1) - 1
          BY <2>2, <4>1
        <4>5. /\ z[i].kind # "head"
              /\ z[i].kind \in {"body", "oversized"} => z[i].n = taken + 1 + i /\ z[i].n <= made
              /\ z[i].kind \in {"end", "trunc", "error"} => i + 1 = Len(s) /\ agent[cur] = "done"
              /\ z[i].kind = "end" => whole /\ made = taken + 1 + i - 1
          BY <4>2, <4>3, <4>4, Zenon
        <4> QED
          BY <4>1, <4>5, Zenon
      <3>2. agent[cur] = "relaying" /\ ~lost[cur] => made = taken + 1 + Len(z)
        <4>1. taken \in Nat /\ Len(s) \in Nat /\ Len(z) = Len(s) - 1
          BY <1>a, <2>1
        <4>2. agent[cur] = "relaying" /\ ~lost[cur] => made = taken + Len(s)
          BY <2>2
        <4> QED
          BY <4>1, <4>2
      <3> QED
        BY <1>4, <1>a, <1>d, <2>1, <2>4, <3>1, <3>2 DEF StreamSound, Ahead, z
    <2>8. BodySound' /\ ItemSound' /\ EndSound'
      BY <1>4, <1>a, <1>b, <1>d, <2>4 DEF BodySound, ItemSound, EndSound, Forward
    <2>9. ClientSound'
      BY <1>a, <1>b, <1>d DEF FlowInv, ClientSound
    <2>10. CountSound'
      BY <1>4, <1>a, <1>b, <1>d, <2>3, <2>4 DEF FlowInv, CountSound
    <2> QED
      BY <2>5, <2>6, <2>7, <2>8, <2>9, <2>10 DEF FlowInv
  <1> QED
    BY <1>1, <1>2, <1>3, <1>4 DEF FrameArrives

(* The End frame is the last, and with ok it says that everything was taken. *)
LEMMA EndFlow ==
    ASSUME FlowInv, SentOnce', EndArrives
    PROVE  FlowInv'
  <1>a. /\ answer = "stream" /\ cur \in Agents /\ up[cur] = "full" /\ settled = 0
        /\ Len(got) \in Nat /\ Len(chan) \in Nat
        /\ charged <= taken /\ taken \in Nat /\ charged \in Nat /\ made \in Nat
    BY InForward DEF EndArrives, Forward
  <1>b. pc = "select" /\ ForwardTouches /\ UNCHANGED <<chan, lostMark, taken, charged>>
    BY ForwardShape DEF EndArrives, ForwardStep
  <1>c. /\ TypeOK /\ fin \in Ends /\ chan \in Seq(Items) /\ Len(chan) <= ChannelCap
        /\ tx \in BOOLEAN /\ lostMark \in BOOLEAN /\ settled \in Nat
    BY DEF FlowInv, TypeOK
  <1>d. UNCHANGED <<agent, up, calls, lost, whole, made, cur, answer, sse, rx, got, ended>>
    BY <1>b DEF ForwardTouches, agentVars
  <1>e. /\ down' \in [Agents -> Seq([kind : Frames, n : 0 .. MaxChunks])]
        /\ Head(down[cur]) = down[cur][1] /\ down[cur][1].kind \in {"end", "trunc"}
        /\ Len(down[cur]) \in Nat /\ Len(down[cur]) > 0
    BY <1>a, <1>c, TakeType DEF EndArrives
  <1>f. AgentSound'
    BY <1>a, <1>d, TakeAgents DEF EndArrives
  <1>g. charged = taken /\ Len(got) + Len(chan) = taken
    BY <1>b DEF FlowInv, CountSound
  <1> DEFINE f == Head(down[cur]).kind
  <1>h. f \in {"end", "trunc"}
    BY <1>e
  <1>1. CASE f = "trunc"
    <2>1. /\ \E m \in {SseMark("UpstreamTruncated"), ErrMark("UpstreamTruncated")} : SendItem(m)
          /\ UNCHANGED <<fin, tx, settled, sig>>
      <3>1. EndSignal(f) \in {<<SseMark("UpstreamTruncated")>>, <<ErrMark("UpstreamTruncated")>>}
        BY <1>1 DEF EndSignal
      <3> QED
        BY <3>1 DEF EndArrives
    <2>2. PICK m \in {SseMark("UpstreamTruncated"), ErrMark("UpstreamTruncated")} : SendItem(m)
      BY <2>1
    <2>3. m \in Items /\ m.kind # "chunk" /\ m.then \in MarkedEnds
      BY ItemTypes DEF SseMark, ErrMark, MarkedEnds, Ends
    <2>4. TypeOK'
      BY <1>a, <1>b, <1>c, <1>e, <2>1, <2>2, <2>3, ForwardTyped DEF SendItem, Forward
    <2>5. UNCHANGED <<cliVars, useVars>>
      BY <1>b, <1>d, <2>1 DEF cliVars, useVars
    <2> QED
      BY <1>b, <1>d, <1>f, <2>1, <2>2, <2>3, <2>4, <2>5, MarkFlow
  <1>2. CASE f = "end"
    <2>1. Leave("UpstreamEnd") /\ CloseSend
      <3>1. EndSignal(f) = <<>>
        BY <1>2 DEF EndSignal
      <3> QED
        BY <1>2, <3>1 DEF EndArrives
    <2>2. whole /\ made = taken
      <3>1. down[cur][1].kind = "end" => whole /\ made = taken + 1 - 1 - Ahead
        BY <1>b, <1>e DEF FlowInv, StreamSound, Reading
      <3> QED
        BY <1>2, <1>a, <1>b, <1>e, <3>1 DEF Ahead
    <2>3. TypeOK'
      <3>1. /\ pc' = "end" /\ fin' \in Ends /\ item' \in Items /\ tx' \in BOOLEAN /\ settled' \in Nat
        BY <1>c, <2>1, LeaveTyped DEF Ends
      <3> QED
        BY <1>a, <1>b, <1>c, <1>e, <2>1, <3>1, ForwardTyped
    <2> QED
      BY <1>a, <1>b, <1>d, <1>f, <1>g, <2>1, <2>2, <2>3, LeaveFlow DEF Forward
  <1> QED
    BY <1>h, <1>1, <1>2

(* What send_to_client does with the item in hand. *)
LEMMA PushFlow ==
    ASSUME FlowInv, SentOnce', Delivered \/ NotDelivered \/ ShutdownInterrupts
    PROVE  FlowInv'
  <1>a. /\ answer = "stream" /\ cur \in Agents /\ up[cur] = "full"
        /\ agent[cur] \in {"relaying", "done"}
        /\ tx /\ ended # "clean" /\ settled = 0
        /\ \A i \in 1 .. Len(got) : got[i].kind = "chunk"
        /\ \A i \in 1 .. Len(chan) : chan[i].kind = "chunk"
        /\ Len(got) \in Nat /\ Len(chan) \in Nat
        /\ charged <= taken /\ charged >= taken - 1 /\ taken <= made
        /\ taken \in Nat /\ charged \in Nat /\ made \in Nat
    BY InForward DEF Delivered, NotDelivered, ShutdownInterrupts, Pushing, Forward
  <1>b. pc \in {"push", "quit"} /\ ForwardTouches /\ UNCHANGED <<down, taken>>
    BY ForwardShape DEF Delivered, NotDelivered, ShutdownInterrupts, Pushing, PushUnchanged, ForwardStep
  <1>c. /\ TypeOK /\ fin \in Ends /\ chan \in Seq(Items) /\ Len(chan) <= ChannelCap
        /\ tx \in BOOLEAN /\ lostMark \in BOOLEAN /\ settled \in Nat /\ item \in Items
        /\ down \in [Agents -> Seq([kind : Frames, n : 0 .. MaxChunks])]
    BY DEF FlowInv, TypeOK
  <1>d. UNCHANGED <<agent, up, calls, lost, whole, made, cur, answer, sse, rx, got, ended, phase>>
    BY <1>b DEF ForwardTouches, agentVars
  <1>e. AgentSound'
    BY <1>b, <1>d, SameAgents
  <1>f. charged' = IF item.kind = "chunk" THEN charged + 1 ELSE charged
    BY DEF Delivered, NotDelivered, ShutdownInterrupts, Observe
  <1>g. charged' = taken
    BY <1>a, <1>b, <1>f DEF FlowInv, CountSound, ItemSound, SseMark
  <1>h. item.then \in Ends
    BY <1>c DEF Items
  <1>i. \/ UNCHANGED <<chan, lostMark>> \/ (UNCHANGED chan /\ lostMark' = (lostMark \/ item.kind # "chunk"))
        \/ /\ chan' = Append(chan, item) /\ UNCHANGED lostMark /\ Len(chan) < ChannelCap
    BY DEF Delivered, NotDelivered, ShutdownInterrupts
  <1>j. chan' \in Seq(Items) /\ Len(chan') <= ChannelCap /\ lostMark' \in BOOLEAN
    <2>1. CASE chan' = Append(chan, item) /\ UNCHANGED lostMark /\ Len(chan) < ChannelCap
      BY <1>a, <1>c, <2>1, ConstantsAssumption, AppendFacts
    <2>2. CASE UNCHANGED chan
      BY <1>c, <1>i, <2>2
    <2> QED
      BY <1>i, <2>1, <2>2
  <1>k. ASSUME NEW e \in Ends, Leave(e), sig' = sig \/ CloseSend \/ CancelSend PROVE TypeOK'
    <2>1. pc' = "end" /\ fin' \in Ends /\ item' \in Items /\ tx' \in BOOLEAN /\ settled' \in Nat
      BY <1>c, <1>k, LeaveTyped
    <2>2. taken' \in Nat /\ charged' \in Nat
      BY <1>a, <1>b, <1>g
    <2> QED
      BY <1>b, <1>c, <1>j, <1>k, <2>1, <2>2, ForwardTyped
  <1>l. pc \in Forward
    BY <1>b DEF Forward
  <1>1. CASE item.kind # "chunk"
    <2>1. Leave(item.then) /\ (CloseSend \/ CancelSend)
      BY <1>1 DEF Delivered, NotDelivered, ShutdownInterrupts, AfterSend
    <2>2. TypeOK'
      BY <1>h, <1>k, <2>1
    <2>3. CASE chan' = Append(chan, item)
      <3>1. chan' # chan
        BY <1>c, <2>3, AppendFacts
      <3>2. charged' \in Nat /\ charged <= charged' /\ charged' <= taken /\ charged' >= taken - 1
        BY <1>a, <1>g
      <3>3. \E m \in Items : m.kind # "chunk" /\ chan' = Append(chan, m)
        BY <1>1, <1>c, <2>3
      <3> QED
        BY <1>b, <1>d, <1>e, <1>g, <1>l, <2>1, <2>2, <3>1, <3>2, <3>3, LeaveFlow
    <2>4. CASE UNCHANGED chan /\ lostMark' = (lostMark \/ item.kind # "chunk")
      <3>1. charged' \in Nat /\ charged <= charged' /\ charged' <= taken /\ charged' >= taken - 1
        BY <1>a, <1>g
      <3>2. lostMark'
        BY <1>1, <2>4
      <3> QED
        BY <1>b, <1>d, <1>e, <1>g, <1>l, <2>1, <2>2, <2>4, <3>1, <3>2, LeaveFlow
    <2> QED
      BY <2>3, <2>4 DEF Delivered, NotDelivered, ShutdownInterrupts
  <1>2. CASE item.kind = "chunk" /\ NotDelivered
    <2>1. PICK e \in {"ClientGone", "ClientStalled"} :
             Leave(e) /\ CancelSend /\ (e = "ClientGone" => ~rx)
      BY <1>2 DEF NotDelivered, AfterSend
    <2>2. e \in Ends /\ UNCHANGED chan
      BY <1>2 DEF Ends, NotDelivered
    <2>3. TypeOK'
      BY <1>k, <2>1, <2>2
    <2>4. charged' \in Nat /\ charged <= charged' /\ charged' <= taken /\ charged' >= taken - 1
      BY <1>a, <1>g
    <2> QED
      BY <1>b, <1>d, <1>e, <1>g, <1>l, <2>1, <2>2, <2>3, <2>4, LeaveFlow
  <1>3. CASE item.kind = "chunk" /\ (Delivered \/ ShutdownInterrupts)
    <2>1. pc' = "top" /\ item' = NoItem /\ UNCHANGED <<fin, tx, settled, sig>> /\ pc = "push"
      BY <1>3, <1>b DEF Delivered, ShutdownInterrupts, AfterSend, FlowInv, ItemSound, SseMark
    <2>2. TypeOK'
      <3>1. item' \in Items
        BY <2>1, ItemTypes
      <3>2. taken' \in Nat /\ charged' \in Nat /\ settled' \in Nat
        BY <1>a, <1>b, <1>g, <2>1
      <3> QED
        BY <1>b, <1>c, <1>j, <2>1, <3>1, <3>2, ForwardTyped DEF Forward
    <2>3. /\ item.n = taken /\ Len(got) + Len(chan) = taken - 1 /\ charged = taken - 1
      BY <1>3, <2>1 DEF FlowInv, ItemSound, CountSound
    <2>4. /\ \A i \in 1 .. Len(got) : got[i].n = i /\ i <= charged
          /\ \A i \in 1 .. Len(chan) : chan[i].n = Len(got) + i /\ Len(got) + i <= charged
      BY <1>a DEF FlowInv, ClientSound
    <2>5. \/ /\ UNCHANGED chan /\ Terminating
          \/ /\ Len(chan') = Len(chan) + 1
             /\ \A i \in 1 .. Len(chan) : chan'[i] = chan[i]
             /\ chan'[Len(chan) + 1] = item
      BY <1>3, <1>c, AppendFacts DEF Delivered, ShutdownInterrupts
    <2>6. StreamSound'
      <3>1. Reading /\ Ahead = 0 /\ Ahead' = 0
        BY <1>3, <2>1 DEF Reading, Ahead
      <3> QED
        BY <1>b, <1>d, <2>1, <3>1 DEF FlowInv, StreamSound
    <2>7. BodySound' /\ ItemSound' /\ EndSound'
      BY <1>a, <1>b, <1>d, <2>1 DEF BodySound, ItemSound, EndSound, Forward
    <2>8. CountSound'
      BY <1>a, <1>b, <1>d, <1>g, <2>1, <2>3, <2>5 DEF CountSound, Terminating
    <2>9. ClientSound'
      <3>1. \A i \in 1 .. Len(got) : got[i].n = i /\ i <= charged'
        BY <1>a, <1>g, <2>4
      <3>2. ASSUME NEW i \in 1 .. Len(chan')
            PROVE  chan'[i].kind = "chunk" /\ chan'[i].n = Len(got) + i /\ Len(got) + i <= charged'
        <4>1. CASE i \in 1 .. Len(chan)
          <5>1. chan'[i] = chan[i] /\ chan[i].kind = "chunk"
            BY <1>a, <2>5, <4>1
          <5>2. chan[i].n = Len(got) + i /\ Len(got) + i <= charged
            BY <2>4, <4>1
          <5> QED
            BY <1>a, <1>g, <5>1, <5>2
        <4>2. CASE i = Len(chan) + 1 /\ chan'[Len(chan) + 1] = item
          BY <1>3, <1>a, <1>g, <2>3, <4>2
        <4> QED
          BY <1>a, <2>5, <4>1, <4>2
      <3> QED
        BY <1>a, <1>d, <3>1, <3>2 DEF ClientSound
    <2> QED
      BY <1>e, <2>2, <2>6, <2>7, <2>8, <2>9 DEF FlowInv
  <1> QED
    BY <1>1, <1>2, <1>3

(* The client closed, the next round of the loop, a termination, a panic. *)
LEMMA LoopFlow ==
    ASSUME FlowInv, SentOnce', ClientClosed \/ Select \/ Quit \/ Panic
    PROVE  FlowInv'
  <1>a. /\ answer = "stream" /\ cur \in Agents /\ up[cur] = "full"
        /\ agent[cur] \in {"relaying", "done"}
        /\ tx /\ ended # "clean" /\ settled = 0
        /\ \A i \in 1 .. Len(got) : got[i].kind = "chunk"
        /\ \A i \in 1 .. Len(chan) : chan[i].kind = "chunk"
        /\ Len(got) \in Nat /\ Len(chan) \in Nat
        /\ charged <= taken /\ charged >= taken - 1 /\ taken <= made
        /\ taken \in Nat /\ charged \in Nat /\ made \in Nat
    BY InForward DEF ClientClosed, Select, Quit, Panic, Forward
  <1>b. pc \in Forward /\ ForwardTouches /\ UNCHANGED <<down, taken, charged>>
    BY ForwardShape DEF ClientClosed, Select, Quit, Panic, ForwardStep, tunVars, useVars
  <1>c. /\ TypeOK /\ fin \in Ends /\ chan \in Seq(Items) /\ Len(chan) <= ChannelCap
        /\ tx \in BOOLEAN /\ lostMark \in BOOLEAN /\ settled \in Nat /\ item \in Items
        /\ down \in [Agents -> Seq([kind : Frames, n : 0 .. MaxChunks])]
    BY DEF FlowInv, TypeOK
  <1>d. UNCHANGED <<agent, up, calls, lost, whole, made, cur, answer, sse, rx, got, ended, phase>>
    BY <1>b DEF ForwardTouches, agentVars
  <1>e. AgentSound'
    BY <1>b, <1>d, SameAgents
  <1>f. taken' \in Nat /\ charged' \in Nat /\ charged <= charged' /\ charged' <= taken /\ charged' >= taken - 1
    BY <1>a, <1>b
  <1>g. ASSUME NEW e \in Ends, Leave(e), CloseSend \/ CancelSend, chan' \in Seq(Items),
               Len(chan') <= ChannelCap, lostMark' \in BOOLEAN
        PROVE  TypeOK'
    <2>1. pc' = "end" /\ fin' \in Ends /\ item' \in Items /\ tx' \in BOOLEAN /\ settled' \in Nat
      BY <1>c, <1>g, LeaveTyped
    <2> QED
      BY <1>b, <1>c, <1>f, <1>g, <2>1, ForwardTyped
  <1>1. CASE ClientClosed \/ (Quit /\ ~sse)
    <2>1. PICK e \in {"ClientGone", "GatewayShutdown"} :
             /\ Leave(e) /\ CancelSend /\ UNCHANGED <<chan, lostMark>>
             /\ \/ e = "ClientGone" /\ ~rx
                \/ e = "GatewayShutdown" /\ ~sse
      BY <1>1 DEF ClientClosed, Quit
    <2>2. charged = taken
      BY <1>1 DEF FlowInv, CountSound, ClientClosed, Quit
    <2>3. TypeOK'
      BY <1>c, <1>g, <2>1 DEF Ends
    <2> QED
      BY <1>b, <1>d, <1>e, <1>f, <2>1, <2>2, <2>3, LeaveFlow
  <1>2. CASE Panic
    <2>1. /\ Leave("panicked") /\ CloseSend
          /\ \/ Len(chan) < ChannelCap /\ chan' = Append(chan, ErrMark("panicked")) /\ UNCHANGED lostMark
             \/ lostMark' = TRUE /\ UNCHANGED chan
      BY <1>2 DEF Panic
    <2>2. ErrMark("panicked") \in Items /\ ErrMark("panicked").kind # "chunk" /\ "panicked" \in Ends
      BY ItemTypes DEF ErrMark, Ends
    <2>3. CASE Len(chan) < ChannelCap /\ chan' = Append(chan, ErrMark("panicked")) /\ UNCHANGED lostMark
      <3>1. chan' \in Seq(Items) /\ Len(chan') <= ChannelCap /\ chan' # chan
        BY <1>a, <1>c, <2>2, <2>3, ConstantsAssumption, AppendFacts
      <3>2. TypeOK'
        BY <1>c, <1>g, <2>1, <2>2, <2>3, <3>1
      <3>3. \E m \in Items : m.kind # "chunk" /\ chan' = Append(chan, m)
        BY <2>2, <2>3
      <3> QED
        BY <1>b, <1>d, <1>e, <1>f, <2>1, <3>1, <3>2, <3>3, LeaveFlow
    <2>4. CASE lostMark' = TRUE /\ UNCHANGED chan
      <3>1. TypeOK'
        BY <1>c, <1>g, <2>1, <2>2, <2>4
      <3> QED
        BY <1>b, <1>d, <1>e, <1>f, <2>1, <2>4, <3>1, LeaveFlow
    <2> QED
      BY <2>1, <2>3, <2>4
  <1>3. CASE Select
    <2>1. /\ UNCHANGED <<item, fin, sig, chan, tx, lostMark, settled>>
          /\ \/ pc = "top" /\ ~Terminating /\ pc' = "select"
             \/ pc = "select" /\ Terminating /\ pc' = "top"
      BY <1>3 DEF Select, tunVars, cliVars, useVars
    <2>2. TypeOK'
      BY <1>b, <1>c, <1>f, <2>1, ForwardTyped DEF Forward
    <2>3. StreamSound'
      BY <1>b, <1>d, <2>1 DEF FlowInv, StreamSound, Reading, Ahead
    <2>4. BodySound' /\ ItemSound' /\ EndSound' /\ ClientSound'
      BY <1>a, <1>b, <1>d, <2>1 DEF FlowInv, BodySound, ItemSound, EndSound, ClientSound, Forward
    <2>5. CountSound'
      BY <1>a, <1>b, <1>d, <2>1 DEF FlowInv, CountSound, Terminating
    <2> QED
      BY <1>e, <2>2, <2>3, <2>4, <2>5 DEF FlowInv
  <1>4. CASE Quit /\ sse
    <2>1. /\ pc = "top" /\ pc' = "quit" /\ item' = SseMark("GatewayShutdown")
          /\ UNCHANGED <<fin, tx, settled, sig, chan, lostMark>>
      BY <1>4 DEF Quit
    <2>2. TypeOK'
      <3>1. item' \in Items
        BY <2>1, ItemTypes DEF Ends
      <3> QED
        BY <1>b, <1>c, <1>f, <2>1, <3>1, ForwardTyped DEF Forward
    <2>3. StreamSound' /\ BodySound' /\ ItemSound' /\ EndSound' /\ ClientSound'
      BY <1>4, <1>a, <1>b, <1>d, <2>1
         DEF FlowInv, StreamSound, Reading, BodySound, ItemSound, EndSound, ClientSound, Forward
    <2>4. CountSound'
      BY <1>a, <1>b, <1>d, <2>1 DEF FlowInv, CountSound
    <2> QED
      BY <1>e, <2>2, <2>3, <2>4 DEF FlowInv
  <1> QED
    BY <1>1, <1>2, <1>3, <1>4

-----------------------------------------------------------------------------
(* The client, the agent and the environment. *)

(* StreamSound and AgentSound are about the other side. *)
LEMMA ClientKeeps ==
    ASSUME FlowInv, UNCHANGED <<gwVars, tunVars, agentVars, taken>>
    PROVE  /\ AgentSound' /\ StreamSound' /\ ItemSound'
           /\ UNCHANGED <<pc, cur, item, answer, sse, fin, up, agent, made, whole>>
  <1>1. UNCHANGED <<pc, cur, item, answer, sse, fin, up, down, lost, agent, calls, made, whole>>
    BY DEF gwVars, tunVars, agentVars
  <1> QED
    BY <1>1 DEF FlowInv, AgentSound, StreamSound, ItemSound, Reading, Ahead

(* A step of the client or of the phase keeps the other types. *)
LEMMA ClientTyped ==
    ASSUME FlowInv, UNCHANGED <<gwVars, tunVars, agentVars, useVars>>, CliType', PhaseType'
    PROVE  TypeOK'
  <1>1. TypeOK /\ GwType /\ TunType /\ AgentType /\ UseType
    BY TypeParts DEF FlowInv
  <1>2. GwType' /\ TunType' /\ AgentType' /\ UseType'
    BY <1>1 DEF GwType, TunType, AgentType, UseType, gwVars, tunVars, agentVars, useVars
  <1> QED
    BY <1>2, TypePartsNext

(* Reading an item moves it from the channel to the client. *)
LEMMA ReadFlow ==
    ASSUME FlowInv, SentOnce', ClientReads
    PROVE  FlowInv'
  <1>a. /\ UNCHANGED <<gwVars, tunVars, agentVars, useVars, phase, tx, lostMark>>
        /\ chan # <<>> /\ chan' = Tail(chan) /\ rx /\ answer = "stream" /\ ended = "no"
    BY DEF ClientReads
  <1>b. UNCHANGED <<taken, charged, settled>>
    BY <1>a DEF useVars
  <1>c. /\ AgentSound' /\ StreamSound' /\ ItemSound'
        /\ UNCHANGED <<pc, cur, item, answer, sse, fin, up, agent, made, whole>>
    BY <1>a, <1>b, ClientKeeps
  <1>d. /\ chan \in Seq(Items) /\ got \in Seq(Items) /\ Len(chan) <= ChannelCap
        /\ Len(got) \in Nat /\ taken \in Nat /\ charged \in Nat /\ made \in Nat
        /\ lostMark \in BOOLEAN /\ tx \in BOOLEAN
        /\ CliType /\ PhaseType
    <2>1. TypeOK /\ CliType /\ PhaseType
      BY TypeParts DEF FlowInv
    <2> QED
      BY <2>1 DEF TypeOK
  <1>e. /\ chan' \in Seq(Items) /\ Len(chan') = Len(chan) - 1 /\ Len(chan) \in Nat /\ Len(chan) > 0
        /\ \A i \in 1 .. Len(chan) - 1 : chan'[i] = chan[i + 1]
        /\ Head(chan) = chan[1] /\ chan[1] \in Items
        /\ chan' # <<>> => chan'[Len(chan')] = chan[Len(chan)]
    <2>1. /\ chan' \in Seq(Items) /\ Len(chan') = Len(chan) - 1 /\ Len(chan) \in Nat /\ Len(chan) > 0
          /\ \A i \in 1 .. Len(chan) - 1 : chan'[i] = chan[i + 1]
          /\ Head(chan) = chan[1] /\ chan[1] \in Items
      BY <1>a, <1>d, TailFacts
    <2>2. chan' # <<>> => Len(chan') > 0
      BY <2>1
    <2> QED
      BY <2>1, <2>2
  <1>f. BodySound'
    BY <1>a, <1>c DEF FlowInv, BodySound
  <1>g. PhaseType'
    BY <1>a, <1>d DEF PhaseType
  <1>h. \A i \in 1 .. Len(got) : got[i].kind = "chunk" /\ got[i].n = i /\ i <= charged
    BY <1>a DEF FlowInv, ClientSound
  <1>i. \A i \in 1 .. Len(chan) :
              /\ chan[i].kind = "chunk" => chan[i].n = Len(got) + i /\ Len(got) + i <= charged
              /\ chan[i].kind # "chunk" => i = Len(chan) /\ pc = "end"
    BY DEF FlowInv, ClientSound
  <1>1. CASE chan[1].kind = "err"
    <2>1. ended' = "aborted" /\ rx' = FALSE /\ UNCHANGED got
      BY <1>1, <1>e DEF ClientReads
    <2>2. pc = "end" /\ chan' = <<>> /\ Len(chan') = 0
      BY <1>1, <1>e, <1>i
    <2>3. TypeOK'
      <3>1. CliType'
        <4>1. Len(chan') <= ChannelCap
          BY <1>d, <1>e, ConstantsAssumption
        <4>2. got' \in Seq(Items) /\ tx' \in BOOLEAN /\ lostMark' \in BOOLEAN
          BY <1>a, <1>d, <2>1
        <4> QED
          BY <1>e, <2>1, <4>1, <4>2 DEF CliType
      <3> QED
        BY <1>a, <1>g, <3>1, ClientTyped
    <2>4. ClientSound'
      BY <1>b, <1>h, <2>1, <2>2 DEF ClientSound
    <2>5. CountSound'
      BY <1>b, <1>c, <2>2 DEF FlowInv, CountSound
    <2>6. EndSound'
      BY <1>c, <2>1, <2>2 DEF EndSound
    <2> QED
      BY <1>c, <1>f, <2>3, <2>4, <2>5, <2>6 DEF FlowInv
  <1>2. CASE chan[1].kind # "err"
    <2>1. got' = Append(got, chan[1]) /\ UNCHANGED <<ended, rx>>
      BY <1>2, <1>e DEF ClientReads
    <2>2. /\ got' \in Seq(Items) /\ Len(got') = Len(got) + 1
          /\ \A i \in 1 .. Len(got) : got'[i] = got[i]
          /\ got'[Len(got) + 1] = chan[1]
      BY <1>d, <1>e, <2>1, AppendFacts
    <2>3. TypeOK'
      <3>1. CliType'
        BY <1>a, <1>d, <1>e, <2>1, <2>2, ConstantsAssumption DEF CliType
      <3> QED
        BY <1>a, <1>g, <3>1, ClientTyped
    <2>4. chan[1].kind # "chunk" => chan[1].kind = "sse" /\ pc = "end" /\ Len(chan') = 0
      BY <1>2, <1>e, <1>i DEF Items
    <2>5. ClientSound'
      <3>1. ASSUME NEW i \in 1 .. Len(got')
            PROVE  /\ got'[i].kind = "chunk" => got'[i].n = i /\ i <= charged
                   /\ got'[i].kind # "chunk" =>
                         got'[i].kind = "sse" /\ i = Len(got') /\ chan' = <<>> /\ pc = "end"
        <4>1. CASE i \in 1 .. Len(got)
          BY <1>h, <2>2, <4>1
        <4>2. CASE i = Len(got) + 1
          <5>1. chan[1].kind = "chunk" => chan[1].n = Len(got) + 1 /\ Len(got) + 1 <= charged
            BY <1>e, <1>i
          <5>2. Len(chan') = 0 => chan' = <<>>
            BY <1>e
          <5> QED
            BY <2>2, <2>4, <4>2, <5>1, <5>2
        <4> QED
          BY <1>d, <2>2, <4>1, <4>2
      <3>2. ASSUME NEW i \in 1 .. Len(chan')
            PROVE  /\ chan'[i].kind = "chunk" => chan'[i].n = Len(got') + i /\ Len(got') + i <= charged
                   /\ chan'[i].kind # "chunk" => i = Len(chan') /\ pc = "end"
        <4>1. i \in 1 .. Len(chan) - 1 /\ i + 1 \in 1 .. Len(chan)
          BY <1>e
        <4>2. chan'[i] = chan[i + 1]
          BY <1>e, <4>1
        <4>3. /\ chan[i + 1].kind = "chunk" => chan[i + 1].n = Len(got) + (i + 1) /\ Len(got) + (i + 1) <= charged
              /\ chan[i + 1].kind # "chunk" => i + 1 = Len(chan) /\ pc = "end"
          BY <1>i, <4>1
        <4> QED
          BY <1>d, <1>e, <2>2, <4>1, <4>2, <4>3
      <3> QED
        BY <1>b, <1>c, <3>1, <3>2 DEF ClientSound
    <2>6. CountSound'
      <3>1. Len(got') + Len(chan') = Len(got) + Len(chan)
        BY <1>d, <1>e, <2>2
      <3> QED
        BY <1>a, <1>b, <1>c, <3>1 DEF FlowInv, CountSound, Terminating
    <2>7. EndSound'
      <3> SUFFICES ASSUME pc = "end"
                   PROVE  \/ /\ fin = "UpstreamEnd"
                             /\ whole /\ made = Len(got') + Len(chan')
                             /\ \A i \in 1 .. Len(got') : got'[i].kind = "chunk"
                             /\ \A i \in 1 .. Len(chan') : chan'[i].kind = "chunk"
                          \/ fin = "ClientGone" /\ ~rx /\ ended # "clean"
                          \/ fin = "ClientStalled"
                          \/ fin = "GatewayShutdown" /\ ~sse
                          \/ lostMark
                          \/ ended = "aborted"
                          \/ Marked'
                          \/ chan' # <<>> /\ chan'[Len(chan')].kind # "chunk"
        BY <1>a, <1>c, <2>1 DEF FlowInv, EndSound
      <3>1. CASE chan # <<>> /\ chan[Len(chan)].kind # "chunk"
        <4>1. CASE chan' # <<>>
          BY <1>e, <3>1, <4>1
        <4>2. CASE chan' = <<>>
          <5>1. Len(chan) = 1
            BY <1>e, <4>2
          <5>2. got'[Len(got) + 1].kind = "sse" /\ Len(got) + 1 \in 1 .. Len(got')
            BY <1>d, <2>2, <2>4, <3>1, <5>1
          <5> QED
            BY <5>2 DEF Marked
        <4> QED
          BY <4>1, <4>2
      <3>2. CASE /\ fin = "UpstreamEnd" /\ whole /\ made = Len(got) + Len(chan)
                 /\ \A i \in 1 .. Len(got) : got[i].kind = "chunk"
                 /\ \A i \in 1 .. Len(chan) : chan[i].kind = "chunk"
        <4>1. made = Len(got') + Len(chan')
          BY <1>d, <1>e, <2>2, <3>2
        <4>2. ASSUME NEW i \in 1 .. Len(got') PROVE got'[i].kind = "chunk"
          <5>1. i \in 1 .. Len(got) \/ i = Len(got) + 1
            BY <1>d, <2>2
          <5> QED
            BY <1>e, <2>2, <3>2, <5>1
        <4>3. ASSUME NEW i \in 1 .. Len(chan') PROVE chan'[i].kind = "chunk"
          <5>1. i \in 1 .. Len(chan) - 1 /\ i + 1 \in 1 .. Len(chan)
            BY <1>e
          <5> QED
            BY <1>e, <3>2, <5>1
        <4> QED
          BY <3>2, <4>1, <4>2, <4>3
      <3>3. ~Marked
        BY <1>h DEF Marked
      <3> QED
        BY <1>a, <3>1, <3>2, <3>3 DEF FlowInv, EndSound
    <2> QED
      BY <1>c, <1>f, <2>3, <2>5, <2>6, <2>7 DEF FlowInv
  <1> QED
    BY <1>1, <1>2

(* The client sees the end or leaves, the phase advances, or nothing changes. *)
LEMMA ClientFlow ==
    ASSUME FlowInv, SentOnce', ClientSeesEnd \/ ClientLeaves \/ PhaseAdvances \/ UNCHANGED vars
    PROVE  FlowInv'
  <1>a. UNCHANGED <<gwVars, tunVars, agentVars, useVars, chan, tx, got, lostMark>>
    BY DEF ClientSeesEnd, ClientLeaves, PhaseAdvances, vars, cliVars
  <1>b. UNCHANGED <<taken, charged, settled>>
    BY <1>a DEF useVars
  <1>c. /\ AgentSound' /\ StreamSound' /\ ItemSound'
        /\ UNCHANGED <<pc, cur, item, answer, sse, fin, up, agent, made, whole>>
    BY <1>a, <1>b, ClientKeeps
  <1>d. /\ \/ UNCHANGED <<rx, ended>>
           \/ ended = "no" /\ ended' = "clean" /\ rx' = FALSE /\ ~tx /\ chan = <<>> /\ rx
           \/ UNCHANGED ended /\ rx' = FALSE
        /\ answer = "stream" \/ UNCHANGED <<rx, ended>>
    BY DEF ClientSeesEnd, ClientLeaves, PhaseAdvances, vars, cliVars
  <1>e. UNCHANGED phase \/ phase' = "Terminating" \/ (phase = "Running" /\ phase' = "Draining")
    BY DEF ClientSeesEnd, ClientLeaves, PhaseAdvances, vars
  <1>1. TypeOK'
    <2>1. CliType /\ PhaseType
      BY TypeParts DEF FlowInv
    <2>2. CliType' /\ PhaseType'
      BY <1>a, <1>d, <1>e, <2>1 DEF CliType, PhaseType
    <2> QED
      BY <1>a, <2>2, ClientTyped
  <1>2. BodySound' /\ ClientSound'
    BY <1>a, <1>b, <1>c, <1>d DEF FlowInv, BodySound, ClientSound
  <1>3. CountSound'
    BY <1>a, <1>b, <1>c, <1>e DEF FlowInv, CountSound, Terminating
  <1>4. EndSound'
    BY <1>a, <1>b, <1>c, <1>d DEF FlowInv, EndSound, BodySound, Marked
  <1> QED
    BY <1>c, <1>1, <1>2, <1>3, <1>4 DEF FlowInv

(* What happens on the far side of the tunnel matters to the client only through the
   frames, and nothing is added to a whole response. *)
LEMMA AgentKeeps ==
    ASSUME FlowInv, SentOnce', UNCHANGED <<gwVars, up, sig, cliVars, useVars, phase>>,
           down' \in [Agents -> Seq([kind : Frames, n : 0 .. MaxChunks])],
           lost' \in [Agents -> BOOLEAN], AgentType', made <= made',
           whole => whole' /\ made' = made,
           answer = "stream" => agent'[cur] \in {"relaying", "done"},
           AgentSound', StreamSound'
    PROVE  FlowInv'
  <1>a. UNCHANGED <<pc, cur, item, answer, sse, fin, up, sig, chan, tx, rx, got, ended, lostMark, taken,
                    charged, settled, phase>>
    BY DEF gwVars, cliVars, useVars
  <1>b. TypeOK /\ GwType /\ TunType /\ CliType /\ UseType /\ PhaseType
    BY TypeParts DEF FlowInv
  <1>1. TypeOK'
    <2>1. GwType' /\ CliType' /\ UseType' /\ PhaseType' /\ TunType'
      BY <1>b DEF GwType, CliType, UseType, PhaseType, TunType, gwVars, cliVars, useVars
    <2> QED
      BY <2>1, TypePartsNext
  <1>2. BodySound' /\ ItemSound' /\ ClientSound'
    BY <1>a DEF FlowInv, BodySound, ItemSound, ClientSound
  <1>3. CountSound'
    <2>1. made \in Nat /\ made' \in Nat /\ taken \in Nat
      BY <1>b DEF TypeOK, AgentType
    <2>2. taken <= made'
      BY <2>1 DEF FlowInv, CountSound
    <2> QED
      BY <1>a, <2>2 DEF FlowInv, CountSound, Terminating
  <1>4. EndSound'
    BY <1>a DEF FlowInv, EndSound, Marked
  <1> QED
    BY <1>1, <1>2, <1>3, <1>4 DEF FlowInv

(* The agent of the current attempt sends the next frame. *)
LEMMA SendFlow ==
    ASSUME FlowInv, cur \in Agents, NEW k \in Frames, NEW n \in 0 .. MaxChunks, Send(cur, Frame(k, n)),
           UNCHANGED <<pc, cur, item, answer, taken, lost>>,
           agent'[cur] \in {"relaying", "done"},
           agent[cur] # "done", made' \in Nat, made <= made',
           agent[cur] = "relaying" \/ down[cur] = <<>>,
           k = "head" => down[cur] = <<>> /\ pc \in {"await", "end"} /\ made' = 0 /\ taken = 0,
           agent[cur] # "relaying" => k \in {"head", "error"} /\ made' = made,
           k \in {"body", "oversized"} => n = made + 1 /\ made' = made + 1 /\ agent'[cur] = "relaying",
           k \in {"end", "trunc", "error"} => agent'[cur] = "done" /\ made' = made,
           k = "end" => whole' /\ agent[cur] = "relaying",
           agent[cur] = "relaying" => k # "head",
           ~lost[cur]
    PROVE  StreamSound'
  <1>a. TypeOK
    BY DEF FlowInv
  <1>c. made \in Nat /\ taken \in Nat
    BY <1>a DEF TypeOK
  <1>d. /\ down \in [Agents -> Seq([kind : Frames, n : 0 .. MaxChunks])]
        /\ made \in Nat /\ made' \in Nat /\ taken \in Nat
    BY <1>a, <1>c DEF TypeOK
  <1>g. Frame(k, n) \in [kind : Frames, n : 0 .. MaxChunks]
    BY ItemTypes
  <1> DEFINE s == down[cur]
             z == down'[cur]
             N == Len(s) + 1
  <1>1. /\ Len(s) \in Nat /\ Len(z) = N
        /\ \A i \in 1 .. Len(s) : z[i] = s[i]
        /\ z[N] = Frame(k, n)
        /\ z # <<>>
    BY <1>a, <1>g, SendType
  <1>2. Frame(k, n).kind = k /\ Frame(k, n).n = n
    BY DEF Frame
  <1>3. /\ Reading' <=> Reading
        /\ Ahead' = Ahead /\ Ahead \in {0, 1} /\ (pc = "await" => Ahead = 1) /\ (pc # "await" => Ahead = 0)
    BY DEF Reading, Ahead
  <1> SUFFICES ASSUME Reading
               PROVE  /\ \A i \in 1 .. Len(z) :
                            /\ z[i].kind = "head" => pc = "await" /\ i = 1
                            /\ i = 1 /\ pc = "await" => z[i].kind \in {"head", "error"}
                            /\ z[i].kind \in {"body", "oversized"} =>
                                  z[i].n = taken + i - Ahead /\ z[i].n <= made'
                            /\ z[i].kind \in {"end", "trunc", "error"} => i = Len(z) /\ agent'[cur] = "done"
                            /\ z[i].kind = "end" => whole' /\ made' = taken + i - 1 - Ahead
                      /\ agent'[cur] = "relaying" => made' = taken + Len(z) - Ahead
    BY <1>1, <1>3 DEF StreamSound
  <1>4. /\ \A i \in 1 .. Len(s) :
              /\ s[i].kind = "head" => pc = "await" /\ i = 1
              /\ i = 1 /\ pc = "await" => s[i].kind \in {"head", "error"}
              /\ s[i].kind \in {"body", "oversized"} => s[i].n = taken + i - Ahead /\ s[i].n <= made
              /\ s[i].kind \notin {"end", "trunc", "error"}
        /\ agent[cur] = "relaying" => made = taken + Len(s) - Ahead /\ (pc = "await" => s # <<>>)
    BY DEF FlowInv, StreamSound
  <1>5. s = <<>> => Len(s) = 0 /\ N = 1
    BY <1>1
  <1>6. s # <<>> => N # 1
    <2>1. s \in Seq([kind : Frames, n : 0 .. MaxChunks])
      BY <1>d
    <2> QED
      BY <2>1
  <1>7. made' \in Int
    BY <1>d
  <1> HIDE DEF s, z, N
  <1>8. ASSUME NEW i \in 1 .. Len(s)
        PROVE  /\ s[i].kind = "head" => pc = "await" /\ i = 1
               /\ i = 1 /\ pc = "await" => s[i].kind \in {"head", "error"}
               /\ s[i].kind \in {"body", "oversized"} => s[i].n = taken + i - Ahead /\ s[i].n <= made'
               /\ s[i].kind \notin {"end", "trunc", "error"}
    <2>1. taken + i - Ahead \in Int
      BY <1>d, <1>3
    <2> QED
      BY <1>d, <1>4, <1>7, <2>1
  <1>9. /\ k = "head" => pc = "await" /\ N = 1
        /\ N = 1 /\ pc = "await" => k \in {"head", "error"}
        /\ k \in {"body", "oversized"} => n = taken + N - Ahead /\ n <= made'
        /\ k \in {"end", "trunc", "error"} => agent'[cur] = "done"
        /\ k = "end" => whole' /\ made' = taken + N - 1 - Ahead
    <2>1. k = "head" => pc = "await" /\ N = 1
      BY <1>5 DEF Reading, s
    <2>2. N = 1 /\ pc = "await" => k \in {"head", "error"}
      BY <1>4, <1>6
    <2>3. k \in {"body", "oversized"} => n = taken + N - Ahead /\ n <= made'
      BY <1>d, <1>1, <1>3, <1>4 DEF N
    <2>4. k = "end" => whole' /\ made' = taken + N - 1 - Ahead
      BY <1>d, <1>1, <1>3, <1>4 DEF N
    <2> QED
      BY <2>1, <2>2, <2>3, <2>4
  <1>10. agent'[cur] = "relaying" => made' = taken + Len(z) - Ahead
    <2>1. CASE k = "head"
      BY <1>1, <1>3, <1>9, <2>1
    <2>2. CASE k \in {"body", "oversized"}
      BY <1>d, <1>1, <1>3, <1>4, <2>2 DEF N
    <2>3. CASE k \in {"end", "trunc", "error"}
      BY <2>3
    <2> QED
      BY <2>1, <2>2, <2>3 DEF Frames
  <1>11. ASSUME NEW i \in 1 .. Len(z)
         PROVE  /\ z[i].kind = "head" => pc = "await" /\ i = 1
                /\ i = 1 /\ pc = "await" => z[i].kind \in {"head", "error"}
                /\ z[i].kind \in {"body", "oversized"} => z[i].n = taken + i - Ahead /\ z[i].n <= made'
                /\ z[i].kind \in {"end", "trunc", "error"} => i = Len(z) /\ agent'[cur] = "done"
                /\ z[i].kind = "end" => whole' /\ made' = taken + i - 1 - Ahead
    <2>1. i \in 1 .. Len(s) \/ i = N
      BY <1>1 DEF N
    <2>2. CASE i \in 1 .. Len(s)
      BY <1>1, <1>8, <2>2
    <2>3. CASE i = N
      BY <1>1, <1>2, <1>9, <2>3
    <2> QED
      BY <2>1, <2>2, <2>3
  <1> QED
    BY <1>10, <1>11

(* A step of an agent: what it sends continues what it sent. *)
LEMMA AgentFlow ==
    ASSUME FlowInv, SentOnce', NEW a \in Agents, AgentStep(a)
    PROVE  FlowInv'
  <1>a. TypeOK /\ SentOnce /\ BodySound /\ AgentSound /\ StreamSound /\ AgentType
    BY TypeParts DEF FlowInv
  <1>b. UNCHANGED <<gwVars, up, sig, cliVars, useVars, phase, lost>>
    BY DEF AgentStep, AgentStarts, AgentGivesUp, Listener, AgentCancels, UpstreamAnswers, UpstreamChunk,
           UpstreamEnds, AgentUnchanged
  <1>c. UNCHANGED <<pc, cur, item, answer, taken>>
    BY <1>b DEF gwVars, useVars
  <1>d. /\ down \in [Agents -> Seq([kind : Frames, n : 0 .. MaxChunks])]
        /\ lost \in [Agents -> BOOLEAN] /\ made \in Nat /\ MaxChunks \in Nat /\ made \in 0 .. MaxChunks
        /\ agent \in [Agents -> {"none", "reading", "done"} \cup Working]
        /\ taken \in Nat
    <2>1. MaxChunks \in Nat
      BY ConstantsAssumption
    <2>2. /\ down \in [Agents -> Seq([kind : Frames, n : 0 .. MaxChunks])]
          /\ lost \in [Agents -> BOOLEAN] /\ made \in 0 .. MaxChunks
          /\ agent \in [Agents -> {"none", "reading", "done"} \cup Working]
          /\ taken \in Nat
      BY <1>a DEF TypeOK
    <2>3. made \in Nat
      BY <1>a DEF TypeOK
    <2> QED
      BY <2>1, <2>2, <2>3
  <1>e. up[a] = "full" => a = cur
    BY <1>a DEF SentOnce
  <1>f. agent[a] \in Working => up[a] = "full" /\ a = cur /\ a \in calls
    BY <1>a, <1>e DEF AgentSound
  <1>g. \A k \in Frames, n \in 0 .. MaxChunks : Frame(k, n) \in [kind : Frames, n : 0 .. MaxChunks]
    BY ItemTypes
  <1>i. "head" \in Frames /\ "error" \in Frames /\ "end" \in Frames /\ "trunc" \in Frames
        /\ "body" \in Frames /\ "oversized" \in Frames /\ 0 \in 0 .. MaxChunks
    BY <1>d DEF Frames
  <1>j. agent[a] \in {"reading", "calling"} /\ up[a] = "full" =>
            /\ a = cur /\ down[a] = <<>> /\ answer # "stream" /\ made = 0 /\ ~whole /\ pc \in {"await", "end"}
            /\ taken = 0
    BY <1>a, <1>d, <1>e DEF AgentSound, BodySound, SentOnce, TypeOK, Setup, Forward
  <1>k. \A b \in Agents : b # a => down'[b] = down[b]
    BY <1>d DEF AgentStep, AgentStarts, AgentGivesUp, Listener, AgentCancels, UpstreamAnswers,
           UpstreamChunk, UpstreamEnds, Send
  <1>1. ASSUME UNCHANGED <<down, made, whole>>, AgentType', AgentSound',
               agent'[cur] \in {agent[cur], "done"} \/ (answer # "stream" /\ agent'[cur] = "calling"),
               agent[cur] = "done" => agent'[cur] = "done"
        PROVE  FlowInv'
    <2>1. StreamSound'
      <3>1. Reading' => agent'[cur] # "relaying" \/ agent'[cur] = agent[cur]
        BY <1>1
      <3> QED
        BY <1>1, <1>a, <1>b, <1>c, <3>1 DEF StreamSound, Reading, Ahead
    <2>2. answer = "stream" => agent'[cur] \in {"relaying", "done"}
      BY <1>1, <1>a DEF BodySound
    <2>3. made <= made' /\ (whole => whole' /\ made' = made)
      BY <1>1, <1>d
    <2> QED
      BY <1>1, <1>b, <1>d, <2>1, <2>2, <2>3, AgentKeeps
  <1>2. ASSUME NEW s \in {"reading", "done", "calling", "relaying"}, Become(a, s)
        PROVE  /\ agent'[a] = s /\ \A b \in Agents \ {a} : agent'[b] = agent[b]
               /\ agent' \in [Agents -> {"none", "reading", "done"} \cup Working]
    BY <1>2, <1>d DEF Become, Working
  <1>3. ASSUME agent[a] \in {"reading", "calling", "relaying"}, up[a] = "full", ~lost[a],
               NEW k \in Frames, NEW n \in 0 .. MaxChunks, Send(a, Frame(k, n)),
               NEW s \in {"relaying", "done"}, agent'[a] = s,
               \A b \in Agents \ {a} : agent'[b] = agent[b],
               s = "relaying" => a \in calls, UNCHANGED calls,
               AgentType', made' \in Nat, made <= made',
               agent[a] # "relaying" => k \in {"head", "error"} /\ made' = made /\ UNCHANGED whole,
               agent[a] = "relaying" => k # "head",
               k = "head" => s = "relaying",
               k \in {"body", "oversized"} => n = made + 1 /\ made' = made + 1 /\ s = "relaying" /\ UNCHANGED whole,
               k \in {"end", "trunc", "error"} => s = "done" /\ made' = made,
               whole' = whole \/ (s = "done" /\ whole'),
               k = "end" => whole' /\ agent[a] = "relaying"
        PROVE  FlowInv'
    <2>1. a = cur /\ cur \in Agents
      BY <1>3, <1>e
    <2>2. ~whole
      BY <1>3, <1>a, <2>1 DEF AgentSound
    <2>3. agent[cur] = "relaying" \/ (down[cur] = <<>> /\ made = 0 /\ taken = 0 /\ pc \in {"await", "end"})
      BY <1>3, <1>j, <2>1
    <2>4. UNCHANGED lost
      BY <1>b
    <2>5. StreamSound'
      BY <1>3, <1>c, <2>1, <2>3, <2>4, SendFlow
    <2>6. /\ down' \in [Agents -> Seq([kind : Frames, n : 0 .. MaxChunks])]
          /\ \A b \in Agents \ {a} : down'[b] = down[b]
      BY <1>3, <1>a, <1>g, SendType
    <2>7. AgentSound'
      <3>1. UNCHANGED <<up, cur, lost>>
        BY <1>b, <1>c
      <3> QED
        BY <1>3, <1>a, <2>1, <2>6, <3>1 DEF AgentSound, Working
    <2>8. answer = "stream" => agent'[cur] \in {"relaying", "done"}
      BY <1>3, <2>1
    <2>9. lost' \in [Agents -> BOOLEAN]
      BY <1>d, <2>4
    <2> QED
      BY <1>3, <1>b, <2>2, <2>5, <2>6, <2>7, <2>8, <2>9, AgentKeeps
  <1>4. CASE AgentStarts(a)
    <2>1. agent[a] = "reading" /\ up[a] = "full" /\ ~lost[a] /\ UNCHANGED <<cancelled, made, whole>>
      BY <1>4 DEF AgentStarts
    <2>2. CASE Send(a, Frame("error", 0)) /\ Become(a, "done") /\ UNCHANGED calls
      <3>1. agent'[a] = "done" /\ (\A b \in Agents \ {a} : agent'[b] = agent[b]) /\ AgentType'
        BY <1>2, <1>a, <2>1, <2>2 DEF AgentType
      <3> QED
        BY <1>3, <1>d, <1>i, <2>1, <2>2, <3>1
    <2>3. CASE Become(a, "calling") /\ calls' = calls \cup {a} /\ UNCHANGED down
      <3>1. /\ agent'[a] = "calling" /\ (\A b \in Agents \ {a} : agent'[b] = agent[b]) /\ AgentType'
        BY <1>2, <1>a, <2>1, <2>3 DEF AgentType
      <3>2. a = cur /\ answer # "stream" /\ made = 0 /\ ~whole /\ down[a] = <<>>
        BY <1>j, <2>1
      <3>3. AgentSound'
        <4>1. UNCHANGED <<up, cur, lost>>
          BY <1>b, <1>c
        <4> QED
          BY <1>a, <1>d, <2>1, <2>3, <3>1, <3>2, <4>1 DEF AgentSound, Working
      <3> QED
        BY <1>1, <2>1, <2>3, <3>1, <3>2, <3>3
    <2> QED
      BY <1>4, <2>2, <2>3 DEF AgentStarts
  <1>5. CASE AgentGivesUp(a)
    <2>1. /\ agent[a] = "reading" /\ UNCHANGED <<cancelled, calls, made, whole, down>>
          /\ agent'[a] = "done" /\ \A b \in Agents \ {a} : agent'[b] = agent[b]
      BY <1>2, <1>5 DEF AgentGivesUp
    <2>2. AgentType'
      BY <1>2, <1>5, <1>a DEF AgentGivesUp, AgentType
    <2>3. UNCHANGED <<up, cur, lost>>
      BY <1>b, <1>c
    <2>4. AgentSound'
      BY <1>a, <2>1, <2>3 DEF AgentSound, Working
    <2>5. agent'[cur] \in {agent[cur], "done"} /\ (agent[cur] = "done" => agent'[cur] = "done")
      <3>1. CASE cur \in Agents
        BY <2>1, <3>1
      <3>2. CASE cur = NoAgent
        BY <1>5, <1>d, <3>2, ConstantsAssumption DEF AgentGivesUp, Become
      <3> QED
        BY <1>a, <3>1, <3>2 DEF SentOnce
    <2> QED
      BY <1>1, <2>1, <2>2, <2>4, <2>5
  <1>6. CASE Listener(a)
    <2>1. UNCHANGED <<agent, calls, made, whole, down, up, cur, lost>>
      BY <1>6, <1>b, <1>c DEF Listener
    <2>2. AgentType'
      BY <1>6, <1>a, <2>1 DEF Listener, AgentType
    <2>3. AgentSound'
      BY <1>a, <2>1 DEF AgentSound
    <2> QED
      BY <1>1, <2>1, <2>2, <2>3
  <1>7. CASE AgentCancels(a)
    <2>1. /\ agent[a] \in Working /\ UNCHANGED <<cancelled, calls, made, whole>>
          /\ agent'[a] = "done" /\ (\A b \in Agents \ {a} : agent'[b] = agent[b])
      BY <1>2, <1>7 DEF AgentCancels
    <2>2. AgentType'
      BY <1>2, <1>7, <1>a DEF AgentCancels, AgentType
    <2>3. CASE ~lost[a] /\ Send(a, Frame("error", 0))
      <3>1. agent[a] \in {"calling", "relaying"} /\ up[a] = "full" /\ a \in calls
        BY <1>f, <2>1 DEF Working
      <3>2. made' \in Nat /\ made <= made'
        BY <1>d, <2>1
      <3> QED
        BY <1>3, <1>i, <2>1, <2>2, <2>3, <3>1, <3>2
    <2>4. CASE UNCHANGED down
      <3>1. UNCHANGED <<up, cur, lost>> /\ a = cur
        BY <1>b, <1>c, <1>f, <2>1
      <3>2. AgentSound'
        BY <1>a, <2>1, <2>4, <3>1 DEF AgentSound, Working
      <3> QED
        BY <1>1, <2>1, <2>2, <2>4, <3>1, <3>2
    <2> QED
      BY <1>7, <2>3, <2>4 DEF AgentCancels
  <1>8. CASE UpstreamAnswers(a)
    <2>1. agent[a] = "calling" /\ ~lost[a] /\ UNCHANGED <<cancelled, calls, made, whole>> /\ up[a] = "full"
          /\ a \in calls
      BY <1>8, <1>f DEF UpstreamAnswers, Working
    <2>2. PICK k \in {"head", "error"}, s \in {"relaying", "done"} :
             /\ Send(a, Frame(k, 0)) /\ Become(a, s)
             /\ k = "head" <=> s = "relaying"
      BY <1>8 DEF UpstreamAnswers
    <2>3. agent'[a] = s /\ (\A b \in Agents \ {a} : agent'[b] = agent[b]) /\ AgentType'
      BY <1>2, <1>a, <2>1, <2>2 DEF AgentType
    <2> QED
      BY <1>3, <1>d, <1>i, <2>1, <2>2, <2>3
  <1>9. CASE UpstreamChunk(a)
    <2>1. /\ agent[a] = "relaying" /\ ~lost[a] /\ UNCHANGED <<agent, cancelled, calls, whole>>
          /\ up[a] = "full" /\ a \in calls /\ made < MaxChunks /\ made' = made + 1
      BY <1>9, <1>f DEF UpstreamChunk, Working
    <2>2. PICK k \in {"body", "oversized"} : Send(a, Frame(k, made + 1))
      BY <1>9 DEF UpstreamChunk
    <2>3. made + 1 \in 0 .. MaxChunks /\ made' \in 0 .. MaxChunks /\ made' \in Nat /\ made <= made'
      BY <1>d, <2>1
    <2>4. AgentType'
      BY <1>a, <2>1, <2>3 DEF AgentType
    <2> QED
      BY <1>3, <1>i, <2>1, <2>2, <2>3, <2>4
  <1>10. CASE UpstreamEnds(a)
    <2>1. /\ agent[a] = "relaying" /\ ~lost[a] /\ UNCHANGED <<cancelled, calls, made>>
          /\ up[a] = "full" /\ a \in calls /\ Become(a, "done")
      BY <1>10, <1>f DEF UpstreamEnds, Working
    <2>2. PICK k \in {"end", "trunc"} :
             Send(a, Frame(k, 0)) /\ (k = "end" => whole' = TRUE) /\ (k = "trunc" => UNCHANGED whole)
      BY <1>10 DEF UpstreamEnds
    <2>3. agent'[a] = "done" /\ (\A b \in Agents \ {a} : agent'[b] = agent[b]) /\ AgentType'
      BY <1>2, <1>a, <2>1, <2>2 DEF AgentType
    <2> QED
      BY <1>3, <1>d, <1>i, <2>1, <2>2, <2>3
  <1> QED
    BY <1>4, <1>5, <1>6, <1>7, <1>8, <1>9, <1>10 DEF AgentStep

(* A tunnel is lost with the frames that were on it. *)
LEMMA LostFlow ==
    ASSUME FlowInv, SentOnce', NEW a \in Agents, TunnelLost(a)
    PROVE  FlowInv'
  <1>a. /\ TypeOK /\ AgentSound /\ StreamSound /\ SentOnce /\ BodySound /\ AgentType
    BY TypeParts DEF FlowInv
  <1>b. UNCHANGED <<gwVars, up, sig, agentVars, cliVars, useVars, phase>> /\ up[a] # "none"
    BY DEF TunnelLost
  <1>c. UNCHANGED <<pc, cur, item, answer, taken, up, agent, calls, made, whole>>
    BY <1>b DEF gwVars, useVars, agentVars
  <1>d. /\ lost' \in [Agents -> BOOLEAN] /\ lost'[a] = TRUE /\ down'[a] = <<>>
        /\ \A b \in Agents \ {a} : lost'[b] = lost[b] /\ down'[b] = down[b]
        /\ down' \in [Agents -> Seq([kind : Frames, n : 0 .. MaxChunks])]
    <2>1. lost' \in [Agents -> BOOLEAN] /\ lost'[a] = TRUE /\ \A b \in Agents \ {a} : lost'[b] = lost[b]
      BY <1>a DEF TunnelLost, TypeOK
    <2>2. down \in [Agents -> Seq([kind : Frames, n : 0 .. MaxChunks])]
      BY <1>a DEF TypeOK
    <2> DEFINE S == Seq([kind : Frames, n : 0 .. MaxChunks])
    <2>3. <<>> \in S
      OBVIOUS
    <2>4. down \in [Agents -> S] /\ down' = [down EXCEPT ![a] = <<>>]
      BY <2>2 DEF TunnelLost
    <2> HIDE DEF S
    <2>5. down'[a] = <<>> /\ (\A b \in Agents \ {a} : down'[b] = down[b]) /\ down' \in [Agents -> S]
      BY <2>3, <2>4
    <2> QED
      BY <2>1, <2>5 DEF S
  <1>1. AgentSound'
    BY <1>a, <1>c, <1>d DEF AgentSound
  <1>2. StreamSound'
    <2>1. CASE cur = a
      BY <1>c, <1>d, <2>1 DEF StreamSound
    <2>2. CASE cur \in Agents \ {a}
      BY <1>a, <1>c, <1>d, <2>2 DEF StreamSound, Reading, Ahead
    <2>3. CASE cur = NoAgent
      <3>1. ~Reading'
        BY <1>a, <1>c, <2>3, ConstantsAssumption DEF Reading, SentOnce, BodySound, Forward
      <3> QED
        BY <3>1 DEF StreamSound
    <2> QED
      BY <1>a, <2>1, <2>2, <2>3 DEF SentOnce
  <1>3. AgentType' /\ made <= made'
    BY <1>a, <1>b, <1>c DEF AgentType, agentVars
  <1> QED
    BY <1>1, <1>2, <1>3, <1>a, <1>b, <1>c, <1>d, AgentKeeps DEF BodySound

-----------------------------------------------------------------------------
(* Initially there is no body. *)
LEMMA FlowInit == Init => FlowInv
  <1> SUFFICES ASSUME Init PROVE FlowInv
    OBVIOUS
  <1>1. TypeOK
    <2>1. item \in Items
      BY ItemTypes DEF Init
    <2>2. made \in 0 .. MaxChunks /\ Len(chan) <= ChannelCap
      BY ConstantsAssumption DEF Init
    <2>3. chan \in Seq(Items) /\ got \in Seq(Items) /\ <<>> \in Seq([kind : Frames, n : 0 .. MaxChunks])
      BY DEF Init
    <2>4. GwType
      BY <2>1 DEF Init, GwType, Setup, Answers, Ends
    <2>5. TunType
      BY <2>3 DEF Init, TunType
    <2>6. AgentType /\ UseType /\ PhaseType
      BY <2>2 DEF Init, AgentType, UseType, PhaseType
    <2>7. CliType
      BY <2>2, <2>3 DEF Init, CliType
    <2> QED
      BY <2>4, <2>5, <2>6, <2>7, TypeParts
  <1>2. SentOnce
    BY SentOnceInit
  <1>3. BodySound /\ AgentSound /\ StreamSound
    BY DEF Init, BodySound, AgentSound, StreamSound, Reading, Forward, Working
  <1>4. ItemSound /\ ClientSound /\ CountSound /\ EndSound
    BY DEF Init, ItemSound, ClientSound, CountSound, EndSound
  <1> QED
    BY <1>1, <1>2, <1>3, <1>4 DEF FlowInv

(* Every step preserves FlowInv. *)
LEMMA FlowNext == FlowInv /\ [Next]_vars => FlowInv'
  <1> SUFFICES ASSUME FlowInv, [Next]_vars PROVE FlowInv'
    OBVIOUS
  <1>1. SentOnce'
    BY SentOnceNext DEF FlowInv
  <1>2. CASE HandlerStep \/ HandlerDropped
    BY <1>2, HandlerFlow
  <1>3. CASE ForwardStep \/ Panic
    BY <1>1, <1>3, FrameFlow, EndFlow, PushFlow, LoopFlow DEF ForwardStep
  <1>4. CASE ClientReads \/ ClientSeesEnd \/ ClientLeaves \/ PhaseAdvances \/ UNCHANGED vars
    BY <1>1, <1>4, ReadFlow, ClientFlow
  <1>5. ASSUME NEW a \in Agents, AgentStep(a) \/ TunnelLost(a) PROVE FlowInv'
    BY <1>1, <1>5, AgentFlow, LostFlow
  <1> QED
    BY <1>2, <1>3, <1>4, <1>5 DEF Next

(* FlowInv is an invariant. *)
LEMMA FlowInvariance == Spec => []FlowInv
  BY FlowInit, FlowNext, PTL DEF Spec

(* The client has received the chunks 1 .. Received, in order. *)
LEMMA ReceivedInOrder ==
    ASSUME FlowInv
    PROVE  /\ Received \in Nat /\ Received <= charged /\ Received <= Len(got) /\ Len(got) \in Nat
           /\ \A i \in 1 .. Received : got[i].kind = "chunk" /\ got[i].n = i
           /\ Marked => Received = Len(got) - 1
           /\ ~Marked => Received = Len(got)
  <1>1. Len(got) \in Nat /\ charged \in Nat
    BY DEF FlowInv, TypeOK
  <1>2. /\ Marked => Received = Len(got) - 1 /\ Len(got) # 0
        /\ ~Marked => Received = Len(got)
    BY <1>1 DEF Received, Marked
  <1>3. Received \in Nat /\ Received <= Len(got)
    BY <1>1, <1>2
  <1>4. \A i \in 1 .. Len(got) :
           /\ got[i].kind = "chunk" => got[i].n = i /\ i <= charged
           /\ got[i].kind # "chunk" => got[i].kind = "sse" /\ i = Len(got)
    BY DEF FlowInv, ClientSound
  <1>5. ASSUME NEW i \in 1 .. Received PROVE got[i].kind = "chunk"
    <2>1. i \in 1 .. Len(got)
      BY <1>1, <1>3
    <2>2. CASE got[i].kind # "chunk"
      <3>1. Marked /\ i = Len(got)
        BY <1>4, <2>1, <2>2 DEF Marked
      <3> QED
        BY <1>1, <1>2, <3>1
    <2> QED
      BY <2>2
  <1>6. ASSUME NEW i \in 1 .. Received PROVE got[i].n = i /\ i <= charged
    BY <1>1, <1>3, <1>4, <1>5
  <1>7. Received <= charged
    <2>1. CASE Received = 0
      BY <1>1, <2>1
    <2>2. CASE Received # 0
      BY <1>3, <1>6, <2>2
    <2> QED
      BY <2>1, <2>2
  <1> QED
    BY <1>1, <1>2, <1>3, <1>5, <1>6, <1>7

(* Type correctness of the request path; in particular the channel to the client never
   holds more than its capacity. *)
THEOREM PathTypeCorrect == Spec => []TypeOK
  <1>1. FlowInv => TypeOK
    BY DEF FlowInv
  <1> QED
    BY <1>1, FlowInvariance, PTL

(* A body that ends cleanly and unmarked is the whole response, for every set of agents,
   every channel capacity and every length of the response (forward.rs). *)
THEOREM CleanEndsAreWhole == Spec => []CleanEndIsWhole
  <1>1. FlowInv => CleanEndIsWhole
    <2> SUFFICES ASSUME FlowInv, ended = "clean", ~Marked, ~lostMark, fin # "ClientStalled",
                        ~(fin = "GatewayShutdown" /\ ~sse)
                 PROVE  whole /\ Received = made
      BY DEF CleanEndIsWhole
    <2>1. answer = "stream" /\ pc = "end" /\ chan = <<>>
      BY DEF FlowInv, BodySound, EndSound
    <2>2. whole /\ made = Len(got) + Len(chan)
      BY <2>1 DEF FlowInv, EndSound
    <2>3. Received = Len(got) /\ Len(got) \in Nat
      BY ReceivedInOrder
    <2> QED
      BY <2>1, <2>2, <2>3
  <1> QED
    BY <1>1, FlowInvariance, PTL

(* Usage is settled exactly once for every forwarded response, with every chunk the
   client received and every chunk taken from the tunnel (usage.rs, forward.rs). *)
THEOREM UsageSettledOnce == Spec => []UsageIsSettled
  <1>1. FlowInv => UsageIsSettled
    BY ReceivedInOrder DEF FlowInv, CountSound, UsageIsSettled
  <1> QED
    BY <1>1, FlowInvariance, PTL

-----------------------------------------------------------------------------
(* The refinement of OneShot. *)

(* Initial states are initial states of OneShot. *)
LEMMA RefinesInit == Init => Abstract!Init
  <1> SUFFICES ASSUME Init PROVE Abstract!Init
    OBVIOUS
  <1>1. Fate = "pending" /\ (calls # {}) = FALSE /\ made = 0
    BY DEF Init, Fate
  <1>2. Received = 0
    BY DEF Init, Received, Marked
  <1>3. Body = <<>>
    BY <1>2 DEF Body
  <1> QED
    BY <1>1, <1>3 DEF Abstract!Init

(* The fate of the request, from the handler's answer and the streams, *)
LEMMA FateType ==
    /\ Fate \in {"pending", "sent", "refused", "dropped"}
    /\ SentOnce => (Fate = "sent" <=> \E a \in Agents : up[a] = "full")
  BY DEF Fate, SentOnce, Refused

(* ... in the next state too. *)
LEMMA FateTypeNext ==
    /\ Fate' \in {"pending", "sent", "refused", "dropped"}
    /\ SentOnce' => (Fate' = "sent" <=> \E a \in Agents : up'[a] = "full")
  BY DEF Fate, SentOnce, Refused

(* A step that shows nothing but a decision. *)
LEMMA DecideStep ==
    ASSUME UNCHANGED <<calls, made, got>>, Fate = "pending" \/ Fate' = Fate
    PROVE  [Abstract!Next]_(Abstract!vars)
  <1>1. Body' = Body
    BY DEF Body, Received, Marked
  <1>2. Fate' \in {"pending", "sent", "refused", "dropped"}
    BY FateTypeNext
  <1>3. CASE Fate' = Fate
    BY <1>1, <1>3 DEF Abstract!vars
  <1>4. CASE Fate = "pending" /\ Fate' # Fate
    BY <1>1, <1>2, <1>4 DEF Abstract!Next, Abstract!Decide
  <1> QED
    BY <1>3, <1>4

(* Every step is a step of OneShot or leaves its state alone. *)
LEMMA RefinesNext ==
    ASSUME FlowInv, [Next]_vars
    PROVE  [Abstract!Next]_(Abstract!vars)
  <1>a. SentOnce /\ SentOnce' /\ AgentSound /\ TypeOK
    BY SentOnceNext DEF FlowInv
  <1>b. ASSUME UNCHANGED <<calls, made, got, pc, answer, up>> PROVE [Abstract!Next]_(Abstract!vars)
    <2>1. Fate' = Fate
      BY <1>b DEF Fate
    <2> QED
      BY <1>b, <2>1, DecideStep
  <1>1. CASE HandlerStep \/ HandlerDropped
    <2>1. UNCHANGED <<calls, made, got>> /\ pc \in Setup
      BY <1>1, HandlerType DEF HandlerTouches, cliVars
    <2>2. Fate \in {"pending", "sent"}
      BY <1>a, <2>1 DEF Fate, SentOnce, Refused, Setup
    <2>3. \A a \in Agents : up[a] = "full" => up'[a] = "full"
      BY <1>1, <1>a DEF HandlerStep, HandlerDropped, Acquire, NoCandidate, OpenStream, OpenFails, WriteSome,
             WriteFails, HeadArrives, HeadFails, HeadTimeout, SentOnce, tunVars, TypeOK
    <2>4. Fate = "sent" => Fate' = "sent"
      BY <1>a, <2>3, FateType, FateTypeNext
    <2> QED
      BY <2>1, <2>2, <2>4, DecideStep
  <1>2. CASE ForwardStep \/ Panic
    <2>1. ForwardTouches /\ pc \in Forward
      BY <1>2, ForwardShape
    <2>2. cur \in Agents /\ up[cur] = "full" /\ UNCHANGED <<calls, made, got, up>>
      BY <2>1, InForward DEF ForwardTouches, agentVars
    <2>3. Fate = "sent" /\ Fate' = "sent"
      BY <1>a, <2>2, FateType, FateTypeNext
    <2> QED
      BY <2>2, <2>3, DecideStep
  <1>3. CASE ClientSeesEnd \/ ClientLeaves \/ PhaseAdvances \/ UNCHANGED vars
    BY <1>3, <1>b DEF ClientSeesEnd, ClientLeaves, PhaseAdvances, vars, gwVars, tunVars, agentVars, cliVars
  <1>4. CASE ClientReads
    <2>1. UNCHANGED <<calls, made, pc, answer, up>>
      BY <1>4 DEF ClientReads, gwVars, tunVars, agentVars
    <2>2. Fate' = Fate
      BY <2>1 DEF Fate
    <2>3. CASE UNCHANGED got
      BY <1>b, <2>1, <2>3
    <2>4. CASE got' = Append(got, chan[1]) /\ chan[1].kind # "err"
      <3>1. /\ got \in Seq(Items) /\ chan \in Seq(Items) /\ chan # <<>> /\ made \in Nat
            /\ taken \in Nat /\ charged \in Nat
        BY <1>4, <1>a DEF TypeOK, ClientReads
      <3>2. Len(chan) \in Nat /\ 1 \in 1 .. Len(chan) /\ chan[1] \in Items
        BY <3>1, TailFacts
      <3>3. /\ Len(got') = Len(got) + 1 /\ Len(got) \in Nat
            /\ \A i \in 1 .. Len(got) : got'[i] = got[i]
            /\ got'[Len(got) + 1] = chan[1]
        BY <2>4, <3>1, <3>2, AppendFacts
      <3>4. \A i \in 1 .. Len(got) : got[i].kind = "chunk"
        BY <3>1 DEF FlowInv, ClientSound
      <3>5. ~Marked /\ Received = Len(got)
        BY <3>3, <3>4 DEF Marked, Received
      <3>6. CASE chan[1].kind = "sse"
        <4>1. Marked' /\ Received' = Len(got)
          <5>1. Marked'
            BY <3>3, <3>6 DEF Marked
          <5> QED
            BY <3>3, <5>1 DEF Received
        <4>2. Body' = Body
          BY <3>3, <3>5, <4>1 DEF Body
        <4> QED
          BY <2>1, <2>2, <4>2 DEF Abstract!vars
      <3>7. CASE chan[1].kind = "chunk"
        <4>1. chan[1].n = Len(got) + 1 /\ Len(got) + 1 <= charged
          BY <3>2, <3>7 DEF FlowInv, ClientSound
        <4>2. Len(got) + 1 <= made
          <5>1. charged <= taken /\ taken <= made
            BY DEF FlowInv, CountSound
          <5> QED
            BY <3>1, <3>3, <4>1, <5>1
        <4>3. \A i \in 1 .. Len(got) + 1 : got'[i].kind = "chunk"
          <5> SUFFICES ASSUME NEW i \in 1 .. Len(got) + 1 PROVE got'[i].kind = "chunk"
            OBVIOUS
          <5>1. i \in 1 .. Len(got) \/ i = Len(got) + 1
            BY <3>3
          <5> QED
            BY <3>3, <3>4, <3>7, <5>1
        <4>4. ~Marked' /\ Received' = Len(got) + 1
          BY <3>3, <4>3 DEF Marked, Received
        <4>5. Body = [i \in 1 .. Len(got) |-> got[i].n] /\ Len(Body) = Len(got) /\ Body \in Seq(Nat)
          <5>1. \A i \in 1 .. Len(got) : got[i].n \in Nat
            BY <3>1, <3>4 DEF FlowInv, ClientSound
          <5> QED
            BY <3>3, <3>5, <5>1 DEF Body
        <4>6. Body' = Append(Body, Len(Body) + 1)
          <5> DEFINE L == Len(got)
                     A == Append(Body, L + 1)
          <5>1. Body' = [i \in 1 .. L + 1 |-> got'[i].n]
            BY <4>4 DEF Body
          <5>2. /\ A \in Seq(Nat) /\ Len(A) = L + 1 /\ A[L + 1] = L + 1
                /\ \A i \in 1 .. L : A[i] = Body[i]
            BY <3>3, <4>5, AppendFacts
          <5>3. \A i \in 1 .. L + 1 : A[i] = got'[i].n
            <6> SUFFICES ASSUME NEW i \in 1 .. L + 1 PROVE A[i] = got'[i].n
              OBVIOUS
            <6>1. CASE i \in 1 .. L
              <7>1. A[i] = Body[i]
                BY <5>2, <6>1
              <7>2. Body[i] = got[i].n
                BY <4>5, <6>1
              <7>3. got'[i] = got[i]
                BY <3>3, <6>1
              <7> QED
                BY <7>1, <7>2, <7>3
            <6>2. CASE i = L + 1
              <7>1. got'[L + 1].n = L + 1
                BY <3>3, <4>1
              <7> QED
                BY <5>2, <6>2, <7>1
            <6>3. i \in 1 .. L \/ i = L + 1
              BY <3>3
            <6> QED
              BY <6>1, <6>2, <6>3, Zenon
          <5>4. A = [i \in 1 .. L + 1 |-> got'[i].n]
            <6> HIDE DEF A
            <6>1. A = [i \in 1 .. Len(A) |-> A[i]]
              BY <5>2
            <6> QED
              BY <5>2, <5>3, <6>1
          <5> QED
            BY <4>5, <5>1, <5>4
        <4>7. Len(Body) < made
          BY <3>1, <3>3, <4>2, <4>5
        <4> QED
          BY <2>1, <2>2, <4>6, <4>7 DEF Abstract!Next, Abstract!Receive
      <3> QED
        BY <2>4, <3>2, <3>6, <3>7 DEF Items
    <2> QED
      <3>1. Head(chan) = chan[1]
        BY <1>4, <1>a, TailFacts DEF ClientReads, TypeOK
      <3> QED
        BY <1>4, <2>3, <2>4, <3>1 DEF ClientReads
  <1>5. ASSUME NEW a \in Agents, AgentStarts(a), ~UNCHANGED calls PROVE [Abstract!Next]_(Abstract!vars)
    <2>1. /\ agent[a] = "reading" /\ up[a] = "full" /\ calls' = calls \cup {a}
          /\ UNCHANGED <<made, got, pc, answer, up>>
      BY <1>5 DEF AgentStarts, AgentUnchanged, gwVars, cliVars
    <2>2. calls = {}
      BY <1>a, <2>1 DEF AgentSound, SentOnce, Working
    <2>3. Fate = "sent" /\ Fate' = Fate
      <3>1. Fate' = Fate
        BY <2>1 DEF Fate
      <3> QED
        BY <1>a, <2>1, <3>1, FateType
    <2>4. Body' = Body
      BY <2>1 DEF Body, Received, Marked
    <2>5. ~(calls # {}) /\ (calls' # {}) = TRUE
      BY <2>1, <2>2
    <2> QED
      BY <2>1, <2>3, <2>4, <2>5 DEF Abstract!Next, Abstract!Run
  <1>6. ASSUME NEW a \in Agents, UpstreamChunk(a) PROVE [Abstract!Next]_(Abstract!vars)
    <2>1. /\ agent[a] = "relaying" /\ made < MaxChunks /\ made' = made + 1
          /\ UNCHANGED <<calls, got, pc, answer, up>>
      BY <1>6 DEF UpstreamChunk, AgentUnchanged, gwVars, cliVars
    <2>2. calls # {}
      BY <1>a, <2>1 DEF AgentSound, Working
    <2>3. Fate' = Fate /\ Body' = Body
      BY <2>1 DEF Fate, Body, Received, Marked
    <2> QED
      BY <2>1, <2>2, <2>3 DEF Abstract!Next, Abstract!Produce
  <1>7. ASSUME NEW a \in Agents, AgentStep(a) \/ TunnelLost(a), ~UpstreamChunk(a), UNCHANGED calls \/ ~AgentStarts(a)
        PROVE  [Abstract!Next]_(Abstract!vars)
    <2>1. UNCHANGED <<calls, made, got, pc, answer, up>>
      BY <1>7 DEF AgentStep, AgentStarts, AgentGivesUp, Listener, AgentCancels, UpstreamAnswers, UpstreamEnds,
             TunnelLost, AgentUnchanged, gwVars, cliVars, agentVars
    <2> QED
      BY <1>b, <2>1
  <1> QED
    BY <1>1, <1>2, <1>3, <1>4, <1>5, <1>6, <1>7 DEF Next, AgentStep

(* The request path implements OneShot, for every set of agents, attempt limit, channel
   capacity and response: the initial states are initial states of OneShot, and every
   step is a step of it or leaves fate, run, chunks and body alone (routing.rs, head.rs,
   forward.rs, agent/stream.rs). *)
THEOREM PathImplementsOneShot == Spec => ImplementsOneShot
  <1>1. Init => Abstract!Init
    BY RefinesInit
  <1>2. FlowInv /\ [Next]_vars => [Abstract!Next]_(Abstract!vars)
    BY RefinesNext
  <1> QED
    BY <1>1, <1>2, FlowInvariance, PTL DEF Spec, ImplementsOneShot, Abstract!Spec
=============================================================================
