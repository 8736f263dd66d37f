---------------------------- MODULE FrameReader ----------------------------
(***************************************************************************)
(* Framing on a stream (proto/src/io/mod.rs): write_frame puts a header    *)
(* with the length in front of a frame, the bytes arrive in pieces of any  *)
(* size, and next() puts frames together again.  next() runs inside        *)
(* select! and is dropped at its only await whenever another branch is     *)
(* ready; what it has read so far stays in the reader.                     *)
(* A byte is told by the frame it belongs to and its place in it.          *)
(***************************************************************************)
EXTENDS Naturals, Sequences, SequencesExt

CONSTANTS
    HeaderLen,          \* bytes of the length prefix
    MaxFrame,           \* MAX_FRAME
    MaxChunk,           \* bytes one read returns at most
    Streams,            \* what peers send: sequences of frames, each by its kind and length
    NoWant

ASSUME ReaderAssumption ==
    /\ HeaderLen \in Nat \ {0} /\ MaxFrame \in Nat /\ MaxChunk \in Nat \ {0}
    /\ Streams \subseteq Seq([kind : {"frame", "noise"}, len : Nat]) /\ NoWant \notin Nat

VARIABLES
    sending,            \* the stream of this behaviour
    wire,               \* bytes that were not read yet, the last ones perhaps never sent
    cut,                \* bytes of wire that will not come: the stream ends before them
    buf, want,          \* the reader
    reader,             \* "idle" between calls, "reading", or how the last call ended
    got                 \* the frames next() has returned

readerVars == <<sending, wire, cut, buf, want, reader, got>>

(* write_frame *)
FrameBytes(frames, i) == [p \in 1 .. HeaderLen + frames[i].len |-> [frame |-> i, place |-> p]]

ReaderInit ==
    /\ sending \in Streams
    /\ wire = FlattenSeq([i \in DOMAIN sending |-> FrameBytes(sending, i)])
    /\ cut \in 0 .. Len(wire)
    /\ buf = <<>> /\ want = NoWant /\ reader = "idle" /\ got = <<>>

-----------------------------------------------------------------------------
(* the length in the first bytes of b, which is only one when they are the header of one frame *)
HeaderOf(b) ==
    IF \A p \in 1 .. HeaderLen : b[p] = [frame |-> b[1].frame, place |-> p]
    THEN sending[b[1].frame].len ELSE MaxFrame + 1

(* decoding succeeds for the bytes of one frame, in their order, unless they are no frame *)
Decodes(b) ==
    /\ \A p \in DOMAIN b : b[p] = [frame |-> b[1].frame, place |-> p]
    /\ sending[b[1].frame].kind = "frame" /\ Len(b) = HeaderLen + sending[b[1].frame].len

(* take_frame: what becomes of buf, of want and of the call *)
TakeFrame(b, w) ==
    LET more(n)  == [buf |-> b, want |-> n, reader |-> "reading", out |-> <<>>]
        error(n) == [buf |-> b, want |-> n, reader |-> "error", out |-> <<>>]
        total    == IF w # NoWant THEN w ELSE HeaderLen + HeaderOf(b)
    IN  IF w = NoWant /\ Len(b) < HeaderLen THEN more(NoWant)
        ELSE IF w = NoWant /\ HeaderOf(b) > MaxFrame THEN error(NoWant)
        ELSE IF Len(b) < total THEN more(total)
        ELSE IF ~Decodes(SubSeq(b, 1, total)) THEN error(total)
        ELSE [buf |-> SubSeq(b, total + 1, Len(b)), want |-> NoWant, reader |-> "idle",
              out |-> <<b[1].frame>>]

Take(b) ==
    LET r == TakeFrame(b, want)
    IN  buf' = r.buf /\ want' = r.want /\ reader' = r.reader /\ got' = got \o r.out

(* next(): first what is in the buffer already *)
CallNext == reader = "idle" /\ Take(buf) /\ UNCHANGED <<sending, wire, cut>>

(* the await: n bytes arrive *)
ReadBytes(n) ==
    /\ reader = "reading" /\ n <= Len(wire) - cut
    /\ wire' = SubSeq(wire, n + 1, Len(wire))
    /\ Take(buf \o SubSeq(wire, 1, n))
    /\ UNCHANGED <<sending, cut>>

(* end of the stream: between two frames, or "early eof" *)
ReadEnd ==
    /\ reader = "reading" /\ Len(wire) = cut
    /\ reader' = IF buf = <<>> /\ want = NoWant THEN "end" ELSE "early eof"
    /\ UNCHANGED <<sending, wire, cut, buf, want, got>>

(* mutant of Cancel: the bytes were in a variable of the call *)
CancelLoses ==
    /\ reader = "reading"
    /\ reader' = "idle" /\ buf' = <<>> /\ want' = NoWant
    /\ UNCHANGED <<sending, wire, cut, got>>

(* select! drops the call *)
Cancel ==
    /\ reader = "reading"
    /\ reader' = "idle"
    /\ UNCHANGED <<sending, wire, cut, buf, want, got>>

ReaderNext == CallNext \/ (\E n \in 1 .. MaxChunk : ReadBytes(n)) \/ ReadEnd \/ Cancel

ReaderSpec == ReaderInit /\ [][ReaderNext]_readerVars

-----------------------------------------------------------------------------
(* However the bytes are cut into reads and however often a call is dropped half-way, the
   frames come out as they were sent: each of them once, in order and unmixed.  An end is
   reported as clean exactly when every frame that was begun has been returned, and an
   error only for a frame that is too long or is none. *)
FramesAreWhole ==
    LET bad(i)  == sending[i].kind # "frame" \/ sending[i].len > MaxFrame
        begun   == {i \in DOMAIN sending : \E p \in 1 .. Len(wire) : wire[p].frame = i}
    IN  /\ got = [i \in 1 .. Len(got) |-> i] /\ Len(got) <= Len(sending)
        /\ reader = "end" => buf = <<>> /\ begun = (Len(got) + 1) .. Len(sending)
                             /\ (wire = <<>> \/ wire[1].place = 1)
        /\ reader = "early eof" => wire # <<>> /\ (wire[1].place # 1 \/ wire[1].frame > Len(got) + 1)
        /\ reader = "error" => Len(got) < Len(sending) /\ bad(Len(got) + 1)
=============================================================================
