------------------------------ MODULE OneShot ------------------------------
(***************************************************************************)
(* What the gateway promises about one request: it is refused, abandoned   *)
(* or sent; only a sent request is run, and only once; the client receives *)
(* the chunks of that run from the first on, in order and without gaps.    *)
(***************************************************************************)
EXTENDS Naturals, Sequences

CONSTANTS MaxChunks

VARIABLES
    fate,       \* "pending", "sent", "refused" or "dropped"
    ran,        \* an upstream was called with the request
    produced,   \* chunks that upstream has produced
    body        \* the chunks the client has received

vars == <<fate, ran, produced, body>>

Init == fate = "pending" /\ ran = FALSE /\ produced = 0 /\ body = <<>>

Decide ==
    /\ fate = "pending"
    /\ fate' \in {"sent", "refused", "dropped"}
    /\ UNCHANGED <<ran, produced, body>>

Run ==
    /\ fate = "sent" /\ ~ran
    /\ ran' = TRUE
    /\ UNCHANGED <<fate, produced, body>>

Produce ==
    /\ ran /\ produced < MaxChunks
    /\ produced' = produced + 1
    /\ UNCHANGED <<fate, ran, body>>

Receive ==
    /\ Len(body) < produced
    /\ body' = Append(body, Len(body) + 1)
    /\ UNCHANGED <<fate, ran, produced>>

Next == Decide \/ Run \/ Produce \/ Receive

Spec == Init /\ [][Next]_vars
=============================================================================
