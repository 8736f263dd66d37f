----------------------------- MODULE UsageStore -----------------------------
(***************************************************************************)
(* Usage accounting (storage/usage.rs, usage_flush.rs): totals per API key *)
(* in memory, written to the database as absolute values by a periodic     *)
(* task and once more when the gateway shuts down, across crashes and      *)
(* restarts.  A snapshot is abstracted to the number of requests in it,    *)
(* which every accumulate increases: two snapshots of a key are equal iff  *)
(* those are.  A total of 0 stands for a record that does not exist.       *)
(***************************************************************************)
EXTENDS Integers, FiniteSets

CONSTANTS
    Keys,
    MaxUse,     \* bound: requests billed per key
    None

ASSUME UsageAssumption ==
    /\ IsFiniteSet(Keys)
    /\ MaxUse \in Nat
    /\ None \notin {"periodic", "final"}

VARIABLES
    current, flushed, ever_flushed,     \* UsageRecord, per key
    has_db,
    key_usage,  \* the table in the database
    gate,       \* who holds flush_gate
    pc, batch,  \* per flusher: where flush_once is, and what it is about to write
    alive,      \* the process runs
    billed      \* every request accumulated so far, over all runs of the process

mem       == <<current, flushed, ever_flushed>>
usageVars == <<mem, has_db, key_usage, gate, pc, batch, alive, billed>>

(* the periodic task, and the forced flush of Gateway::shutdown; the first may still run
   when the second starts, since spawn_blocking is not cancelled *)
Flushers == {"periodic", "final"}
Zero     == [k \in Keys |-> 0]
NoBatch  == [k \in {} |-> 0]

Pending(k)  == current[k] > 0 /\ (~ever_flushed[k] \/ current[k] # flushed[k])
has_pending == has_db /\ \E k \in Keys : Pending(k)

UsageInit ==
    /\ current = Zero /\ flushed = Zero /\ ever_flushed = [k \in Keys |-> FALSE]
    /\ has_db \in BOOLEAN
    /\ key_usage = Zero
    /\ gate = None
    /\ pc = [f \in Flushers |-> "idle"] /\ batch = [f \in Flushers |-> NoBatch]
    /\ alive = TRUE
    /\ billed = Zero

Goto(f, s) == pc' = [pc EXCEPT ![f] = s]
(* the shutdown flushes once, the periodic task goes back to its ticker *)
Rest(f)    == IF f = "final" THEN "done" ELSE "idle"
Return(f)  == Goto(f, Rest(f)) /\ gate' = None /\ batch' = [batch EXCEPT ![f] = NoBatch]

-----------------------------------------------------------------------------
accumulate(k) ==
    /\ alive
    /\ billed[k] < MaxUse
    /\ current' = [current EXCEPT ![k] = @ + 1]
    /\ billed' = [billed EXCEPT ![k] = @ + 1]
    /\ UNCHANGED <<flushed, ever_flushed, has_db, key_usage, gate, pc, batch, alive>>

(* usage_flush::spawn skips a quiet period; the shutdown does not ask *)
StartFlush(f) ==
    /\ alive /\ pc[f] = "idle"
    /\ f = "periodic" => has_pending
    /\ Goto(f, "gate")
    /\ UNCHANGED <<mem, has_db, key_usage, gate, batch, alive, billed>>

(* flush_once takes flush_gate; without a database it returns *)
TakeGate(f) ==
    /\ pc[f] = "gate"
    /\ gate = None
    /\ \/ has_db /\ gate' = f /\ Goto(f, "snapshot")
       \/ ~has_db /\ Goto(f, Rest(f)) /\ UNCHANGED gate
    /\ UNCHANGED <<mem, has_db, key_usage, batch, alive, billed>>

(* the totals that changed, or with `force' all of them; an empty batch returns *)
Snapshot(f) ==
    /\ pc[f] = "snapshot"
    /\ LET ks == {k \in Keys : current[k] > 0 /\ (f = "final" \/ Pending(k))} IN
       \/ ks = {} /\ Return(f)
       \/ /\ ks # {}
          /\ batch' = [batch EXCEPT ![f] = [k \in ks |-> current[k]]]
          /\ Goto(f, "write")
          /\ UNCHANGED gate
    /\ UNCHANGED <<mem, has_db, key_usage, alive, billed>>

(* mutant of Commit: the row is increased by what is written *)
CommitAdds(f) ==
    /\ pc[f] = "write"
    /\ key_usage' = [k \in Keys |-> IF k \in DOMAIN batch[f] THEN key_usage[k] + batch[f][k]
                                                             ELSE key_usage[k]]
    /\ Goto(f, "mark")
    /\ UNCHANGED <<mem, has_db, gate, batch, alive, billed>>

(* the transaction commits: every row of the batch is replaced *)
Commit(f) ==
    /\ pc[f] = "write"
    /\ key_usage' = [k \in Keys |-> IF k \in DOMAIN batch[f] THEN batch[f][k] ELSE key_usage[k]]
    /\ Goto(f, "mark")
    /\ UNCHANGED <<mem, has_db, gate, batch, alive, billed>>

(* mutant of WriteFails: the batch is marked although it was rolled back *)
FailureIsMarked(f) ==
    /\ pc[f] = "write"
    /\ Goto(f, "mark")
    /\ UNCHANGED <<mem, has_db, key_usage, gate, batch, alive, billed>>

(* begin, a row or the commit fails: the batch is rolled back *)
WriteFails(f) ==
    /\ pc[f] = "write"
    /\ Return(f)
    /\ UNCHANGED <<mem, has_db, key_usage, alive, billed>>

(* mutant of Mark: the total of now is marked, not the one written *)
MarkCurrent(f) ==
    /\ pc[f] = "mark"
    /\ flushed' = [k \in Keys |-> IF k \in DOMAIN batch[f] THEN current[k] ELSE flushed[k]]
    /\ ever_flushed' = [k \in Keys |-> k \in DOMAIN batch[f] \/ ever_flushed[k]]
    /\ Return(f)
    /\ UNCHANGED <<current, has_db, key_usage, alive, billed>>

Mark(f) ==
    /\ pc[f] = "mark"
    /\ flushed' = [k \in Keys |-> IF k \in DOMAIN batch[f] THEN batch[f][k] ELSE flushed[k]]
    /\ ever_flushed' = [k \in Keys |-> k \in DOMAIN batch[f] \/ ever_flushed[k]]
    /\ Return(f)
    /\ UNCHANGED <<current, has_db, key_usage, alive, billed>>

(* the process ends, at any point: killed, or after a shutdown that did not wait longer
   for its flush *)
Crash ==
    /\ alive
    /\ alive' = FALSE
    /\ current' = Zero /\ flushed' = Zero /\ ever_flushed' = [k \in Keys |-> FALSE]
    /\ has_db' = FALSE
    /\ gate' = None
    /\ pc' = [f \in Flushers |-> "idle"] /\ batch' = [f \in Flushers |-> NoBatch]
    /\ UNCHANGED <<key_usage, billed>>

(* mutant of Restart: a ledger that could not be read is empty and still written *)
RestartEmpty ==
    /\ ~alive
    /\ alive' = TRUE
    /\ has_db' = TRUE
    /\ \E loaded \in BOOLEAN : current' = IF loaded THEN key_usage ELSE Zero
    /\ flushed' = current' /\ ever_flushed' = [k \in Keys |-> current'[k] > 0]
    /\ UNCHANGED <<key_usage, gate, pc, batch, billed>>

(* UsageStore::new: the totals are loaded, or writing is disabled for this run *)
Restart ==
    /\ ~alive
    /\ alive' = TRUE
    /\ \E loaded \in BOOLEAN :
          /\ has_db' = loaded
          /\ current' = IF loaded THEN key_usage ELSE Zero
    /\ flushed' = current' /\ ever_flushed' = [k \in Keys |-> current'[k] > 0]
    /\ UNCHANGED <<key_usage, gate, pc, batch, billed>>

FlushStep(f) == TakeGate(f) \/ Snapshot(f) \/ Commit(f) \/ WriteFails(f) \/ Mark(f)

UsageNext ==
    \/ \E k \in Keys : accumulate(k)
    \/ \E f \in Flushers : StartFlush(f) \/ FlushStep(f)
    \/ Crash \/ Restart

UsageSpec == UsageInit /\ [][UsageNext]_usageVars

(* The ticker fires and blocking tasks run; a database that is asked again and again
   commits in the end. *)
UsageFairness ==
    /\ WF_usageVars(StartFlush("periodic"))
    /\ \A f \in Flushers :
          /\ SF_usageVars(TakeGate(f)) /\ WF_usageVars(Snapshot(f))
          /\ WF_usageVars(Commit(f) \/ WriteFails(f)) /\ SF_usageVars(Commit(f)) /\ WF_usageVars(Mark(f))

UsageFairSpec == UsageSpec /\ UsageFairness

-----------------------------------------------------------------------------
UsageTypeOK ==
    /\ current \in [Keys -> Nat] /\ flushed \in [Keys -> Nat]
    /\ ever_flushed \in [Keys -> BOOLEAN]
    /\ has_db \in BOOLEAN /\ alive \in BOOLEAN
    /\ key_usage \in [Keys -> Nat] /\ billed \in [Keys -> Nat]
    /\ gate \in Flushers \cup {None}
    /\ pc \in [Flushers -> {"idle", "gate", "snapshot", "write", "mark", "done"}]
    /\ DOMAIN batch = Flushers
    /\ \A f \in Flushers : /\ DOMAIN batch[f] \subseteq Keys
                           /\ \A k \in DOMAIN batch[f] : batch[f][k] \in Nat
                           /\ pc[f] \in {"snapshot", "write", "mark"} => gate = f

(* A total in the database never goes back: neither a flush that took its snapshot
   earlier and writes later, nor a run that could not load the totals, overwrites a
   larger value (flush_gate, has_db). *)
TotalsNeverRegress == [][\A k \in Keys : key_usage'[k] >= key_usage[k]]_usageVars

(* Nothing is counted twice, also when a flush was committed and the process died before
   marking it: totals never exceed what was billed (absolute values, usage_flush.rs). *)
NothingCountedTwice == \A k \in Keys : key_usage[k] <= billed[k] /\ current[k] <= billed[k]

(* When no flush is under way and nothing is pending, the database holds every total:
   a request billed between the snapshot and the mark stays pending (flush_once). *)
QuietMeansPersisted ==
    alive /\ has_db /\ gate = None /\ ~has_pending => \A k \in Keys : key_usage[k] = current[k]

(* A billed request reaches the database unless the process dies first, however often
   the database refuses (flush_once marks only what was committed). *)
EventuallyPersisted ==
    \A k \in Keys : \A n \in 1 .. MaxUse :
        (has_db /\ current[k] >= n) ~> (key_usage[k] >= n \/ ~alive)
=============================================================================
