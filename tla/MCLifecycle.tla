---------------------------- MODULE MCLifecycle ----------------------------
(***************************************************************************)
(* Startup, UsageStore and Shutdown for TLC: how a gateway starts, what it *)
(* writes of its usage while it runs, dies and starts again, and how it    *)
(* stops.  They share no state (Shutdown has a flush of its own, with the  *)
(* requests it must not miss), so each is checked by itself: part says     *)
(* which of them a behaviour is about.  A configuration differs from the   *)
(* defaults in at most one field.                                          *)
(***************************************************************************)
EXTENDS Shutdown, Startup, UsageStore

CONSTANTS r1, r2, r3, u1, u2

MCConfigs ==
    {Defaults,
     [Defaults EXCEPT !.parses = FALSE], [Defaults EXCEPT !.pki = FALSE],
     [Defaults EXCEPT !.keys_file = FALSE],
     [Defaults EXCEPT !.admin_token = "empty"], [Defaults EXCEPT !.admin_token = "set"],
     [Defaults EXCEPT !.session_ttl = 0],
     [Defaults EXCEPT !.streams = 0], [Defaults EXCEPT !.streams = 9]}
    \cup {[Defaults EXCEPT !.durations[k] = v] : k \in Durations, v \in {0, 2, 9}}

VARIABLE part

lifeVars == <<vars, startVars, usageVars, part>>

LifeInit ==
    /\ Init /\ StartInit /\ UsageInit
    /\ part \in {"start", "usage", "stop"}
    /\ (part # "start" => opts = Defaults /\ table = NoTable)
    /\ (part # "usage" => has_db)

LifeNext ==
    \/ part = "start" /\ StartNext /\ UNCHANGED <<vars, usageVars, part>>
    \/ part = "usage" /\ UsageNext /\ UNCHANGED <<vars, startVars, part>>
    \/ part = "stop" /\ Next /\ UNCHANGED <<startVars, usageVars, part>>

LifeSpec == LifeInit /\ [][LifeNext]_lifeVars /\ WF_vars(ShutdownStep) /\ UsageFairness
=============================================================================
