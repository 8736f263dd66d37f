------------------------------ MODULE MCLimits ------------------------------
(***************************************************************************)
(* Entry and Limiters for TLC.  They share no state (Entry leaves the      *)
(* outcome of Limiters open), so each is checked by itself: part says      *)
(* which of them a behaviour is about.                                     *)
(***************************************************************************)
EXTENDS Entry, Limiters

VARIABLE part

limitsVars == <<vars, limiterVars, part>>

LimitsInit == Init /\ LimitersInit /\ part \in {"entry", "buckets", "logins"}

LimitsNext ==
    \/ part = "entry" /\ Next /\ UNCHANGED <<limiterVars, part>>
    \/ part = "buckets" /\ BucketStep /\ UNCHANGED <<loginVars, vars, part>>
    \/ part = "logins" /\ LoginStep /\ UNCHANGED <<bucketVars, vars, part>>

LimitsSpec == LimitsInit /\ [][LimitsNext]_limitsVars /\ Fairness
=============================================================================
