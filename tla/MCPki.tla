------------------------------- MODULE MCPki -------------------------------
(* Finite instance of Pki for TLC: the first two pairs ask for one server name. *)
EXTENDS Pki, TLC

CONSTANTS p1, p2, n1

MCServerName == p1 :> n1 @@ p2 :> n1
Symmetry     == Permutations(Admins)
=============================================================================
