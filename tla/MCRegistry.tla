----------------------------- MODULE MCRegistry -----------------------------
(* Finite instances of Registry for TLC. *)
EXTENDS Registry, TLC

CONSTANTS c1, c2, c3, r1, r2, r3, t1, t2, a1, a2, ip1, ip2, m1

(* every connection comes from the same address, so they contend for the same keys *)
SameIp == [c \in Conns |-> ip1]

(* every token verifies for every tenant / only c1 proves t2 *)
AllVouched == Conns \X Tenants
SomeVouched == {<<c1, t2>>, <<c2, t1>>}

OneSlot   == {[models |-> {m1}, max_concurrency |-> 1]}
TwoSlots  == {[models |-> {AnyModel}, max_concurrency |-> 2]}
Unlimited == {[models |-> {m1}, max_concurrency |-> 0]}

Symmetry == Permutations(Reqs) \cup Permutations(Conns)
=============================================================================
