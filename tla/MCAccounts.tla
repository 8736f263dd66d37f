----------------------------- MODULE MCAccounts -----------------------------
(* Finite instances of Accounts for TLC. *)
EXTENDS Accounts, TLC

(* several bootstraps and changes of users; logins that meet a change; tenants *)
Budget(user, tenant, session, logins, boots) ==
    [k \in Kinds |-> CASE k = "user" -> user [] k = "tenant" -> tenant [] k = "session" -> session
                       [] k = "login" -> logins [] k = "boot" -> boots [] OTHER -> 1]
MCBudgets == {Budget(3, 0, 0, 0, 2), Budget(1, 0, 1, 2, 1), Budget(1, 2, 0, 1, 1)}
TwoAdmins == {Budget(3, 0, 0, 0, 1)}
Symmetry  == Permutations(Users) \cup Permutations(Tasks)
=============================================================================
