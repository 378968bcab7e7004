---------------------------- MODULE MCAccounts ----------------------------
(* Instances of Accounts for TLC. *)
EXTENDS AccountsRefinement, TLC

\* Requests are served by identical handlers and compared only for equality.
RequestSymmetry == Permutations(Requests)

Registering == {"register", "mail", "endjob", "softdelete"}
SigningIn   == {"register", "login", "logout", "whoami", "expire", "softdelete"}
Redeeming   == {"register", "verify", "forgot", "reset", "mail", "expire"}
Waiting     == {"register", "verify", "forgot", "reset", "mail"}
Resetting   == {"register", "forgot", "reset", "login", "mail"}
Most        == SigningIn \cup Redeeming
=============================================================================
