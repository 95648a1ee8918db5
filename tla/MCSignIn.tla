------------------------------- MODULE MCSignIn -------------------------------
(* SignIn on a small instance: everything but DevWallet is interchangeable. *)
EXTENDS SignIn, TLC

Symmetry == Permutations(Nonces) \cup Permutations(Requests)
            \cup Permutations(Tokens) \cup Permutations(Ips)

===============================================================================
