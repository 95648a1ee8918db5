------------------------------ MODULE MCLifecycle ------------------------------
(* Lifecycle on small instances: ids, wallets and volumes are interchangeable. *)
EXTENDS Lifecycle, TLC

Symmetry == Permutations(Ids) \cup Permutations(Wallets) \cup Permutations(Volumes)

================================================================================
