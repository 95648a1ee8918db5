------------------------- MODULE MCFirecrackerRuntime -------------------------
(* The names of workspaces and of uids are interchangeable. *)
EXTENDS FirecrackerRuntime, TLC

Symmetry == Permutations(Ids) \cup Permutations(Uids)

================================================================================
