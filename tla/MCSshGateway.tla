----------------------------- MODULE MCSshGateway -----------------------------
(* SshGateway on small instances: leases, tunnels and ids are interchangeable. *)
EXTENDS SshGateway, TLC

Symmetry == Permutations(Ids) \cup Permutations(Leases) \cup Permutations(Tunnels)

===============================================================================
