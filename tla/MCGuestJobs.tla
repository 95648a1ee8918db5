------------------------------ MODULE MCGuestJobs ------------------------------
(* GuestJobs on small instances.  The ids are interchangeable, and no fairness *)
(* condition and no temporal property speaks of an id: a permutation of ids    *)
(* changes neither, so that the reduction is sound for them too.               *)
EXTENDS GuestJobs, TLC

Symmetry == Permutations(Ids)

===============================================================================
