------------------------------- MODULE JobModel -------------------------------
(***************************************************************************)
(* What the control plane and the clients are told of a job's life         *)
(* (jobs/model.ts): its states, and the transitions between them.  The     *)
(* guest's engine (GuestJobs), written in another language, implements it. *)
(***************************************************************************)

CONSTANT Jobs

VARIABLE jobState

JobStates == {"queued", "running", "succeeded", "failed", "cancelled", "timed_out"}

\* The table of isValidJobTransition.
Transitions(from) ==
    CASE from = "queued"  -> {"running", "failed", "cancelled"}
      [] from = "running" -> {"succeeded", "failed", "cancelled", "timed_out"}
      [] OTHER -> {}

ModelInit == jobState = [j \in Jobs |-> "queued"]

Move(j, to) ==
    /\ to \in Transitions(jobState[j])
    /\ jobState' = [jobState EXCEPT ![j] = to]

ModelNext == \E j \in Jobs, to \in JobStates : Move(j, to)

ModelSpec == ModelInit /\ [][ModelNext]_jobState

===============================================================================
