-------------------------- MODULE MCDeploymentLocks --------------------------
(***************************************************************************)
(* Small instances of DeploymentLocks.  Slots are interchangeable, and so  *)
(* are the projects and the VPSs, when no liveness property is checked.    *)
(***************************************************************************)
EXTENDS DeploymentLocks, TLC

Symmetry == Permutations(Slot) \cup Permutations(Project) \cup Permutations(Vps)
==============================================================================
