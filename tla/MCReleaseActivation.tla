------------------------ MODULE MCReleaseActivation ------------------------
(***************************************************************************)
(* Small instances of ReleaseActivation.  Releases are numbered in creation*)
(* order, so only deployments and rollback jobs are interchangeable.       *)
(***************************************************************************)
EXTENDS ReleaseActivation, TLC

Symmetry == Permutations(Deployment) \cup Permutations(Rollback)
==============================================================================
