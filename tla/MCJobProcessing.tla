--------------------------- MODULE MCJobProcessing ---------------------------
(***************************************************************************)
(* Instances of JobProcessing for TLC.  Where a run checks liveness,       *)
(* MaxClaims is the number of attempts a job has over all its requeues, so *)
(* that the bound never keeps a claim from being taken; where symmetry is  *)
(* used no liveness is checked.                                            *)
(***************************************************************************)
EXTENDS JobProcessing, TLC

\* Worker processes are alike.
Symmetry == Permutations(Slots)

=============================================================================
