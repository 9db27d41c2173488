-------------------------- MODULE MCProposalDelivery --------------------------
(* Model-checking instances of ProposalDelivery.                           *)
EXTENDS ProposalDelivery, TLC

\* Workers of the same mode are interchangeable (safety runs only).
WorkerSymmetry == Permutations(DryRun) \cup Permutations(Workers \ DryRun)
=============================================================================
