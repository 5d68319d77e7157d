--------------------------- MODULE MCMasterStore ---------------------------
(* Bounds and symmetry for MasterStore.                                     *)
EXTENDS MasterStore, TLC

\* A statement fails or an upload does, not both.
OneFailure == used.faults + used.aborts <= 1

\* Requests are alike: which of two serves an operation does not matter.
ActorSymmetry == Permutations(Actors)
=============================================================================
