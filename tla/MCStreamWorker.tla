--------------------------- MODULE MCStreamWorker ---------------------------
(* Model values and symmetry for checking StreamWorker with TLC. *)
EXTENDS StreamWorker

CONSTANTS a, b

WorkerSymmetry == Permutations(Workers)

=============================================================================
