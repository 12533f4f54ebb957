---------------------------- MODULE MCWorkerPool ----------------------------
(* Small instances of WorkerPool for TLC. *)
EXTENDS WorkerPool, TLC

\* Tasks with a payload that can be cloned are interchangeable, and so are the
\* calls of drain().
PoolSymmetry == Permutations(Tasks \ Uncloneable) \cup Permutations(Drainers)

=============================================================================
