----------------------- MODULE MCPostgresIdempotency -----------------------
(* A small instance of PostgresIdempotency for TLC. *)
EXTENDS PostgresIdempotency, TLC

CONSTANTS r1, r2, r3

\* Two requests with one body and one that reuses their key for another.
MCRequests == {r1, r2, r3}
MCPrintOf == r1 :> "a" @@ r2 :> "a" @@ r3 :> "b"
RetrySymmetry == Permutations({r1, r2})

=============================================================================
