----------------------------- MODULE MCBulkhead -----------------------------
(* Two slots, a queue of two and five callers: callers run, queue, are      *)
(* refused, time out and hang up at the same time.                          *)
EXTENDS Bulkhead
=============================================================================
