--------------------------- MODULE MCOutboxRelay ---------------------------
(* Two rows and two relays, one of which is stopped during the run. *)
EXTENDS OutboxRelay
=============================================================================
