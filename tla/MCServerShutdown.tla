-------------------------- MODULE MCServerShutdown --------------------------
(* Three connections: one served, one kept alive and one streaming when the *)
(* signal lands, in every combination.                                      *)
EXTENDS ServerShutdown
=============================================================================
