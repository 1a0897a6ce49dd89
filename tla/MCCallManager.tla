--------------------------- MODULE MCCallManager ---------------------------
(* CallManager with a few users and call ids; as liveness is checked there
   is no symmetry. *)
EXTENDS CallManager
============================================================================
