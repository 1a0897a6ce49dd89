----------------------------- MODULE MCWsClient -----------------------------
(* WsClient with four thread identities, which are re-used; as liveness is
   checked there is no symmetry. *)
EXTENDS WsClient
=============================================================================
