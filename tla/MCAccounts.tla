----------------------------- MODULE MCAccounts -----------------------------
(* Accounts with one name, two passwords and two workers; as liveness is
   checked there is no symmetry. *)
EXTENDS Accounts
============================================================================
