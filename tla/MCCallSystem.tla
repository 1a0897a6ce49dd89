---------------------------- MODULE MCCallSystem ----------------------------
(* CallSystem on a small instance; users and call ids are interchangeable. *)
EXTENDS CallSystem, TLC

Symmetric == Permutations(User) \cup Permutations(CallId)
=============================================================================
