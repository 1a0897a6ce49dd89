---------------------------- MODULE MCSignaling ----------------------------
(* Signaling on a small instance.  Users, connections and call ids are
   interchangeable; symmetry is used only where no liveness is checked. *)
EXTENDS Signaling, TLC

Symmetric == Permutations(User) \cup Permutations(Conn) \cup Permutations(CallId)
============================================================================
