------------------------- MODULE MCTurnDispatcher -------------------------
(* TurnDispatcher on a small instance: two relay ports, each the peer of the
   other, and a peer in a denied range. *)
EXTENDS TurnDispatcher, TLC

CONSTANTS relayIp, privateIp, p1, p2, alice, bob

MCAddress == {relayIp, privateIp}

MCRangeOf == (relayIp :> "public") @@ (privateIp :> "10/8")

At(a, p) == [address |-> a, port |-> p]

MCPeer == {At(relayIp, p1), At(relayIp, p2), At(privateIp, p1)}

Credential(expiry, userId) == [expiry |-> expiry, userId |-> userId]

\* bob's credential expires with the first tick of the clock.
TwoUsers == {Credential(1, alice), Credential(0, bob)}

Symmetric == Permutations(Client) \cup Permutations(Channel) \cup Permutations(Nonce)
============================================================================
