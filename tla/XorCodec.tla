------------------------------ MODULE XorCodec ------------------------------
(***************************************************************************)
(* The address attributes of the TURN server (turn_server/src/message/):   *)
(* port and address masked by the magic cookie.                            *)
(***************************************************************************)
EXTENDS StunCodec, Bitwise

\* appendXorAddress: port and address, each masked by the cookie from its
\* first byte on.
Masked(bytes) == [i \in 1 .. Len(bytes) |-> bytes[i] ^^ kMagicCookie[i]]

XorAddress(address, port) == <<0, 1>> \o Masked(U16(port)) \o Masked(address)
=============================================================================
