--------------------------- MODULE MCTransports ---------------------------
(* Transports on a small instance, with lengths of 0 .. 35. *)
EXTENDS Transports, XorCodec, TLC

\* 33 bytes are too many to be padded within that range.
Channels == {ChannelDataMessage(16385, [i \in 1 .. n |-> 64]) : n \in {1, 33}}

\* Attributes with padding, without, and empty.
DataIndication ==
    TurnMessage("Data", "Indication",
                <<Attribute(XorPeerAddress, XorAddress(<<192, 168, 1, 33>>, 49152)),
                  Attribute(19, <<65>>), Attribute(26, <<>>)>>)

BindError == TurnMessage("ChannelBind", "ErrorResponse", <<>>)

MCPackets == Channels \cup {DataIndication, BindError}

Symmetric == Permutations(Conn) \cup Permutations(Datagram)
===========================================================================
