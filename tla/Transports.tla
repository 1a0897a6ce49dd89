---------------------------- MODULE Transports ----------------------------
(***************************************************************************)
(* The transports of the TURN server (turn_server/src/transport/) that     *)
(* keep sessions: TCP and TLS, which differ in the handshake alone and     *)
(* share their actions, and DTLS.  One thread in ioc.run() serves them     *)
(* all, so a handler is one step: it hands a packet to the dispatcher      *)
(* (on_receive_), which may send one packet on the same transport, an      *)
(* answer to the sender or data for another client, before it returns.     *)
(***************************************************************************)
EXTENDS StunCodec, FiniteSets

CONSTANTS
    Key,        \* client endpoints of streams, "address:port"
    Datagram,   \* client endpoints of datagrams
    Conn,       \* stream connections
    NoConn,     \* no entry in sessions_
    Packets,    \* the messages that clients send on streams
    MaxFrames,  \* bound: messages sent on streams in one behaviour
    Missing     \* bound: how many bytes may be missing when a client is gone

ASSUME TransportAssumption ==
    /\ NoConn \notin Conn /\ MaxFrames \in Nat /\ Missing \subseteq Nat
    /\ "sessions_mutex_" \notin Datagram

\* What parse_channel_data takes, 0x4000 .. 0x4FFF.
ChannelNumber == 16384 .. 20479

\* The messages of well-behaved clients: a TURN message of some method and
\* class whose attributes fit its length field and that parse reads back, and
\* data on a channel that fits a length field.
ASSUME PacketsAssumption ==
    \A m \in Packets :
        \/ /\ m.kind = "stun"
           /\ m.method \in DOMAIN MethodCode /\ m.class \in DOMAIN ClassCode
           /\ AttrBytes(m.attrs) \in Seq(0 .. 255) /\ Len(AttrBytes(m.attrs)) < LenMod
           /\ parse(build(m)) = m
        \/ /\ m = ChannelDataMessage(m.number, m.data)
           /\ m.number \in ChannelNumber
           /\ m.data \in Seq(0 .. 255) /\ Len(m.data) < LenMod

VARIABLES
    conn,       \* stream connections, with the TcpSession or TlsSession of each
    sessions,   \* sessions_ of TcpTransport and TlsTransport
    dtls,       \* sessions_ of DtlsTransport: "none", "handshake" or "up"
    io,         \* the io thread: "serving", "blocked" on a mutex, "terminated"
    sent,       \* history: the messages a client sent on a connection
    got         \* history: the messages handed to the dispatcher from it

transportVars == <<conn, sessions, dtls, io, sent, got>>

Stream == {"tcp", "tls"}

\* peer: the client's side.  phase: which read the session waits for.
\* writes: async_writes that have not completed; one failed: failed.
NewConn == [proto |-> "none", key |-> "none", peer |-> "none", phase |-> "none",
            wire |-> <<>>, buf |-> <<>>, writes |-> 0, failed |-> FALSE]

Reading == {"first_byte", "stun_header", "stun_body", "channel_header", "channel_body"}

Alive(c) == conn[c].phase \in Reading \cup {"handshake"}

TransportInit ==
    /\ conn = [c \in Conn |-> NewConn]
    /\ sessions = [s \in Stream \X Key |-> NoConn]
    /\ dtls = [k \in Datagram |-> "none"]
    /\ io = "serving"
    /\ sent = [c \in Conn |-> <<>>]
    /\ got = [c \in Conn |-> <<>>]

----------------------------------------------------------------------------
(* The clients of the stream transports.                                    *)

\* An endpoint carries one connection at a time, as its client sees it.
Connect(c, proto, k) ==
    /\ conn[c].peer = "none"
    /\ \A d \in Conn : conn[d].proto = proto /\ conn[d].key = k => conn[d].peer # "open"
    /\ conn' = [conn EXCEPT ![c] = [NewConn EXCEPT !.proto = proto, !.key = k,
                                       !.peer = "open", !.phase = "backlog"]]
    /\ UNCHANGED <<sessions, dtls, io, sent, got>>

SentSoFar == UNION {{c} \X DOMAIN sent[c] : c \in Conn}

ClientSends(c, m) ==
    /\ conn[c].peer = "open"
    /\ conn[c].proto = "tls" => conn[c].phase \in Reading
    /\ Cardinality(SentSoFar) < MaxFrames
    /\ conn' = [conn EXCEPT ![c].wire = @ \o Wire(m)]
    /\ sent' = [sent EXCEPT ![c] = Append(@, m)]
    /\ UNCHANGED <<sessions, dtls, io, got>>

\* The client closes or is gone; the tail of what it sent may be missing.
\* Once accepted, a reset connection is to its session like a closed one.
ClientEnds(c, how) ==
    /\ conn[c].peer = "open"
    /\ how = "reset" => conn[c].phase = "backlog"
    /\ \E n \in Missing :
          /\ n <= Len(conn[c].wire)
          /\ conn' = [conn EXCEPT ![c].peer = how, ![c].wire = SubSeq(@, 1, Len(@) - n)]
    /\ UNCHANGED <<sessions, dtls, io, sent, got>>

----------------------------------------------------------------------------
(* TcpTransport and TlsTransport.                                           *)

\* The key of a connection in sessions_, one map for each transport.
Place(c) == <<conn[c].proto, conn[c].key>>

\* Mutant of removeSession: the session stays registered.
removeSessionNot(c) == UNCHANGED sessions

\* removeSession erases whatever session the key stands for by now.
removeSession(c) == sessions' = [sessions EXCEPT ![Place(c)] = NoConn]

\* The constructor of a session asks for the remote endpoint, and throws
\* when the connection has been reset meanwhile; nothing catches it.
accept(c) ==
    /\ conn[c].phase = "backlog"
    /\ \/ /\ conn[c].peer # "reset"
          /\ sessions' = [sessions EXCEPT ![Place(c)] = c]
          /\ conn' = [conn EXCEPT ![c].phase = IF conn[c].proto = "tls" THEN "handshake"
                                               ELSE "first_byte"]
          /\ UNCHANGED io
       \/ /\ conn[c].peer = "reset"
          /\ io' = "terminated"
          /\ UNCHANGED <<sessions, conn>>
    /\ UNCHANGED <<dtls, sent, got>>

\* An error of any asynchronous operation but a write ends the session.
SessionFails(c) ==
    /\ removeSession(c)
    /\ conn' = [conn EXCEPT ![c].phase = "gone", ![c].wire = <<>>, ![c].buf = <<>>]
    /\ UNCHANGED <<dtls, io, sent, got>>

Handshake(c) ==
    /\ conn[c].phase = "handshake"
    /\ \/ SessionFails(c)
       \/ /\ conn' = [conn EXCEPT ![c].phase = "first_byte"]
          /\ UNCHANGED <<sessions, dtls, io, sent, got>>

\* Mutant of Padded: the padding stays in the stream.
PaddedNot(len) == len

\* padded, a uint16_t.
Padded(len) == (len + Pad(len)) % LenMod

\* How many bytes the read in progress waits for.
Need(c) ==
    CASE conn[c].phase = "first_byte" -> 1
      [] conn[c].phase = "stun_header" -> 19
      [] conn[c].phase = "stun_body" -> LenAt(conn[c].buf, 3)
      [] conn[c].phase = "channel_header" -> 3
      [] conn[c].phase = "channel_body" -> Padded(LenAt(conn[c].buf, 3))

Filled(c) == conn[c].buf \o SubSeq(conn[c].wire, 1, Need(c))

\* async_read completes when it has all the bytes it waits for.
Complete(c, phase) == conn[c].phase = phase /\ Len(conn[c].wire) >= Need(c)

\* The session once it has taken them and waits for the next read.
AfterRead(c, phase, buf) ==
    [conn[c] EXCEPT !.wire = SubSeq(@, Need(c) + 1, Len(@)), !.buf = buf, !.phase = phase]

ReadHeader(c, phase, next) ==
    /\ Complete(c, phase)
    /\ conn' = [conn EXCEPT ![c] = AfterRead(c, next, Filled(c))]
    /\ UNCHANGED got

read_first_byte(c) ==
    ReadHeader(c, "first_byte",
               IF is_channel_data(conn[c].wire) THEN "channel_header" ELSE "stun_header")

read_stun_header(c) == ReadHeader(c, "stun_header", "stun_body")

read_channel_header(c) == ReadHeader(c, "channel_header", "channel_body")

\* send(): a packet for an endpoint without a session is dropped.
Send(conns, proto, to) ==
    IF sessions[<<proto, to>>] = NoConn THEN conns
    ELSE [conns EXCEPT ![sessions[<<proto, to>>]].writes = @ + 1]

\* on_receive_ gets the packet; when it returns, the next read begins.
Deliver(c, packet) ==
    /\ got' = [got EXCEPT ![c] = Append(@, packet)]
    /\ LET read == [conn EXCEPT ![c] = AfterRead(c, "first_byte", <<>>)]
       IN  \/ conn' = read
          \/ \E to \in Key : conn' = Send(read, conn[c].proto, to)

read_stun_body(c) == Complete(c, "stun_body") /\ Deliver(c, Received(Filled(c)))

\* 4 + data_len bytes of the buffer are handed on: without the padding, and,
\* when padded has wrapped, more than were read, so that the packet's end is
\* whatever follows the buffer; Unparsed stands for such a packet.
read_channel_body(c) ==
    /\ Complete(c, "channel_body")
    /\ LET len == LenAt(conn[c].buf, 3)
       IN  Deliver(c, IF 4 + len > Len(Filled(c)) THEN Unparsed
                      ELSE Received(SubSeq(Filled(c), 1, 4 + len)))

\* What follows the buffer may also be out of bounds for the process: the
\* dispatcher's read past the end then ends the server.
OverRead(c) ==
    /\ Complete(c, "channel_body")
    /\ 4 + LenAt(conn[c].buf, 3) > Len(Filled(c))
    /\ io' = "terminated"
    /\ UNCHANGED <<conn, sessions, dtls, sent, got>>

ReadError(c) ==
    /\ conn[c].phase \in Reading
    /\ conn[c].peer # "open"
    /\ Len(conn[c].wire) < Need(c)
    /\ SessionFails(c)

\* A write that fails removes the session; its read loop goes on.
WriteDone(c) ==
    /\ conn[c].writes > 0
    /\ \/ /\ conn' = [conn EXCEPT ![c].writes = @ - 1]
          /\ UNCHANGED sessions
       \/ /\ conn[c].peer # "open"
          /\ conn' = [conn EXCEPT ![c].writes = @ - 1, ![c].failed = TRUE]
          /\ removeSession(c)
    /\ UNCHANGED <<dtls, io, sent, got>>

Session(c) ==
    \/ accept(c) \/ Handshake(c) \/ ReadError(c) \/ WriteDone(c) \/ OverRead(c)
    \/ /\ \/ read_first_byte(c) \/ read_stun_header(c) \/ read_stun_body(c)
          \/ read_channel_header(c) \/ read_channel_body(c)
       /\ UNCHANGED <<sessions, dtls, io, sent>>

----------------------------------------------------------------------------
(* DtlsTransport: a datagram from endpoint k.                               *)

\* The mutexes held while feed() calls on_receive_: that of the session.
FeedLocks(k) == {k}

\* What DtlsTransport::send and DtlsSession::send lock for endpoint k.
SendLocks(k) == {"sessions_mutex_"} \cup (IF dtls[k] = "none" THEN {} ELSE {k})

\* SSL_do_handshake advances or fails, or completes; a session is never
\* removed.
DtlsHandshake(k) ==
    /\ dtls[k] # "up"
    /\ \E st \in {"handshake", "up"} : dtls' = [dtls EXCEPT ![k] = st]
    /\ UNCHANGED <<conn, sessions, io, sent, got>>

\* SSL_read has a record, and the dispatcher sends to endpoint k, as every
\* answer is sent, or to another.  A std::mutex is not recursive: a thread
\* that locks what it holds waits for ever.
DtlsRelay(k, to) ==
    /\ dtls[k] = "up"
    /\ io' = IF FeedLocks(k) \cap SendLocks(to) = {} THEN "serving" ELSE "blocked"
    /\ UNCHANGED <<conn, sessions, dtls, sent, got>>

----------------------------------------------------------------------------

TransportNext ==
    /\ io = "serving"
    /\ \/ \E c \in Conn :
             \/ \E proto \in Stream, k \in Key : Connect(c, proto, k)
             \/ \E m \in Packets : ClientSends(c, m)
             \/ \E how \in {"closed", "reset"} : ClientEnds(c, how)
             \/ Session(c)
       \/ \E k, to \in Datagram : DtlsHandshake(k) \/ DtlsRelay(k, to)

TransportSpec == TransportInit /\ [][TransportNext]_transportVars

----------------------------------------------------------------------------

\* A payload that padded to a multiple of 4 does not fit a uint16_t.
Overlong(m) == m.kind = "channel" /\ Len(m.data) > LenMod - 4

\* How many messages come before the first overlong one.
Intact(msgs) == CHOOSE n \in 0 .. Len(msgs) :
    /\ \A i \in 1 .. n : ~Overlong(msgs[i])
    /\ n = Len(msgs) \/ Overlong(msgs[n + 1])

(* Framing (tcp_transport.cpp:35-103, tls_transport.cpp:49-118) undoes
   building and padding: whatever the lengths, and wherever the stream ends,
   the dispatcher gets the messages the client sent, in order, none lost
   and none made up, up to the first that is overlong; and when the session
   waits for the next message of an open connection, it has got them all. *)
FramesIntact ==
    \A c \in Conn : LET n == Intact(sent[c]) IN
        /\ \A i \in 1 .. Len(got[c]) : i <= n => got[c][i] = sent[c][i]
        /\ n = Len(sent[c]) => Len(got[c]) <= n
        /\ conn[c].phase = "first_byte" /\ conn[c].wire = <<>> /\ conn[c].peer = "open"
              => Len(got[c]) >= n

(* sessions_ of the stream transports (tcp_transport.cpp:135-165,
   tls_transport.cpp:152-182): a session that has ended is not in it, and
   one that lives can be sent to, unless a write to it failed or its
   endpoint has carried another connection, whose end erases the key. *)
SessionsReachable ==
    /\ \A s \in DOMAIN sessions : sessions[s] # NoConn =>
          Alive(sessions[s]) /\ s = Place(sessions[s])
    /\ \A c \in Conn :
          /\ Alive(c)
          /\ ~conn[c].failed
          /\ \A d \in Conn \ {c} : Place(d) # Place(c)
          => sessions[Place(c)] = c
============================================================================
