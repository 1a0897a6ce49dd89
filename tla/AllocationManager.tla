------------------------- MODULE AllocationManager -------------------------
(***************************************************************************)
(* allocation::AllocationManager (turn_server/src/allocation/): the relay  *)
(* allocations of the TURN server, their permissions and channel bindings. *)
(* Every handler holds mutex_ from its first line to its last, so each is  *)
(* one action.  What a handler returns, or hands to client_send_ and       *)
(* peer_send_, is the value of out after the step.                         *)
(***************************************************************************)
EXTENDS Integers, FiniteSets, Sequences, Functions

CONSTANTS
    Client,         \* client endpoints, by their endpointKey
    Username,       \* TURN usernames
    Port,           \* relay ports: relay_port_min_ .. relay_port_max_
    Address,        \* IP addresses
    RelayAddress,   \* relay_address_
    RangeOf,        \* RangeOf[a]: the address range a lies in
    Peer,           \* the peer endpoints that requests may name
    Channel,        \* the channel numbers 0x4000 .. 0x4FFF in use
    MaxPeers,       \* bound: XOR-PEER-ADDRESS attributes in one request
    MaxAllocs,      \* max_alloc_per_user_
    MaxId,          \* bound: allocations made in one behaviour
    PermissionTTL,  \* kPermissionTTL, in clock ticks
    ChannelTTL      \* kChannelTTL, in clock ticks

Endpoint == [address : Address, port : Port]

ASSUME AllocAssumption ==
    /\ RelayAddress \in Address
    /\ Peer \subseteq Endpoint
    /\ MaxAllocs \in Nat \ {0}
    /\ MaxId \in Nat
    /\ MaxPeers \in Nat
    /\ PermissionTTL \in Nat \ {0}
    /\ ChannelTTL \in Nat \ {0}

VARIABLES
    allocs,       \* the Allocation objects, by id
    by_client,    \* by_client_: endpoint key -> allocation id, 0 for none
    by_relay,     \* by_relay_: relay port -> allocation id, 0 for none
    used_ports,   \* used_ports_
    next_id,      \* next_id_
    out           \* what the last handler returned or sent

allocVars == <<allocs, by_client, by_relay, used_ports, next_id, out>>

(***************************************************************************)
(* An Allocation.  Its own expiresAt is written but never read: isExpired  *)
(* has no caller, and an allocation lives until a Refresh with lifetime 0. *)
(* permissions[a] is the time left for address a; hasPermission does not   *)
(* tell an absent permission from an expired one, both are 0 here.  A      *)
(* channel binding that has expired stays in the table with ttl 0.         *)
(***************************************************************************)
Unbound == [bound |-> FALSE]

Bound(peer, ttl) == [bound |-> TRUE, peer |-> peer, ttl |-> ttl]

Binding == {Unbound} \cup [bound : {TRUE}, peer : Peer, ttl : 0 .. ChannelTTL]

Allocation == [clientAddr : Client, relayPort : Port, username : Username,
               permissions : [Address -> 0 .. PermissionTTL],
               channels : [Channel -> Binding]]

relayedAddr(a) == [address |-> RelayAddress, port |-> a.relayPort]

Live == DOMAIN allocs

findByClient(cl) == by_client[cl]

findByRelay(ep) == IF ep.address = RelayAddress THEN by_relay[ep.port] ELSE 0

hasPermission(a, address) == a.permissions[address] > 0

\* permission_table.hpp: 192.168/16 and 127/8 are commented out.
kDeniedRanges == {"10/8", "172.16/12"}

isDeniedAddress(address) == RangeOf[address] \in kDeniedRanges

----------------------------------------------------------------------------
(* Outputs.                                                                 *)

Nothing == [kind |-> "nothing"]
Reply(code) == [kind |-> "reply", code |-> code]
Success == Reply(0)
ToPeer(peer) == [kind |-> "peer", to |-> peer]
DataIndication(cl, from) == [kind |-> "indication", to |-> cl, from |-> from]
ChannelData(cl, num) == [kind |-> "channel", to |-> cl, number |-> num]

Answer(o) ==
    /\ out' = o
    /\ UNCHANGED <<allocs, by_client, by_relay, used_ports, next_id>>

----------------------------------------------------------------------------
(* Allocate and Refresh.                                                    *)

UserAllocs(username) ==
    {cl \in Client : by_client[cl] # 0 /\ allocs[by_client[cl]].username = username}

\* Mutant of allocateError: one allocation too many.
allocateErrorLate(cl, username, transport) ==
    CASE by_client[cl] # 0 -> 437
      [] by_client[cl] = 0 /\ transport = "missing" -> 400
      [] by_client[cl] = 0 /\ transport = "other" -> 442
      [] /\ by_client[cl] = 0
         /\ transport = "udp"
         /\ Cardinality(UserAllocs(username)) > MaxAllocs -> 486
      [] OTHER -> 0

\* The error handleAllocate returns before it looks for a port, or 0.
\* transport is what REQUESTED-TRANSPORT asks for.
allocateError(cl, username, transport) ==
    CASE by_client[cl] # 0 -> 437
      [] by_client[cl] = 0 /\ transport = "missing" -> 400
      [] by_client[cl] = 0 /\ transport = "other" -> 442
      [] /\ by_client[cl] = 0
         /\ transport = "udp"
         /\ Cardinality(UserAllocs(username)) >= MaxAllocs -> 486
      [] OTHER -> 0

NewAllocation(cl, username, port) ==
    [clientAddr |-> cl, relayPort |-> port, username |-> username,
     permissions |-> [a \in Address |-> 0],
     channels |-> [n \in Channel |-> Unbound]]

\* Mutant of Insert: next_id_ is not advanced.
InsertSameId(cl, username, port) ==
    /\ allocs' = [i \in Live \cup {next_id} |->
                    IF i = next_id THEN NewAllocation(cl, username, port)
                    ELSE allocs[i]]
    /\ by_client' = [by_client EXCEPT ![cl] = next_id]
    /\ by_relay' = [by_relay EXCEPT ![port] = next_id]
    /\ used_ports' = used_ports \cup {port}
    /\ out' = Success
    /\ UNCHANGED next_id

Insert(cl, username, port) ==
    /\ allocs' = [i \in Live \cup {next_id} |->
                    IF i = next_id THEN NewAllocation(cl, username, port)
                    ELSE allocs[i]]
    /\ by_client' = [by_client EXCEPT ![cl] = next_id]
    /\ by_relay' = [by_relay EXCEPT ![port] = next_id]
    /\ used_ports' = used_ports \cup {port}
    /\ next_id' = next_id + 1
    /\ out' = Success

\* The ports that allocatePort may return.  It draws 1000 times at random:
\* it finds a free port, or gives up, which it can do as soon as one port
\* is taken.
allocatePort == Port \ used_ports

handleAllocate(cl, username, transport) ==
    LET error == allocateError(cl, username, transport)
    IN  \/ error # 0 /\ Answer(Reply(error))
        \/ error = 0 /\ used_ports # {} /\ Answer(Reply(508))
        \/ /\ error = 0
           /\ next_id <= MaxId
           /\ \E port \in allocatePort : Insert(cl, username, port)

\* Mutant of Delete: the entry in by_relay_ is forgotten.
DeleteKeepsRelay(i) ==
    /\ allocs' = Restrict(allocs, Live \ {i})
    /\ used_ports' = used_ports \ {allocs[i].relayPort}
    /\ by_client' = [by_client EXCEPT ![allocs[i].clientAddr] = 0]
    /\ out' = Success
    /\ UNCHANGED <<by_relay, next_id>>

\* The deletion in handleRefresh: both indexes and the port go together.
Delete(i) ==
    /\ allocs' = Restrict(allocs, Live \ {i})
    /\ by_relay' = [by_relay EXCEPT ![allocs[i].relayPort] = 0]
    /\ used_ports' = used_ports \ {allocs[i].relayPort}
    /\ by_client' = [by_client EXCEPT ![allocs[i].clientAddr] = 0]
    /\ out' = Success
    /\ UNCHANGED next_id

\* zero: LIFETIME is present and 0; any other lifetime only moves expiresAt.
handleRefresh(cl, username, zero) ==
    LET i == by_client[cl]
    IN  \/ i = 0 /\ Answer(Reply(437))
        \/ i # 0 /\ allocs[i].username # username /\ Answer(Reply(441))
        \/ i # 0 /\ allocs[i].username = username /\ zero /\ Delete(i)
        \/ i # 0 /\ allocs[i].username = username /\ ~zero /\ Answer(Success)

----------------------------------------------------------------------------
(* CreatePermission and ChannelBind.                                        *)

Permit(a, addresses) ==
    [a EXCEPT !.permissions =
        [x \in Address |-> IF x \in addresses THEN PermissionTTL
                           ELSE a.permissions[x]]]

Update(i, a, o) ==
    /\ allocs' = [allocs EXCEPT ![i] = a]
    /\ out' = o
    /\ UNCHANGED <<by_client, by_relay, used_ports, next_id>>

\* Mutant of Stored: the loop stores an address before it is tested.
StoredUntested(peers) ==
    {peers[j].address : j \in {k \in 1 .. Len(peers) :
        \A h \in 1 .. (k - 1) : ~isDeniedAddress(peers[h].address)}}

\* The addresses the loop stores before it meets a denied one, if any.
Stored(peers) ==
    {peers[j].address : j \in {k \in 1 .. Len(peers) :
        \A h \in 1 .. k : ~isDeniedAddress(peers[h].address)}}

SomeDenied(peers) ==
    \E j \in 1 .. Len(peers) : isDeniedAddress(peers[j].address)

\* peers: the well-formed XOR-PEER-ADDRESS attributes, in order.  A denied
\* one ends the loop with 403; what was stored before it stays.
handleCreatePermission(cl, peers) ==
    LET i == by_client[cl]
    IN  \/ i = 0 /\ Answer(Reply(437))
        \/ i # 0 /\ peers = <<>> /\ Answer(Reply(400))
        \/ /\ i # 0
           /\ peers # <<>>
           /\ Update(i, Permit(allocs[i], Stored(peers)),
                     IF SomeDenied(peers) THEN Reply(403) ELSE Success)

\* Mutant of ChannelClash: a peer may get a second number.
ChannelClashByNumber(a, num, peer) ==
    a.channels[num].bound /\ a.channels[num].peer # peer

\* The number is bound to another peer, or the peer to another number; the
\* expiry of a binding plays no part.
ChannelClash(a, num, peer) ==
    \/ a.channels[num].bound /\ a.channels[num].peer # peer
    \/ \E n \in Channel \ {num} : a.channels[n].bound /\ a.channels[n].peer = peer

\* A request without a valid number or peer (num or peer missing) gets 400.
handleChannelBind(cl, valid, num, peer) ==
    LET i == by_client[cl]
    IN  \/ i = 0 /\ Answer(Reply(437))
        \/ i # 0 /\ ~valid /\ Answer(Reply(400))
        \/ i # 0 /\ valid /\ isDeniedAddress(peer.address) /\ Answer(Reply(403))
        \/ /\ i # 0
           /\ valid
           /\ ~isDeniedAddress(peer.address)
           /\ ChannelClash(allocs[i], num, peer)
           /\ Answer(Reply(400))
        \/ /\ i # 0
           /\ valid
           /\ ~isDeniedAddress(peer.address)
           /\ ~ChannelClash(allocs[i], num, peer)
           /\ Update(i, [Permit(allocs[i], {peer.address})
                           EXCEPT !.channels[num] = Bound(peer, ChannelTTL)],
                     Success)

----------------------------------------------------------------------------
(* Data.                                                                    *)

\* A Send indication: dropped without allocation or permission, or when its
\* peer or its data is missing (not valid); handed to the owner of the relay
\* address it names, if there is one, else sent out.
handleSend(cl, valid, peer) ==
    LET i == by_client[cl]
        j == findByRelay(peer)
    IN  Answer(IF i = 0 \/ ~valid THEN Nothing
               ELSE IF ~hasPermission(allocs[i], peer.address) THEN Nothing
               ELSE IF j # 0
                    THEN DataIndication(allocs[j].clientAddr, relayedAddr(allocs[i]))
               ELSE ToPeer(peer))

\* findChannelByPeer: the unexpired channel bound to a peer.
ChannelsTo(a, peer) ==
    {n \in Channel : a.channels[n].bound /\ a.channels[n].peer = peer
                     /\ a.channels[n].ttl > 0}

\* Data from a peer to a relay address.
handlePeerData(peer, relay) ==
    LET i == findByRelay(relay)
    IN  \/ i = 0 /\ Answer(Nothing)
        \/ i # 0 /\ ~hasPermission(allocs[i], peer.address) /\ Answer(Nothing)
        \/ /\ i # 0
           /\ hasPermission(allocs[i], peer.address)
           /\ \/ \E n \in ChannelsTo(allocs[i], peer) :
                    Answer(ChannelData(allocs[i].clientAddr, n))
              \/ /\ ChannelsTo(allocs[i], peer) = {}
                 /\ Answer(DataIndication(allocs[i].clientAddr, peer))

Less(t) == IF t > 0 THEN t - 1 ELSE 0

Aged(a) ==
    [a EXCEPT !.permissions = [x \in Address |-> Less(a.permissions[x])],
              !.channels = [n \in Channel |->
                  IF a.channels[n].bound
                  THEN Bound(a.channels[n].peer, Less(a.channels[n].ttl))
                  ELSE Unbound]]

\* The clock moves on for every permission and channel binding.
Tick ==
    /\ allocs' = [i \in Live |-> Aged(allocs[i])]
    /\ out' = Nothing
    /\ UNCHANGED <<by_client, by_relay, used_ports, next_id>>

----------------------------------------------------------------------------

AllocInit ==
    /\ allocs = [i \in {} |-> {}]
    /\ by_client = [cl \in Client |-> 0]
    /\ by_relay = [p \in Port |-> 0]
    /\ used_ports = {}
    /\ next_id = 1
    /\ out = Nothing

PeerLists == UNION {[1 .. n -> Peer] : n \in 0 .. MaxPeers}

AllocNext ==
    \/ \E cl \in Client :
          \/ \E u \in Username, t \in {"udp", "other", "missing"} :
                handleAllocate(cl, u, t)
          \/ \E u \in Username, zero \in BOOLEAN : handleRefresh(cl, u, zero)
          \/ \E peers \in PeerLists : handleCreatePermission(cl, peers)
          \/ \E valid \in BOOLEAN, n \in Channel, peer \in Peer :
                handleChannelBind(cl, valid, n, peer)
          \/ \E valid \in BOOLEAN, peer \in Peer : handleSend(cl, valid, peer)
    \/ \E peer, relay \in Peer : handlePeerData(peer, relay)
    \/ Tick

AllocSpec == AllocInit /\ [][AllocNext]_allocVars

----------------------------------------------------------------------------

(* Type invariant of the allocation tables (allocation.hpp:27-42,
   allocation_manager.hpp:79-86). *)
AllocTypeOK ==
    /\ next_id \in Nat \ {0}
    /\ Live \subseteq 1 .. (next_id - 1)
    /\ allocs \in [Live -> Allocation]
    /\ by_client \in [Client -> 0 .. (next_id - 1)]
    /\ by_relay \in [Port -> 0 .. (next_id - 1)]
    /\ used_ports \subseteq Port

(* by_client_, by_relay_ and used_ports_ are three records of the same
   allocations: whatever sequence of Allocate and Refresh built them, each
   live allocation is found under its client and under its relay port, no
   entry dangles, and exactly the ports of live allocations are marked used
   (allocation_manager.cpp:117-132, 171-174). *)
IndexesAgree ==
    /\ \A i \in Live : /\ by_client[allocs[i].clientAddr] = i
                       /\ by_relay[allocs[i].relayPort] = i
    /\ \A cl \in Client : by_client[cl] # 0 =>
          by_client[cl] \in Live /\ allocs[by_client[cl]].clientAddr = cl
    /\ \A p \in Port : by_relay[p] # 0 =>
          by_relay[p] \in Live /\ allocs[by_relay[p]].relayPort = p
    /\ used_ports = {p \in Port : by_relay[p] # 0}

(* No username ever holds more allocations than max_alloc_per_user_
   (allocation_manager.cpp:105-110). *)
QuotaHolds ==
    \A u \in Username : Cardinality(UserAllocs(u)) <= MaxAllocs

(* Within an allocation a peer has at most one channel number, so that the
   reverse lookup of a relay (findChannelByPeer and the loop of
   handleChannelData) has one answer (allocation_manager.cpp:288-307). *)
ChannelsInjective ==
    \A i \in Live : \A m, n \in Channel :
        /\ allocs[i].channels[m].bound
        /\ allocs[i].channels[n].bound
        /\ allocs[i].channels[m].peer = allocs[i].channels[n].peer
        => m = n

(* No request, not even one that lists a denied peer among others or binds
   a channel to it, opens an allocation to a denied range
   (allocation_manager.cpp:223-230, 285-286). *)
DeniedNeverPermitted ==
    \A i \in Live :
        /\ \A a \in Address : isDeniedAddress(a) => ~hasPermission(allocs[i], a)
        /\ \A n \in Channel : allocs[i].channels[n].bound =>
              ~isDeniedAddress(allocs[i].channels[n].peer.address)
============================================================================
