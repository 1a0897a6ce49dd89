--------------------------- MODULE TurnDispatcher ---------------------------
(***************************************************************************)
(* TurnDispatcher (turn_server/src/core/turn_dispatcher.cpp) with its      *)
(* long-term credentials and nonces (turn_server/src/auth/), in front of   *)
(* the AllocationManager.  One io thread runs onPacket to its end for one  *)
(* packet at a time, whichever transport it came in on.                    *)
(***************************************************************************)
EXTENDS AllocationManager

CONSTANTS
    Nonce,        \* bound: the nonces that generate() may draw
    NonceTTL,     \* ttl_ of NonceManager, in clock ticks
    MaxTime,      \* bound: the last tick of the clock
    NoUser        \* the username of a packet that was not authenticated

(* A username is "<expiry>:<userId>" (backend/api/routes.cpp). *)
ASSUME DispatcherAssumption ==
    /\ \A u \in Username : u.expiry \in Nat
    /\ NonceTTL \in Nat \ {0}
    /\ MaxTime \in Nat
    /\ NoUser \notin Username

VARIABLES
    store,        \* NonceManager::store_: nonce -> time left, 0 when expired
    now,          \* the system clock that credentials are checked against
    last          \* history: the last packet, and whose credentials it bore

turnVars == <<allocs, by_client, by_relay, used_ports, next_id, out,
              store, now, last>>

Method == {"Allocate", "Refresh", "CreatePermission", "ChannelBind", "other"}

\* What a packet is recorded as once it has been handled.
Packet(cl, username) == [from |-> cl, username |-> username]

----------------------------------------------------------------------------
(* NonceManager and LongTermCred.                                           *)

isValid(nonce) == nonce \in DOMAIN store /\ store[nonce] > 0

\* generate: a nonce that is not in the store, expired or not.  Nothing
\* calls cleanup or invalidate: the store only grows.
generate ==
    \E n \in Nonce \ DOMAIN store :
        store' = [x \in DOMAIN store \cup {n} |-> IF x = n THEN NonceTTL ELSE store[x]]

\* A request: complete (all four credential attributes are there), the
\* username and nonce they name, and whether MESSAGE-INTEGRITY verifies
\* under the username's password and the username parses.
Request == [complete : BOOLEAN, username : Username, nonce : Nonce, verifies : BOOLEAN]

\* Mutant of authenticate: whose allocation it is plays no part.
authenticateAnyone(m, method, cl) ==
    CASE ~m.complete -> "MissingCredentials"
      [] m.complete /\ ~isValid(m.nonce) -> "StaleNonce"
      [] m.complete /\ isValid(m.nonce) /\ (now > m.username.expiry \/ ~m.verifies)
            -> "BadIntegrity"
      [] OTHER -> "Ok"

\* authenticate for a client whose allocation, if any, handleStun looked up.
authenticate(m, method, cl) ==
    CASE ~m.complete -> "MissingCredentials"
      [] m.complete /\ ~isValid(m.nonce) -> "StaleNonce"
      [] m.complete /\ isValid(m.nonce) /\ (now > m.username.expiry \/ ~m.verifies)
            -> "BadIntegrity"
      [] /\ m.complete
         /\ isValid(m.nonce)
         /\ now <= m.username.expiry
         /\ m.verifies
         /\ method # "Allocate"
         /\ findByClient(cl) # 0
         /\ allocs[findByClient(cl)].username # m.username -> "WrongCredentials"
      [] OTHER -> "Ok"

ChallengeCode == [MissingCredentials |-> 401, StaleNonce |-> 438, BadIntegrity |-> 401]

----------------------------------------------------------------------------
(* handleStun.                                                              *)

\* The error responses of handleStun; all but 441 carry a fresh nonce.
Refuse(cl, m, method) ==
    LET auth == authenticate(m, method, cl)
    IN  /\ \/ /\ auth \in DOMAIN ChallengeCode
              /\ generate
              /\ Answer(Reply(ChallengeCode[auth]))
           \/ /\ auth = "WrongCredentials"
              /\ Answer(Reply(441))
              /\ UNCHANGED store
        /\ last' = Packet(cl, NoUser)
        /\ UNCHANGED now

\* Past authenticate: the request is handled under m.username.
Admit(cl, m, method) ==
    /\ authenticate(m, method, cl) = "Ok"
    /\ last' = Packet(cl, m.username)
    /\ UNCHANGED <<store, now>>

Allocate(cl, m, transport) ==
    /\ Admit(cl, m, "Allocate")
    /\ handleAllocate(cl, m.username, transport)

Refresh(cl, m, zero) ==
    /\ Admit(cl, m, "Refresh")
    /\ handleRefresh(cl, m.username, zero)

CreatePermission(cl, m, peers) ==
    /\ Admit(cl, m, "CreatePermission")
    /\ handleCreatePermission(cl, peers)

ChannelBind(cl, m, valid, n, peer) ==
    /\ Admit(cl, m, "ChannelBind")
    /\ handleChannelBind(cl, valid, n, peer)

OtherMethod(cl, m) ==
    /\ Admit(cl, m, "other")
    /\ Answer(Reply(400))

\* An indication is not authenticated; only a valid Send is acted on.
SendIndication(cl, valid, peer) ==
    /\ handleSend(cl, valid, peer)
    /\ last' = Packet(cl, NoUser)
    /\ UNCHANGED <<store, now>>

----------------------------------------------------------------------------
(* handleChannelData.                                                       *)

\* The channels of allocation b that lead back to the relay address of a;
\* their expiry is not looked at.
ReverseChannels(a, b) ==
    {n \in Channel : b.channels[n].bound /\ b.channels[n].peer = relayedAddr(a)}

\* Mutant of Forward: passes the sender's channel number on.
ForwardSameNumber(a, b, num) == Answer(ChannelData(b.clientAddr, num))

\* What reaches the client of allocation b when a sends to b's relay address.
Forward(a, b, num) ==
    \/ \E n \in ReverseChannels(a, b) : Answer(ChannelData(b.clientAddr, n))
    \/ /\ ReverseChannels(a, b) = {}
       /\ Answer(DataIndication(b.clientAddr, relayedAddr(a)))

handleChannelData(cl, num) ==
    /\ LET i == findByClient(cl)
       IN  \/ i = 0 /\ Answer(Nothing)
           \/ i # 0 /\ ~allocs[i].channels[num].bound /\ Answer(Nothing)
           \/ /\ i # 0
              /\ allocs[i].channels[num].bound
              /\ LET peer == allocs[i].channels[num].peer
                     j == findByRelay(peer)
                 IN  \/ ~hasPermission(allocs[i], peer.address) /\ Answer(Nothing)
                     \/ /\ hasPermission(allocs[i], peer.address)
                        /\ j # 0
                        /\ Forward(allocs[i], allocs[j], num)
                     \/ /\ hasPermission(allocs[i], peer.address)
                        /\ j = 0
                        /\ Answer(ToPeer(peer))
    /\ last' = Packet(cl, NoUser)
    /\ UNCHANGED <<store, now>>

----------------------------------------------------------------------------

Clock ==
    /\ now < MaxTime
    /\ now' = now + 1
    /\ store' = [n \in DOMAIN store |-> Less(store[n])]
    /\ Tick
    /\ UNCHANGED last

TurnInit ==
    /\ AllocInit
    /\ store = [n \in {} |-> 0]
    /\ now = 0
    /\ last = [from |-> NoUser]

\* A packet from endpoint cl, on whichever transport.
onPacket(cl) ==
    \/ \E m \in Request, method \in Method : Refuse(cl, m, method)
    \/ \E m \in Request :
          \/ \E t \in {"udp", "other", "missing"} : Allocate(cl, m, t)
          \/ \E zero \in BOOLEAN : Refresh(cl, m, zero)
          \/ \E peers \in PeerLists : CreatePermission(cl, m, peers)
          \/ \E valid \in BOOLEAN, n \in Channel, peer \in Peer :
                ChannelBind(cl, m, valid, n, peer)
          \/ OtherMethod(cl, m)
    \/ \E valid \in BOOLEAN, peer \in Peer : SendIndication(cl, valid, peer)
    \/ \E n \in Channel : handleChannelData(cl, n)

TurnNext == Clock \/ \E cl \in Client : onPacket(cl)

TurnSpec == TurnInit /\ [][TurnNext]_turnVars

----------------------------------------------------------------------------

\* A step takes allocation i away or widens its rights: it goes, a permission
\* in it is made or renewed, or a channel is bound.
Touched(i) ==
    \/ i \notin DOMAIN allocs'
    \/ \E a \in Address : allocs'[i].permissions[a] > allocs[i].permissions[a]
    \/ \E n \in Channel : ~allocs[i].channels[n].bound /\ allocs'[i].channels[n].bound

(* Only a request with the credentials an allocation was made with can
   delete it, open a permission in it or bind a channel in it.
   handleCreatePermission and handleChannelBind look at no username; they
   rely on the lookup before authenticate (turn_dispatcher.cpp:77-84,
   long_term_cred.cpp:184-187). *)
OwnerOnly ==
    [][\A i \in Live : Touched(i) => last'.username = allocs[i].username]_turnVars

(* Channel data between two clients arrives under the number that the
   receiver bound to the sender's relay address
   (turn_dispatcher.cpp:219-232). *)
ReverseChannelNamesSender ==
    out.kind = "channel" =>
        /\ by_client[out.to] # 0
        /\ by_client[last.from] # 0
        /\ LET b == allocs[by_client[out.to]].channels[out.number]
           IN  b.bound /\ b.peer = relayedAddr(allocs[by_client[last.from]])
=============================================================================
