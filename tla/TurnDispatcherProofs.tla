------------------------ MODULE TurnDispatcherProofs ------------------------
(***************************************************************************)
(* The tables of the allocation manager agree in every reachable state,    *)
(* for every set of clients, ports, peers and channels: TableInv, the type *)
(* invariant with IndexesAgree, is inductive, and ChannelsInjective and    *)
(* DeniedNeverPermitted are inductive relative to it.  Behind the          *)
(* dispatcher the manager keeps them all; with them, what the lookup       *)
(* before authenticate is there for: OwnerOnly, an action property, and    *)
(* ReverseChannelNamesSender.                                              *)
(***************************************************************************)
EXTENDS TurnDispatcher, FiniteSetTheorems, TLAPS

----------------------------------------------------------------------------
(* The allocation manager.                                                  *)

TableInv == AllocTypeOK /\ IndexesAgree

\* A step that leaves the tables alone.
Unmoved == UNCHANGED <<allocs, by_client, by_relay, used_ports, next_id>>

\* A step that rewrites allocations in place and leaves the indexes alone.
InPlace ==
    /\ UNCHANGED <<by_client, by_relay, used_ports, next_id>>
    /\ Live' = Live
    /\ allocs' \in [Live -> Allocation]
    /\ \A i \in Live : /\ allocs'[i].clientAddr = allocs[i].clientAddr
                       /\ allocs'[i].relayPort = allocs[i].relayPort
                       /\ allocs'[i].username = allocs[i].username

LEMMA InPlaceKeepsTables ==
    ASSUME TableInv, InPlace
    PROVE  TableInv'
<1>1. AllocTypeOK'
  BY DEF TableInv, AllocTypeOK, InPlace
<1>2. IndexesAgree'
  BY DEF TableInv, AllocTypeOK, IndexesAgree, InPlace
<1> QED BY <1>1, <1>2 DEF TableInv

LEMMA UnmovedIsInPlace ==
    ASSUME TableInv, Unmoved
    PROVE  InPlace
BY DEF Unmoved, InPlace, TableInv, AllocTypeOK, Live

(* Every permission table that Permit returns is well formed. *)
LEMMA PermitType ==
    ASSUME NEW a \in Allocation, NEW S
    PROVE  /\ Permit(a, S) \in Allocation
           /\ Permit(a, S).clientAddr = a.clientAddr
           /\ Permit(a, S).relayPort = a.relayPort
           /\ Permit(a, S).username = a.username
           /\ Permit(a, S).channels = a.channels
           /\ \A x \in Address : Permit(a, S).permissions[x] =
                 IF x \in S THEN PermissionTTL ELSE a.permissions[x]
<1> DEFINE perms == [x \in Address |-> IF x \in S THEN PermissionTTL
                                       ELSE a.permissions[x]]
<1>1. perms \in [Address -> 0 .. PermissionTTL]
  BY AllocAssumption DEF Allocation
<1>2. Permit(a, S) = [a EXCEPT !.permissions = perms]
  BY DEF Permit
<1>3. /\ Permit(a, S) \in Allocation
      /\ Permit(a, S).clientAddr = a.clientAddr
      /\ Permit(a, S).relayPort = a.relayPort
      /\ Permit(a, S).username = a.username
      /\ Permit(a, S).channels = a.channels
      /\ Permit(a, S).permissions = perms
  <2> HIDE DEF perms
  <2> QED BY <1>1, <1>2 DEF Allocation
<1> QED BY <1>3

LEMMA AgedType ==
    ASSUME NEW a \in Allocation
    PROVE  /\ Aged(a) \in Allocation
           /\ Aged(a).clientAddr = a.clientAddr
           /\ Aged(a).relayPort = a.relayPort
           /\ Aged(a).username = a.username
           /\ \A x \in Address : Aged(a).permissions[x] = Less(a.permissions[x])
           /\ \A n \in Channel :
                /\ Aged(a).channels[n].bound = a.channels[n].bound
                /\ a.channels[n].bound =>
                      Aged(a).channels[n].peer = a.channels[n].peer
<1> DEFINE perms == [x \in Address |-> Less(a.permissions[x])]
           chans == [n \in Channel |->
                       IF a.channels[n].bound
                       THEN Bound(a.channels[n].peer, Less(a.channels[n].ttl))
                       ELSE Unbound]
<1>1. perms \in [Address -> 0 .. PermissionTTL]
  BY AllocAssumption DEF Allocation, Less
<1>2. ASSUME NEW n \in Channel
      PROVE  /\ chans[n] \in Binding
             /\ chans[n].bound = a.channels[n].bound
             /\ a.channels[n].bound => chans[n].peer = a.channels[n].peer
  <2>1. a.channels[n] \in Binding
    BY DEF Allocation
  <2>2. CASE a.channels[n] = Unbound
    <3>1. a.channels[n].bound = FALSE
      BY <2>2 DEF Unbound
    <3>2. chans[n] = Unbound
      BY <3>1
    <3> QED BY <2>2, <3>1, <3>2 DEF Binding
  <2>3. CASE a.channels[n] \in [bound : {TRUE}, peer : Peer, ttl : 0 .. ChannelTTL]
    <3> DEFINE peer == a.channels[n].peer
               left == Less(a.channels[n].ttl)
    <3>1. /\ a.channels[n].bound = TRUE
          /\ peer \in Peer
          /\ a.channels[n].ttl \in 0 .. ChannelTTL
      <4> DEFINE b == a.channels[n]
      <4>1. b \in [bound : {TRUE}, peer : Peer, ttl : 0 .. ChannelTTL]
        BY <2>3
      <4> HIDE DEF b
      <4>2. b.bound \in {TRUE} /\ b.peer \in Peer /\ b.ttl \in 0 .. ChannelTTL
        BY <4>1
      <4> QED BY <4>2 DEF b
    <3>2. left \in 0 .. ChannelTTL
      BY <3>1, AllocAssumption DEF Less
    <3>3. chans[n] = Bound(peer, left)
      BY <3>1
    <3> HIDE DEF peer, left, chans
    <3>4. /\ Bound(peer, left) \in Binding
          /\ Bound(peer, left).bound = TRUE
          /\ Bound(peer, left).peer = peer
      BY <3>1, <3>2 DEF Bound, Binding
    <3> QED BY <3>1, <3>3, <3>4 DEF peer
  <2> QED BY <2>1, <2>2, <2>3 DEF Binding
<1>3. chans \in [Channel -> Binding]
  BY <1>2
<1>4. Aged(a) = [a EXCEPT !.permissions = perms, !.channels = chans]
  BY DEF Aged
<1>5. /\ Aged(a) \in Allocation
      /\ Aged(a).clientAddr = a.clientAddr
      /\ Aged(a).relayPort = a.relayPort
      /\ Aged(a).username = a.username
      /\ Aged(a).permissions = perms
      /\ Aged(a).channels = chans
  <2> HIDE DEF perms, chans
  <2> QED BY <1>1, <1>3, <1>4 DEF Allocation
<1> QED BY <1>2, <1>5

(* handleAllocate's insertion: a new id under a free client and port. *)
LEMMA InsertKeepsTables ==
    ASSUME TableInv, NEW cl \in Client, NEW u \in Username,
           NEW p \in Port \ used_ports, by_client[cl] = 0, Insert(cl, u, p)
    PROVE  TableInv'
<1> DEFINE a == NewAllocation(cl, u, p)
<1>1. /\ a \in Allocation
      /\ a.clientAddr = cl /\ a.relayPort = p
  BY AllocAssumption DEF NewAllocation, Allocation, Binding
<1>2. next_id \in Nat \ {0} /\ next_id' = next_id + 1 /\ next_id \notin Live
  BY DEF TableInv, AllocTypeOK, Insert
<1>3. /\ Live' = Live \cup {next_id}
      /\ allocs'[next_id] = a
      /\ \A i \in Live : allocs'[i] = allocs[i]
  BY <1>2 DEF Insert, Live
<1>4. by_relay[p] = 0
  BY DEF TableInv, IndexesAgree, AllocTypeOK
<1> HIDE DEF a
<1>5. AllocTypeOK'
  <2>1. allocs' \in [Live' -> Allocation]
    BY <1>1, <1>2, <1>3 DEF Insert, a, TableInv, AllocTypeOK
  <2>2. /\ by_client' \in [Client -> 0 .. (next_id' - 1)]
        /\ by_relay' \in [Port -> 0 .. (next_id' - 1)]
    BY <1>2 DEF Insert, TableInv, AllocTypeOK
  <2>3. used_ports' \subseteq Port /\ Live' \subseteq 1 .. (next_id' - 1)
    BY <1>2, <1>3 DEF Insert, TableInv, AllocTypeOK
  <2> QED BY <1>2, <2>1, <2>2, <2>3 DEF AllocTypeOK
<1>6. IndexesAgree'
  <2>1. ASSUME NEW i \in Live'
        PROVE  by_client'[allocs'[i].clientAddr] = i /\ by_relay'[allocs'[i].relayPort] = i
    <3>1. CASE i = next_id
      BY <1>1, <1>3, <3>1 DEF Insert, TableInv, AllocTypeOK
    <3>2. CASE i \in Live
      <4>1. /\ allocs[i].clientAddr \in Client /\ allocs[i].relayPort \in Port
            /\ by_client[allocs[i].clientAddr] = i
            /\ by_relay[allocs[i].relayPort] = i
            /\ i # 0
        BY <3>2 DEF TableInv, AllocTypeOK, IndexesAgree, Allocation
      <4> QED BY <1>3, <1>4, <3>2, <4>1 DEF Insert, TableInv, AllocTypeOK
    <3> QED BY <1>3, <3>1, <3>2
  <2>2. ASSUME NEW c \in Client, by_client'[c] # 0
        PROVE  by_client'[c] \in Live' /\ allocs'[by_client'[c]].clientAddr = c
    BY <1>1, <1>3, <2>2 DEF Insert, TableInv, AllocTypeOK, IndexesAgree
  <2>3. ASSUME NEW q \in Port, by_relay'[q] # 0
        PROVE  by_relay'[q] \in Live' /\ allocs'[by_relay'[q]].relayPort = q
    BY <1>1, <1>3, <2>3 DEF Insert, TableInv, AllocTypeOK, IndexesAgree
  <2>4. used_ports' = {q \in Port : by_relay'[q] # 0}
    BY <1>2 DEF Insert, TableInv, AllocTypeOK, IndexesAgree
  <2> QED BY <2>1, <2>2, <2>3, <2>4 DEF IndexesAgree
<1> QED BY <1>5, <1>6 DEF TableInv

(* handleRefresh's deletion: both entries and the port of one allocation. *)
LEMMA DeleteKeepsTables ==
    ASSUME TableInv, NEW i \in Live, Delete(i)
    PROVE  TableInv'
<1> DEFINE c == allocs[i].clientAddr
           p == allocs[i].relayPort
<1>1. /\ c \in Client /\ p \in Port
      /\ by_client[c] = i /\ by_relay[p] = i /\ i # 0
  BY DEF TableInv, AllocTypeOK, IndexesAgree, Allocation
<1>2. /\ Live' = Live \ {i}
      /\ \A j \in Live' : allocs'[j] = allocs[j]
      /\ allocs' \in [Live' -> Allocation]
  BY DEF Delete, Live, Restrict, TableInv, AllocTypeOK
<1>3. /\ by_client' = [by_client EXCEPT ![c] = 0]
      /\ by_relay' = [by_relay EXCEPT ![p] = 0]
      /\ used_ports' = used_ports \ {p}
      /\ next_id' = next_id
  BY DEF Delete
<1> HIDE DEF c, p
<1>4. AllocTypeOK'
  BY <1>1, <1>2, <1>3 DEF TableInv, AllocTypeOK
<1>5. IndexesAgree'
  <2>1. ASSUME NEW j \in Live'
        PROVE  by_client'[allocs'[j].clientAddr] = j /\ by_relay'[allocs'[j].relayPort] = j
    <3>1. /\ j # i /\ j \in Live
          /\ allocs[j].clientAddr \in Client /\ allocs[j].relayPort \in Port
          /\ by_client[allocs[j].clientAddr] = j
          /\ by_relay[allocs[j].relayPort] = j
      BY <1>2 DEF TableInv, AllocTypeOK, IndexesAgree, Allocation
    <3> QED BY <1>1, <1>2, <1>3, <3>1 DEF TableInv, AllocTypeOK
  <2>2. ASSUME NEW d \in Client, by_client'[d] # 0
        PROVE  by_client'[d] \in Live' /\ allocs'[by_client'[d]].clientAddr = d
    BY <1>1, <1>2, <1>3, <2>2 DEF c, TableInv, AllocTypeOK, IndexesAgree
  <2>3. ASSUME NEW q \in Port, by_relay'[q] # 0
        PROVE  by_relay'[q] \in Live' /\ allocs'[by_relay'[q]].relayPort = q
    BY <1>1, <1>2, <1>3, <2>3 DEF p, TableInv, AllocTypeOK, IndexesAgree
  <2>4. used_ports' = {q \in Port : by_relay'[q] # 0}
    BY <1>1, <1>3 DEF TableInv, AllocTypeOK, IndexesAgree
  <2> QED BY <2>1, <2>2, <2>3, <2>4 DEF IndexesAgree
<1> QED BY <1>4, <1>5 DEF TableInv

----------------------------------------------------------------------------
(* The rights of one allocation, and the operations that change them.       *)

OneNumberPerPeer(a) ==
    \A m, n \in Channel :
        a.channels[m].bound /\ a.channels[n].bound
        /\ a.channels[m].peer = a.channels[n].peer => m = n

NothingDenied(a) ==
    /\ \A x \in Address : isDeniedAddress(x) => ~(a.permissions[x] > 0)
    /\ \A n \in Channel : a.channels[n].bound =>
          ~isDeniedAddress(a.channels[n].peer.address)

Guarded(a) == OneNumberPerPeer(a) /\ NothingDenied(a)

AllGuarded == \A i \in Live : Guarded(allocs[i])

LEMMA AllGuardedMeaning == AllGuarded <=> ChannelsInjective /\ DeniedNeverPermitted
BY DEF AllGuarded, Guarded, OneNumberPerPeer, NothingDenied, ChannelsInjective,
       DeniedNeverPermitted, hasPermission

LEMMA NewIsGuarded ==
    ASSUME NEW cl \in Client, NEW u \in Username, NEW p \in Port
    PROVE  Guarded(NewAllocation(cl, u, p))
<1> DEFINE a == NewAllocation(cl, u, p)
<1>1. /\ \A x \in Address : a.permissions[x] = 0
      /\ \A n \in Channel : a.channels[n].bound = FALSE
  BY DEF NewAllocation, Unbound
<1> HIDE DEF a
<1>2. OneNumberPerPeer(a)
  BY <1>1 DEF OneNumberPerPeer
<1>3. NothingDenied(a)
  BY <1>1 DEF NothingDenied
<1> QED BY <1>2, <1>3 DEF Guarded, a

LEMMA PermitIsGuarded ==
    ASSUME NEW a \in Allocation, Guarded(a), NEW S,
           \A x \in S : ~isDeniedAddress(x)
    PROVE  Guarded(Permit(a, S))
<1>1. OneNumberPerPeer(Permit(a, S))
  BY PermitType DEF Guarded, OneNumberPerPeer
<1>2. NothingDenied(Permit(a, S))
  BY PermitType DEF Guarded, NothingDenied
<1> QED BY <1>1, <1>2 DEF Guarded

LEMMA AgedIsGuarded ==
    ASSUME NEW a \in Allocation, Guarded(a)
    PROVE  Guarded(Aged(a))
<1>1. OneNumberPerPeer(Aged(a))
  BY AgedType DEF Guarded, OneNumberPerPeer
<1>2. \A x \in Address : a.permissions[x] \in 0 .. PermissionTTL
  BY DEF Allocation
<1>3. NothingDenied(Aged(a))
  BY <1>2, AgedType, AllocAssumption DEF Guarded, NothingDenied, Less
<1> QED BY <1>1, <1>3 DEF Guarded

\* What handleChannelBind makes of an allocation.
Bind(a, num, peer) ==
    [Permit(a, {peer.address}) EXCEPT !.channels[num] = Bound(peer, ChannelTTL)]

LEMMA BindType ==
    ASSUME NEW a \in Allocation, NEW num \in Channel, NEW peer \in Peer
    PROVE  /\ Bind(a, num, peer) \in Allocation
           /\ Bind(a, num, peer).clientAddr = a.clientAddr
           /\ Bind(a, num, peer).relayPort = a.relayPort
           /\ Bind(a, num, peer).username = a.username
           /\ Bind(a, num, peer).permissions = Permit(a, {peer.address}).permissions
           /\ Bind(a, num, peer).channels =
                 [a.channels EXCEPT ![num] = Bound(peer, ChannelTTL)]
<1> DEFINE b == Permit(a, {peer.address})
           chans == [b.channels EXCEPT ![num] = Bound(peer, ChannelTTL)]
<1>1. /\ b \in Allocation
      /\ b.clientAddr = a.clientAddr /\ b.relayPort = a.relayPort
      /\ b.username = a.username /\ b.channels = a.channels
  BY PermitType
<1>2. Bound(peer, ChannelTTL) \in Binding
  BY AllocAssumption DEF Bound, Binding
<1>3. b.channels \in [Channel -> Binding]
  <2> HIDE DEF b
  <2> QED BY <1>1 DEF Allocation
<1>4. chans \in [Channel -> Binding]
  <2> HIDE DEF b
  <2> QED BY <1>2, <1>3
<1>5. Bind(a, num, peer) = [b EXCEPT !.channels = chans]
  BY DEF Bind
<1> HIDE DEF b
<1>6. chans = [a.channels EXCEPT ![num] = Bound(peer, ChannelTTL)]
  BY <1>1
<1> HIDE DEF chans
<1>7. /\ Bind(a, num, peer) \in Allocation
      /\ Bind(a, num, peer).clientAddr = b.clientAddr
      /\ Bind(a, num, peer).relayPort = b.relayPort
      /\ Bind(a, num, peer).username = b.username
      /\ Bind(a, num, peer).permissions = b.permissions
      /\ Bind(a, num, peer).channels = chans
  BY <1>1, <1>4, <1>5 DEF Allocation
<1> QED BY <1>1, <1>6, <1>7 DEF b

LEMMA BindIsGuarded ==
    ASSUME NEW a \in Allocation, Guarded(a), NEW num \in Channel, NEW peer \in Peer,
           ~isDeniedAddress(peer.address), ~ChannelClash(a, num, peer)
    PROVE  Guarded(Bind(a, num, peer))
<1> DEFINE b == Bind(a, num, peer)
<1>1. Guarded(Permit(a, {peer.address}))
  BY PermitIsGuarded
<1>2. /\ b.permissions = Permit(a, {peer.address}).permissions
      /\ b.channels = [a.channels EXCEPT ![num] = Bound(peer, ChannelTTL)]
  BY BindType
<1>3. /\ b.channels[num].bound = TRUE
      /\ b.channels[num].peer = peer
      /\ \A n \in Channel \ {num} : b.channels[n] = a.channels[n]
  <2>1. a.channels \in [Channel -> Binding]
    BY DEF Allocation
  <2> HIDE DEF b
  <2> QED BY <1>2, <2>1 DEF Bound
<1> HIDE DEF b
<1>4. \A n \in Channel \ {num} : ~(a.channels[n].bound /\ a.channels[n].peer = peer)
  BY DEF ChannelClash
<1>5. OneNumberPerPeer(b)
  <2> SUFFICES ASSUME NEW m \in Channel, NEW n \in Channel,
                      b.channels[m].bound, b.channels[n].bound,
                      b.channels[m].peer = b.channels[n].peer
               PROVE  m = n
    BY DEF OneNumberPerPeer
  <2>1. CASE m # num /\ n # num
    BY <1>3, <2>1 DEF Guarded, OneNumberPerPeer
  <2>2. CASE m = num /\ n # num
    BY <1>3, <1>4, <2>2
  <2>3. CASE m # num /\ n = num
    BY <1>3, <1>4, <2>3
  <2> QED BY <2>1, <2>2, <2>3
<1>6. NothingDenied(b)
  BY <1>1, <1>2, <1>3 DEF Guarded, NothingDenied
<1> QED BY <1>5, <1>6 DEF Guarded, b

----------------------------------------------------------------------------
(* The quota.  Finiteness of a username's allocations is part of the        *)
(* induction, so that adding one adds one to their number.                  *)

QuotaInv ==
    \A u \in Username : /\ IsFiniteSet(UserAllocs(u))
                        /\ Cardinality(UserAllocs(u)) <= MaxAllocs

LEMMA InPlaceKeepsQuota ==
    ASSUME TableInv, QuotaInv, InPlace
    PROVE  QuotaInv'
<1>1. \A u \in Username : UserAllocs(u)' = UserAllocs(u)
  BY DEF TableInv, IndexesAgree, InPlace, UserAllocs
<1> QED BY <1>1 DEF QuotaInv

LEMMA InsertKeepsQuota ==
    ASSUME TableInv, QuotaInv, NEW cl \in Client, NEW u \in Username, NEW t,
           allocateError(cl, u, t) = 0, t \in {"udp", "other", "missing"},
           NEW p \in Port \ used_ports, Insert(cl, u, p)
    PROVE  QuotaInv'
<1>1. by_client[cl] = 0 /\ ~(Cardinality(UserAllocs(u)) >= MaxAllocs)
  <2>1. by_client[cl] = 0
    BY SMT DEF allocateError
  <2>2. t # "missing" /\ t # "other"
    BY <2>1, SMT DEF allocateError
  <2>3. t = "udp"
    BY <2>2
  <2> QED BY <2>1, <2>3, SMT DEF allocateError
<1>2. next_id \in Nat \ {0} /\ next_id \notin Live
  BY DEF TableInv, AllocTypeOK
<1>3. /\ allocs'[next_id].username = u
      /\ \A i \in Live : allocs'[i] = allocs[i]
  BY <1>2 DEF Insert, NewAllocation
<1>4. \A c \in Client : by_client'[c] = IF c = cl THEN next_id ELSE by_client[c]
  BY DEF Insert, TableInv, AllocTypeOK
<1>5. \A c \in Client : by_client[c] # 0 => by_client[c] \in Live
  BY DEF TableInv, IndexesAgree
<1>6. UserAllocs(u)' = UserAllocs(u) \cup {cl}
  BY <1>2, <1>3, <1>4, <1>5 DEF UserAllocs
<1>7. \A v \in Username \ {u} : UserAllocs(v)' = UserAllocs(v)
  BY <1>1, <1>2, <1>3, <1>4, <1>5 DEF UserAllocs
<1>8. /\ IsFiniteSet(UserAllocs(u)')
      /\ Cardinality(UserAllocs(u)') <= MaxAllocs
  <2>1. IsFiniteSet(UserAllocs(u)) /\ Cardinality(UserAllocs(u)) \in Nat
    BY FS_CardinalityType DEF QuotaInv
  <2>2. /\ IsFiniteSet(UserAllocs(u) \cup {cl})
        /\ Cardinality(UserAllocs(u) \cup {cl}) =
              IF cl \in UserAllocs(u) THEN Cardinality(UserAllocs(u))
              ELSE Cardinality(UserAllocs(u)) + 1
    BY <2>1, FS_AddElement
  <2> QED BY <1>1, <1>6, <2>1, <2>2, AllocAssumption
<1> QED BY <1>7, <1>8 DEF QuotaInv

LEMMA DeleteKeepsQuota ==
    ASSUME TableInv, QuotaInv, NEW i \in Live, Delete(i)
    PROVE  QuotaInv'
<1>1. \A j \in Live \ {i} : allocs'[j] = allocs[j]
  BY DEF Delete, Restrict
<1>2. \A c \in Client : by_client'[c] # 0 =>
        by_client'[c] = by_client[c] /\ by_client[c] \in Live \ {i}
  BY DEF Delete, TableInv, AllocTypeOK, IndexesAgree
<1>3. \A u \in Username : UserAllocs(u)' \subseteq UserAllocs(u)
  BY <1>1, <1>2 DEF UserAllocs
<1>4. ASSUME NEW u \in Username
      PROVE  IsFiniteSet(UserAllocs(u)') /\ Cardinality(UserAllocs(u)') <= MaxAllocs
  <2>1. IsFiniteSet(UserAllocs(u)) /\ Cardinality(UserAllocs(u)) <= MaxAllocs
    BY DEF QuotaInv
  <2>2. /\ IsFiniteSet(UserAllocs(u)')
        /\ Cardinality(UserAllocs(u)') <= Cardinality(UserAllocs(u))
    BY <1>3, <2>1, FS_Subset
  <2>3. Cardinality(UserAllocs(u)) \in Nat /\ Cardinality(UserAllocs(u)') \in Nat
    BY <2>1, <2>2, FS_CardinalityType
  <2> QED BY <2>1, <2>2, <2>3, AllocAssumption
<1> QED BY <1>4 DEF QuotaInv

----------------------------------------------------------------------------
(* The steps.                                                               *)

AllocInv == TableInv /\ AllGuarded /\ QuotaInv

LEMMA UnmovedKeeps ==
    ASSUME AllocInv, Unmoved
    PROVE  AllocInv'
<1>1. InPlace
  BY UnmovedIsInPlace DEF AllocInv
<1>2. AllGuarded'
  BY DEF AllocInv, AllGuarded, Guarded, OneNumberPerPeer, NothingDenied, Unmoved, Live,
         isDeniedAddress
<1> QED BY <1>1, <1>2, InPlaceKeepsTables, InPlaceKeepsQuota DEF AllocInv

(* Replacing one allocation by a guarded one of the same client and port. *)
LEMMA UpdateKeeps ==
    ASSUME AllocInv, NEW i \in Live, NEW a \in Allocation, NEW o,
           a.clientAddr = allocs[i].clientAddr, a.relayPort = allocs[i].relayPort,
           a.username = allocs[i].username, Guarded(a), Update(i, a, o)
    PROVE  AllocInv'
<1>1. /\ Live' = Live
      /\ allocs' \in [Live -> Allocation]
      /\ \A j \in Live : allocs'[j] = IF j = i THEN a ELSE allocs[j]
  BY DEF Update, Live, AllocInv, TableInv, AllocTypeOK
<1>2. InPlace
  BY <1>1 DEF InPlace, Update
<1>3. AllGuarded'
  <2>1. \A j \in Live : Guarded(allocs'[j])
    BY <1>1 DEF AllocInv, AllGuarded
  <2> QED BY <1>1, <2>1 DEF AllGuarded, Guarded, OneNumberPerPeer, NothingDenied,
                            isDeniedAddress
<1> QED BY <1>2, <1>3, InPlaceKeepsTables, InPlaceKeepsQuota DEF AllocInv

LEMMA AllocateKeeps ==
    ASSUME AllocInv, NEW cl \in Client, NEW u \in Username,
           NEW t \in {"udp", "other", "missing"}, handleAllocate(cl, u, t)
    PROVE  AllocInv'
<1>1. CASE \E o : Answer(o)
  BY <1>1, UnmovedKeeps DEF Answer, Unmoved
<1>2. ASSUME allocateError(cl, u, t) = 0,
             NEW p \in Port \ used_ports, Insert(cl, u, p)
      PROVE  AllocInv'
  <2>1. by_client[cl] = 0
    BY <1>2, SMT DEF allocateError
  <2>2. TableInv'
    BY <1>2, <2>1, InsertKeepsTables DEF AllocInv
  <2>3. QuotaInv'
    BY <1>2, InsertKeepsQuota DEF AllocInv
  <2>4. next_id \notin Live
    BY DEF AllocInv, TableInv, AllocTypeOK
  <2>5. \A i \in Live' : Guarded(allocs'[i])
    BY <1>2, <2>4, NewIsGuarded DEF Insert, Live, AllocInv, AllGuarded
  <2>6. AllGuarded'
    BY <2>5 DEF AllGuarded, Guarded, OneNumberPerPeer, NothingDenied, isDeniedAddress
  <2> QED BY <2>2, <2>3, <2>6 DEF AllocInv
<1> QED BY <1>1, <1>2 DEF handleAllocate, allocatePort

LEMMA RefreshKeeps ==
    ASSUME AllocInv, NEW cl \in Client, NEW u \in Username, NEW zero \in BOOLEAN,
           handleRefresh(cl, u, zero)
    PROVE  AllocInv'
<1>1. CASE \E o : Answer(o)
  BY <1>1, UnmovedKeeps DEF Answer, Unmoved
<1>2. ASSUME by_client[cl] # 0, Delete(by_client[cl])
      PROVE  AllocInv'
  <2>1. by_client[cl] \in Live
    BY <1>2 DEF AllocInv, TableInv, IndexesAgree
  <2>2. TableInv' /\ QuotaInv'
    BY <1>2, <2>1, DeleteKeepsTables, DeleteKeepsQuota DEF AllocInv
  <2>3. \A i \in Live' : Guarded(allocs'[i])
    BY <1>2 DEF Delete, Restrict, Live, AllocInv, AllGuarded
  <2>4. AllGuarded'
    BY <2>3 DEF AllGuarded, Guarded, OneNumberPerPeer, NothingDenied, isDeniedAddress
  <2> QED BY <2>2, <2>4 DEF AllocInv
<1> QED BY <1>1, <1>2 DEF handleRefresh

LEMMA CreatePermissionKeeps ==
    ASSUME AllocInv, NEW cl \in Client, NEW peers \in PeerLists,
           handleCreatePermission(cl, peers)
    PROVE  AllocInv'
<1>1. CASE \E o : Answer(o)
  BY <1>1, UnmovedKeeps DEF Answer, Unmoved
<1>2. ASSUME by_client[cl] # 0, NEW o,
             Update(by_client[cl], Permit(allocs[by_client[cl]], Stored(peers)), o)
      PROVE  AllocInv'
  <2> DEFINE i == by_client[cl]
  <2>1. i \in Live /\ allocs[i] \in Allocation /\ Guarded(allocs[i])
    BY <1>2 DEF AllocInv, AllGuarded, TableInv, AllocTypeOK, IndexesAgree
  <2>2. \A x \in Stored(peers) : ~isDeniedAddress(x)
    <3> SUFFICES ASSUME NEW k \in 1 .. Len(peers),
                        \A h \in 1 .. k : ~isDeniedAddress(peers[h].address)
                 PROVE  ~isDeniedAddress(peers[k].address)
      BY DEF Stored
    <3>1. k \in 1 .. k
      BY DEF PeerLists
    <3> QED BY <3>1
  <2> HIDE DEF i
  <2>3. Guarded(Permit(allocs[i], Stored(peers)))
    BY <2>1, <2>2, PermitIsGuarded
  <2> QED BY <1>2, <2>1, <2>3, PermitType, UpdateKeeps DEF i
<1> QED BY <1>1, <1>2 DEF handleCreatePermission

LEMMA ChannelBindKeeps ==
    ASSUME AllocInv, NEW cl \in Client, NEW valid \in BOOLEAN, NEW n \in Channel,
           NEW peer \in Peer, handleChannelBind(cl, valid, n, peer)
    PROVE  AllocInv'
<1>1. CASE \E o : Answer(o)
  BY <1>1, UnmovedKeeps DEF Answer, Unmoved
<1>2. ASSUME by_client[cl] # 0, ~isDeniedAddress(peer.address),
             ~ChannelClash(allocs[by_client[cl]], n, peer), NEW o,
             Update(by_client[cl], Bind(allocs[by_client[cl]], n, peer), o)
      PROVE  AllocInv'
  <2> DEFINE i == by_client[cl]
  <2>1. i \in Live /\ allocs[i] \in Allocation /\ Guarded(allocs[i])
    BY <1>2 DEF AllocInv, AllGuarded, TableInv, AllocTypeOK, IndexesAgree
  <2> HIDE DEF i
  <2>2. Guarded(Bind(allocs[i], n, peer))
    BY <1>2, <2>1, BindIsGuarded DEF i
  <2> QED BY <1>2, <2>1, <2>2, BindType, UpdateKeeps DEF i
<1> QED BY <1>1, <1>2 DEF handleChannelBind, Bind

LEMMA TickKeeps ==
    ASSUME AllocInv, Tick
    PROVE  AllocInv'
<1>1. /\ Live' = Live
      /\ \A i \in Live : allocs'[i] = Aged(allocs[i]) /\ allocs[i] \in Allocation
  BY DEF Tick, Live, AllocInv, TableInv, AllocTypeOK
<1>2. allocs' \in [Live -> Allocation]
  BY <1>1, AgedType DEF Tick
<1>3. InPlace
  BY <1>1, <1>2, AgedType DEF InPlace, Tick
<1>4. \A i \in Live : Guarded(allocs'[i])
  BY <1>1, AgedIsGuarded DEF AllocInv, AllGuarded
<1>5. AllGuarded'
  BY <1>1, <1>4 DEF AllGuarded, Guarded, OneNumberPerPeer, NothingDenied, isDeniedAddress
<1> QED BY <1>3, <1>5, InPlaceKeepsTables, InPlaceKeepsQuota DEF AllocInv

LEMMA DataKeeps ==
    ASSUME AllocInv,
           \/ \E cl \in Client, valid \in BOOLEAN, peer \in Peer : handleSend(cl, valid, peer)
           \/ \E peer, relay \in Peer : handlePeerData(peer, relay)
    PROVE  AllocInv'
<1>1. \E o : Answer(o)
  BY DEF handleSend, handlePeerData
<1> QED BY <1>1, UnmovedKeeps DEF Answer, Unmoved

LEMMA AllocInvInductive == AllocInv /\ [AllocNext]_allocVars => AllocInv'
<1> SUFFICES ASSUME AllocInv, [AllocNext]_allocVars PROVE AllocInv'
  OBVIOUS
<1>1. CASE UNCHANGED allocVars
  BY <1>1, UnmovedKeeps DEF allocVars, Unmoved
<1>2. CASE AllocNext
  BY <1>2, AllocateKeeps, RefreshKeeps, CreatePermissionKeeps, ChannelBindKeeps,
     DataKeeps, TickKeeps DEF AllocNext
<1> QED BY <1>1, <1>2

LEMMA AllocInvInitially == AllocInit => AllocInv
<1> SUFFICES ASSUME AllocInit PROVE AllocInv
  OBVIOUS
<1>1. TableInv
  BY DEF AllocInit, TableInv, AllocTypeOK, IndexesAgree, Live
<1>2. AllGuarded
  BY DEF AllocInit, AllGuarded, Live
<1>3. \A u \in Username : UserAllocs(u) = {}
  BY DEF AllocInit, UserAllocs
<1>4. QuotaInv
  BY <1>3, FS_EmptySet, AllocAssumption DEF QuotaInv
<1> QED BY <1>1, <1>2, <1>4 DEF AllocInv

LEMMA AllocInvAlways == AllocSpec => []AllocInv
BY AllocInvInitially, AllocInvInductive, PTL DEF AllocSpec

(* Type correctness of the allocation tables. *)
THEOREM AllocTypeCorrect == AllocSpec => []AllocTypeOK
<1>1. AllocInv => AllocTypeOK
  BY DEF AllocInv, TableInv
<1> QED BY <1>1, AllocInvAlways, PTL

(* by_client_, by_relay_ and used_ports_ always describe the same set of
   allocations: no port leaks, no entry dangles, no relay port is shared. *)
THEOREM TablesAgree == AllocSpec => []IndexesAgree
<1>1. AllocInv => IndexesAgree
  BY DEF AllocInv, TableInv
<1> QED BY <1>1, AllocInvAlways, PTL

(* No username ever exceeds max_alloc_per_user_. *)
THEOREM QuotaIsKept == AllocSpec => []QuotaHolds
<1>1. AllocInv => QuotaHolds
  BY DEF AllocInv, QuotaInv, QuotaHolds
<1> QED BY <1>1, AllocInvAlways, PTL

(* A peer never has two channel numbers in one allocation. *)
THEOREM NumbersAreUnique == AllocSpec => []ChannelsInjective
<1>1. AllocInv => ChannelsInjective
  BY AllGuardedMeaning DEF AllocInv
<1> QED BY <1>1, AllocInvAlways, PTL

(* No permission or channel ever leads to a denied range. *)
THEOREM DeniedStaysDenied == AllocSpec => []DeniedNeverPermitted
<1>1. AllocInv => DeniedNeverPermitted
  BY AllGuardedMeaning DEF AllocInv
<1> QED BY <1>1, AllocInvAlways, PTL

----------------------------------------------------------------------------
(* The dispatcher.                                                          *)

(* The CASE of authenticate, read the other way: a request that passes bears
   the username of the client's allocation, if the client has one. *)
LEMMA OkMeansOwner ==
    ASSUME now \in Nat, NEW m \in Request, NEW method \in Method \ {"Allocate"},
           NEW cl \in Client, authenticate(m, method, cl) = "Ok", by_client[cl] # 0
    PROVE  allocs[by_client[cl]].username = m.username
<1> SUFFICES ASSUME allocs[by_client[cl]].username # m.username
             PROVE  FALSE
  OBVIOUS
<1> DEFINE valid == isValid(m.nonce)
           late == now > m.username.expiry
<1>1. CASE ~m.complete
  BY <1>1 DEF authenticate
<1>2. CASE m.complete /\ ~valid
  BY <1>2 DEF authenticate
<1>3. CASE m.complete /\ valid /\ (late \/ ~m.verifies)
  BY <1>3 DEF authenticate
<1>4. CASE m.complete /\ valid /\ ~late /\ m.verifies
  <2>1. now <= m.username.expiry
    BY <1>4, DispatcherAssumption DEF Request
  <2> QED BY <1>4, <2>1 DEF authenticate, findByClient
<1> QED BY <1>1, <1>2, <1>3, <1>4

----------------------------------------------------------------------------
(* The allocation manager behind the dispatcher.                            *)

(* Every packet, whatever comes of it, and every tick of the clock is a step
   of the allocation manager, or an answer that leaves its tables alone. *)
LEMMA TurnStepIsAllocStep ==
    ASSUME TurnNext
    PROVE  AllocNext \/ Unmoved
<1>1. CASE Clock
  BY <1>1 DEF Clock, AllocNext
<1>2. ASSUME NEW cl \in Client, onPacket(cl)
      PROVE  AllocNext \/ Unmoved
  <2>1. CASE \E o : Answer(o)
    BY <2>1 DEF Answer, Unmoved
  <2>2. ASSUME NEW m \in Request, NEW method \in Method, Refuse(cl, m, method)
        PROVE  \E o : Answer(o)
    BY <2>2 DEF Refuse
  <2>3. ASSUME NEW m \in Request
        PROVE  /\ m.username \in Username
               /\ \A t \in {"udp", "other", "missing"} : Allocate(cl, m, t) => AllocNext
               /\ \A zero \in BOOLEAN : Refresh(cl, m, zero) => AllocNext
               /\ \A peers \in PeerLists : CreatePermission(cl, m, peers) => AllocNext
               /\ \A valid \in BOOLEAN, n \in Channel, peer \in Peer :
                     ChannelBind(cl, m, valid, n, peer) => AllocNext
               /\ OtherMethod(cl, m) => \E o : Answer(o)
    <3>1. m.username \in Username
      BY DEF Request
    <3> QED BY <3>1 DEF Allocate, Refresh, CreatePermission, ChannelBind, OtherMethod, AllocNext
  <2>4. ASSUME NEW valid \in BOOLEAN, NEW peer \in Peer, SendIndication(cl, valid, peer)
        PROVE  AllocNext
    BY <2>4 DEF SendIndication, AllocNext
  <2>5. ASSUME NEW n \in Channel, handleChannelData(cl, n)
        PROVE  \E o : Answer(o)
    BY <2>5 DEF handleChannelData, Forward
  <2> QED BY <1>2, <2>1, <2>2, <2>3, <2>4, <2>5 DEF onPacket
<1> QED BY <1>1, <1>2 DEF TurnNext

\* The manager's invariant, and a clock that can be compared with an expiry.
TurnInv == AllocInv /\ now \in Nat

LEMMA TurnInvInductive == TurnInv /\ [TurnNext]_turnVars => TurnInv'
<1> SUFFICES ASSUME TurnInv, [TurnNext]_turnVars PROVE TurnInv'
  OBVIOUS
<1>1. CASE TurnNext
  <2>1. AllocInv'
    BY <1>1, TurnStepIsAllocStep, UnmovedKeeps, AllocInvInductive DEF TurnInv
  <2>2. now' = now \/ now' = now + 1
    <3>1. CASE Clock
      BY <3>1 DEF Clock
    <3>2. ASSUME NEW cl \in Client, onPacket(cl)
          PROVE  now' = now
      <4>1. ASSUME NEW m \in Request
            PROVE  /\ \A method \in Method : Refuse(cl, m, method) => now' = now
                   /\ \A t \in {"udp", "other", "missing"} : Allocate(cl, m, t) => now' = now
                   /\ \A zero \in BOOLEAN : Refresh(cl, m, zero) => now' = now
                   /\ \A peers \in PeerLists : CreatePermission(cl, m, peers) => now' = now
                   /\ \A valid \in BOOLEAN, n \in Channel, peer \in Peer :
                         ChannelBind(cl, m, valid, n, peer) => now' = now
                   /\ OtherMethod(cl, m) => now' = now
        BY DEF Refuse, Allocate, Refresh, CreatePermission, ChannelBind, OtherMethod, Admit
      <4>2. /\ \A valid \in BOOLEAN, peer \in Peer : SendIndication(cl, valid, peer) => now' = now
            /\ \A n \in Channel : handleChannelData(cl, n) => now' = now
        BY DEF SendIndication, handleChannelData
      <4> QED BY <3>2, <4>1, <4>2 DEF onPacket
    <3> QED BY <1>1, <3>1, <3>2 DEF TurnNext
  <2> QED BY <2>1, <2>2 DEF TurnInv
<1>2. CASE UNCHANGED turnVars
  BY <1>2, UnmovedKeeps DEF turnVars, Unmoved, TurnInv
<1> QED BY <1>1, <1>2

LEMMA TurnInvAlways == TurnSpec => []TurnInv
<1>1. TurnInit => TurnInv
  BY AllocInvInitially DEF TurnInit, TurnInv
<1> QED BY <1>1, TurnInvInductive, PTL DEF TurnSpec

(* The whole server, not only the manager by itself, keeps its tables in
   agreement, its quotas and its channel numbers, and never opens an
   allocation to a denied range. *)
THEOREM TurnServerSound ==
    TurnSpec => [](/\ AllocTypeOK /\ IndexesAgree /\ QuotaHolds
                   /\ ChannelsInjective /\ DeniedNeverPermitted)
<1>1. TurnInv => /\ AllocTypeOK /\ IndexesAgree /\ QuotaHolds
                 /\ ChannelsInjective /\ DeniedNeverPermitted
  BY AllGuardedMeaning DEF TurnInv, AllocInv, TableInv, QuotaInv, QuotaHolds
<1> QED BY <1>1, TurnInvAlways, PTL

----------------------------------------------------------------------------
(* Whose allocation a packet touches.                                       *)

\* What a step that touches an allocation must bear.
Rightful == \A i \in Live : Touched(i) => last'.username = allocs[i].username

LEMMA SameIsUntouched ==
    ASSUME TableInv, NEW i \in Live, i \in DOMAIN allocs', allocs'[i] = allocs[i]
    PROVE  ~Touched(i)
<1>1. \A a \in Address : allocs[i].permissions[a] \in Nat
  BY DEF TableInv, AllocTypeOK, Allocation
<1> QED BY <1>1 DEF Touched

LEMMA AnswerIsRightful ==
    ASSUME TableInv, NEW o, Answer(o)
    PROVE  Rightful
BY SameIsUntouched DEF Answer, Rightful, Live

(* An allocation only loses by getting older. *)
LEMMA TickIsRightful ==
    ASSUME TableInv, Tick
    PROVE  Rightful
<1> SUFFICES ASSUME NEW i \in Live PROVE ~Touched(i)
  BY DEF Rightful
<1>1. /\ allocs'[i] = Aged(allocs[i]) /\ allocs[i] \in Allocation
      /\ i \in DOMAIN allocs'
  BY DEF Tick, TableInv, AllocTypeOK
<1>2. \A a \in Address : ~(allocs'[i].permissions[a] > allocs[i].permissions[a])
  <2>1. \A a \in Address : allocs[i].permissions[a] \in Nat
    BY <1>1 DEF Allocation
  <2>2. \A a \in Address : allocs'[i].permissions[a] = Less(allocs[i].permissions[a])
    BY <1>1, AgedType
  <2> QED BY <2>1, <2>2 DEF Less
<1>3. \A n \in Channel : allocs'[i].channels[n].bound = allocs[i].channels[n].bound
  BY <1>1, AgedType
<1> QED BY <1>1, <1>2, <1>3 DEF Touched

(* A step that changes one allocation, and bears its username. *)
LEMMA OneIsRightful ==
    ASSUME TableInv, NEW j \in Live, last'.username = allocs[j].username,
           \A i \in Live \ {j} : i \in DOMAIN allocs' /\ allocs'[i] = allocs[i]
    PROVE  Rightful
BY SameIsUntouched DEF Rightful

LEMMA UpdateIsRightful ==
    ASSUME TableInv, NEW cl \in Client, by_client[cl] # 0, NEW a, NEW o,
           Update(by_client[cl], a, o),
           last'.username = allocs[by_client[cl]].username
    PROVE  Rightful
<1> DEFINE j == by_client[cl]
<1>1. j \in Live
  BY DEF TableInv, IndexesAgree
<1>2. \A i \in Live \ {j} : i \in DOMAIN allocs' /\ allocs'[i] = allocs[i]
  BY DEF Update, Live, TableInv, AllocTypeOK
<1> QED BY <1>1, <1>2, OneIsRightful

LEMMA RequestIsRightful ==
    ASSUME TableInv, now \in Nat, NEW cl \in Client, NEW m \in Request,
           \/ \E t \in {"udp", "other", "missing"} : Allocate(cl, m, t)
           \/ \E zero \in BOOLEAN : Refresh(cl, m, zero)
           \/ \E peers \in PeerLists : CreatePermission(cl, m, peers)
           \/ \E valid \in BOOLEAN, n \in Channel, peer \in Peer :
                 ChannelBind(cl, m, valid, n, peer)
           \/ OtherMethod(cl, m)
    PROVE  Rightful
<1> DEFINE j == by_client[cl]
<1>0. CASE \E o : Answer(o)
  BY <1>0, AnswerIsRightful
<1>1. last'.username = m.username
  BY DEF Allocate, Refresh, CreatePermission, ChannelBind, OtherMethod, Admit, Packet
<1>2. ASSUME NEW p \in Port \ used_ports, Insert(cl, m.username, p)
      PROVE  Rightful
  <2>1. next_id \notin Live
    BY DEF TableInv, AllocTypeOK
  <2>2. \A i \in Live : i \in DOMAIN allocs' /\ allocs'[i] = allocs[i]
    BY <1>2, <2>1 DEF Insert
  <2> QED BY <2>2, SameIsUntouched DEF Rightful
<1>3. ASSUME NEW t \in {"udp", "other", "missing"}, Allocate(cl, m, t)
      PROVE  Rightful
  BY <1>0, <1>2, <1>3 DEF Allocate, handleAllocate, allocatePort
<1>4. ASSUME NEW zero \in BOOLEAN, Refresh(cl, m, zero)
      PROVE  Rightful
  <2>1. CASE j # 0 /\ allocs[j].username = m.username /\ Delete(j)
    <3>1. j \in Live
      BY <2>1 DEF TableInv, IndexesAgree
    <3>2. \A i \in Live \ {j} : i \in DOMAIN allocs' /\ allocs'[i] = allocs[i]
      BY <2>1 DEF Delete, Restrict
    <3> QED BY <1>1, <2>1, <3>1, <3>2, OneIsRightful
  <2> QED BY <1>0, <1>4, <2>1 DEF Refresh, handleRefresh
<1>5. ASSUME NEW peers \in PeerLists, CreatePermission(cl, m, peers)
      PROVE  Rightful
  <2>1. ASSUME j # 0, NEW a, NEW o, Update(j, a, o)
        PROVE  Rightful
    <3>1. allocs[j].username = m.username
      BY <1>5, <2>1, OkMeansOwner DEF CreatePermission, Admit, Method
    <3> QED BY <1>1, <2>1, <3>1, UpdateIsRightful
  <2> QED BY <1>0, <1>5, <2>1 DEF CreatePermission, handleCreatePermission
<1>6. ASSUME NEW valid \in BOOLEAN, NEW n \in Channel, NEW peer \in Peer,
             ChannelBind(cl, m, valid, n, peer)
      PROVE  Rightful
  <2>1. ASSUME j # 0, NEW a, NEW o, Update(j, a, o)
        PROVE  Rightful
    <3>1. allocs[j].username = m.username
      BY <1>6, <2>1, OkMeansOwner DEF ChannelBind, Admit, Method
    <3> QED BY <1>1, <2>1, <3>1, UpdateIsRightful
  <2> QED BY <1>0, <1>6, <2>1 DEF ChannelBind, handleChannelBind
<1>7. ASSUME OtherMethod(cl, m) PROVE Rightful
  BY <1>0, <1>7 DEF OtherMethod
<1> QED BY <1>3, <1>4, <1>5, <1>6, <1>7

LEMMA StepIsRightful ==
    ASSUME TurnInv, TurnNext
    PROVE  Rightful
<1>0. TableInv /\ now \in Nat
  BY DEF TurnInv, AllocInv
<1>1. CASE Clock
  BY <1>0, <1>1, TickIsRightful DEF Clock
<1>2. ASSUME NEW cl \in Client, onPacket(cl)
      PROVE  Rightful
  <2>1. CASE \E o : Answer(o)
    BY <1>0, <2>1, AnswerIsRightful
  <2>2. ASSUME NEW m \in Request, NEW method \in Method, Refuse(cl, m, method)
        PROVE  \E o : Answer(o)
    BY <2>2 DEF Refuse
  <2>3. ASSUME NEW valid \in BOOLEAN, NEW peer \in Peer, SendIndication(cl, valid, peer)
        PROVE  \E o : Answer(o)
    BY <2>3 DEF SendIndication, handleSend
  <2>4. ASSUME NEW n \in Channel, handleChannelData(cl, n)
        PROVE  \E o : Answer(o)
    BY <2>4 DEF handleChannelData, Forward
  <2> QED BY <1>0, <1>2, <2>1, <2>2, <2>3, <2>4, RequestIsRightful DEF onPacket
<1> QED BY <1>1, <1>2 DEF TurnNext

(* Only a request with the credentials an allocation was made with deletes
   it, opens a permission in it or binds a channel in it, although
   CreatePermission and ChannelBind look at no username themselves. *)
THEOREM OwnersOnly == TurnSpec => OwnerOnly
<1>1. TurnInv /\ [TurnNext]_turnVars => [Rightful]_turnVars
  BY StepIsRightful
<1> QED BY <1>1, TurnInvAlways, PTL DEF TurnSpec, OwnerOnly, Rightful

----------------------------------------------------------------------------
(* Where channel data comes out.                                            *)

(* Only handleChannelData sends channel data, and what it sends bears the
   number that the receiver bound to the sender. *)
LEMMA ForwardNamesSender ==
    ASSUME AllocInv, NEW cl \in Client, NEW num \in Channel, handleChannelData(cl, num)
    PROVE  ReverseChannelNamesSender'
<1> DEFINE i == by_client[cl]
           peer == allocs[i].channels[num].peer
           j == findByRelay(peer)
<1>1. last'.from = cl
  BY DEF handleChannelData, Packet
<1>2. CASE out' = Nothing \/ \E e : out' = ToPeer(e)
  <2>1. out'.kind # "channel"
    BY <1>2 DEF Nothing, ToPeer
  <2> QED BY <2>1 DEF ReverseChannelNamesSender
<1>3. ASSUME i # 0, allocs[i].channels[num].bound, j # 0, Forward(allocs[i], allocs[j], num)
      PROVE  ReverseChannelNamesSender'
  <2>1. i \in Live /\ allocs[i] \in Allocation
    BY <1>3 DEF AllocInv, TableInv, AllocTypeOK, IndexesAgree
  <2>2. j \in Live /\ by_client[allocs[j].clientAddr] = j /\ j # 0
    <3>1. peer.port \in Port
      <4>1. allocs[i].channels[num] \in Binding
        BY <2>1 DEF Allocation
      <4> DEFINE b == allocs[i].channels[num]
      <4>2. b \in Binding /\ b.bound
        BY <1>3, <4>1
      <4> HIDE DEF b
      <4>3. b # Unbound
        BY <4>2 DEF Unbound
      <4>4. b.peer \in Peer
        BY <4>2, <4>3 DEF Binding
      <4> QED BY <4>4, AllocAssumption DEF Endpoint, b
    <3>2. j = by_relay[peer.port]
      BY <1>3 DEF findByRelay
    <3> QED BY <1>3, <3>1, <3>2 DEF AllocInv, TableInv, IndexesAgree
  <2> HIDE DEF i, j
  <2>3. ASSUME NEW n \in ReverseChannels(allocs[i], allocs[j]),
               Answer(ChannelData(allocs[j].clientAddr, n))
        PROVE  ReverseChannelNamesSender'
    <3>1. /\ out'.to = allocs[j].clientAddr /\ out'.number = n
          /\ by_client' = by_client /\ allocs' = allocs
      BY <2>3 DEF Answer, ChannelData
    <3>2. /\ by_client'[out'.to] = j /\ by_client'[last'.from] = i
      BY <1>1, <2>2, <3>1 DEF i
    <3>3. /\ allocs[j].channels[n].bound
          /\ allocs[j].channels[n].peer = relayedAddr(allocs[i])
      BY <2>3 DEF ReverseChannels
    <3> QED BY <1>3, <2>2, <3>1, <3>2, <3>3 DEF ReverseChannelNamesSender, relayedAddr
  <2>4. CASE Answer(DataIndication(allocs[j].clientAddr, relayedAddr(allocs[i])))
    <3>1. out'.kind # "channel"
      BY <2>4 DEF Answer, DataIndication
    <3> QED BY <3>1 DEF ReverseChannelNamesSender
  <2> QED BY <1>3, <2>3, <2>4 DEF Forward
<1> QED BY <1>2, <1>3 DEF handleChannelData, Answer, findByClient

LEMMA StepNamesSender ==
    ASSUME AllocInv, [TurnNext]_turnVars, ReverseChannelNamesSender
    PROVE  ReverseChannelNamesSender'
<1>1. CASE out'.kind # "channel"
  BY <1>1 DEF ReverseChannelNamesSender
<1>2. ASSUME NEW o, o.kind # "channel", Answer(o) PROVE out'.kind # "channel"
  BY <1>2 DEF Answer
<1>3. /\ Nothing.kind # "channel" /\ \A code : Reply(code).kind # "channel"
      /\ \A e : ToPeer(e).kind # "channel"
      /\ \A e, f : DataIndication(e, f).kind # "channel"
  BY DEF Nothing, Reply, ToPeer, DataIndication
<1>4. CASE UNCHANGED turnVars
  BY <1>4 DEF turnVars, ReverseChannelNamesSender, relayedAddr
<1>5. CASE Clock
  BY <1>1, <1>3, <1>5 DEF Clock, Tick
<1>6. ASSUME NEW cl \in Client, onPacket(cl)
      PROVE  ReverseChannelNamesSender'
  <2>1. ASSUME NEW m \in Request, NEW method \in Method, Refuse(cl, m, method)
        PROVE  out'.kind # "channel"
    BY <1>2, <1>3, <2>1 DEF Refuse
  <2>2. ASSUME NEW m \in Request, NEW t, Allocate(cl, m, t)
        PROVE  out'.kind # "channel"
    BY <1>2, <1>3, <2>2 DEF Allocate, handleAllocate, Insert, Success
  <2>3. ASSUME NEW m \in Request, NEW zero, Refresh(cl, m, zero)
        PROVE  out'.kind # "channel"
    BY <1>2, <1>3, <2>3 DEF Refresh, handleRefresh, Delete, Success
  <2>4. ASSUME NEW m \in Request, NEW peers, CreatePermission(cl, m, peers)
        PROVE  out'.kind # "channel"
    BY <1>2, <1>3, <2>4 DEF CreatePermission, handleCreatePermission, Update, Success
  <2>5. ASSUME NEW m \in Request, NEW valid, NEW n, NEW peer, ChannelBind(cl, m, valid, n, peer)
        PROVE  out'.kind # "channel"
    BY <1>2, <1>3, <2>5 DEF ChannelBind, handleChannelBind, Update, Success
  <2>6. ASSUME NEW m \in Request, OtherMethod(cl, m)
        PROVE  out'.kind # "channel"
    BY <1>2, <1>3, <2>6 DEF OtherMethod
  <2>7. ASSUME NEW valid, NEW peer, SendIndication(cl, valid, peer)
        PROVE  out'.kind # "channel"
    BY <1>2, <1>3, <2>7 DEF SendIndication, handleSend
  <2>8. ASSUME NEW n \in Channel, handleChannelData(cl, n)
        PROVE  ReverseChannelNamesSender'
    BY <2>8, ForwardNamesSender
  <2> QED BY <1>1, <1>6, <2>1, <2>2, <2>3, <2>4, <2>5, <2>6, <2>7, <2>8 DEF onPacket
<1> QED BY <1>4, <1>5, <1>6 DEF TurnNext

(* Channel data between two clients of the server arrives under the number
   that the receiver bound to the sender's relay address. *)
THEOREM ChannelsNameSenders == TurnSpec => []ReverseChannelNamesSender
<1>1. TurnInit => ReverseChannelNamesSender
  BY DEF TurnInit, AllocInit, Nothing, ReverseChannelNamesSender
<1>2. TurnInv /\ [TurnNext]_turnVars /\ ReverseChannelNamesSender
         => ReverseChannelNamesSender'
  BY StepNamesSender DEF TurnInv
<1> QED BY <1>1, <1>2, TurnInvAlways, PTL DEF TurnSpec
=============================================================================
