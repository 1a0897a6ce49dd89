-------------------------- MODULE CallSystemProofs --------------------------
(***************************************************************************)
(* Clients and backend together, for every number of users, calls and peer *)
(* connections.  SystemInv is inductive.  TypesOK and TeardownOK are about *)
(* one client and its threads.  The rest follows the news of a call on its *)
(* way to the two clients: until it arrives, its client cannot name the    *)
(* call (NamesOK), and a client whose call is gone is told, or is about to *)
(* forget it anyway (DownOK, RingOK, NewsOK, CalledOK).  These parts are   *)
(* operators of the variables they read, so that a step can be checked     *)
(* against the old and the new value of each.                              *)
(***************************************************************************)
EXTENDS CallSystem, CallManagerProofs, SequenceTheorems, FiniteSetTheorems

WireType == {"call.create", "call.accept", "call.reject", "call.hangup",
             "call.created", "call.incoming", "call.ended", "call.failed", "error",
             "rtc.config", "webrtc.offer", "webrtc.answer", "webrtc.ice"}

PcId == (User \cup {NoCall}) \X Nat

Arg == User \cup {NoCall} \cup PcId

Wire == [type : WireType, call : CallId \cup {NoCall}, arg : Arg]

Post == [to : User, msg : Wire]

PcRecord == [id : PcId, remote : Arg, todo : SUBSET WireType,
             st : {"none", "new", "connected", "disconnected", "failed"}]

CallRecord == [callId : CallId \cup {NoCall}, state : AppState, is_caller : BOOLEAN]

TypesOK ==
    /\ call \in [User -> CallRecord]
    /\ pc \in [User -> PcRecord]
    /\ gen \in [User -> 0 .. MaxPc]
    /\ done \in [User -> BOOLEAN]
    /\ cmd \in [User -> {"prompt", "create", "InCall", "Idle"}]
    /\ at \in [User -> [Callback -> Stage]]
    /\ run \in [User -> {"running", "offline", "quit", "crashed"}]
    /\ up \in [User -> Seq(Wire)]
    /\ down \in [User -> Seq(Wire)]
    /\ pending \in [Thread -> Seq(Post)]

\* Nobody asks for a call to himself.
CreateOK(uq) ==
    \A u \in User : \A k \in 1 .. Len(uq[u]) :
        uq[u][k].type = "call.create" => uq[u][k].arg \in User \ {u}

Cleans(a) == \E thread \in Callback : a[thread] = "cleanup"

\* The peer connection of a client, its number and what the flag says of it:
\* before the second connection, one that is there is not torn down yet.
TeardownOK(u, p, g, d, a) ==
    /\ p = NoPc \/ (p.id = <<u, g>> /\ g > 0)
    /\ a["ws"] = "init" => p = NoPc /\ g < MaxPc
    /\ g = 0 => a["rtc"] = "out"
    /\ g = 0 /\ a["ws"] = "init" => ~d
    /\ g \in {0, 1} /\ d /\ ~Cleans(a) => p = NoPc

----------------------------------------------------------------------------

News == {"call.created", "call.incoming"}

Ending == {"call.ended", "call.failed"}

\* What is lost on the way to a client is lost with its connection.
OfflineOK(rn, tm) == \A u \in User : rn[u] = "offline" => u \in tm

Watched(u, rn, tm) == rn[u] = "running" /\ u \notin tm

\* A call has two different parties.
PairsOK(ss) == \A c \in DOMAIN ss : ss[c].callerId # ss[c].calleeId

\* A call that is named anywhere was issued.
MentionOK(is, cl, uq, dn, pd) ==
    /\ \A u \in User : /\ cl[u].callId \in is \cup {NoCall}
                       /\ \A k \in 1 .. Len(uq[u]) : uq[u][k].call \in is \cup {NoCall}
                       /\ \A k \in 1 .. Len(dn[u]) : /\ dn[u][k].call \in is \cup {NoCall}
                                                     /\ dn[u][k].type \in News => dn[u][k].call \in is
    /\ \A t \in Thread : \A k \in 1 .. Len(pd[t]) : pd[t][k].msg.call \in is \cup {NoCall}

\* News that is still to be sent is of a call that has just begun.
PendingOK(ss, pd) ==
    \A t \in Thread : \A i \in 1 .. Len(pd[t]) :
        LET m == pd[t][i].msg
        IN  /\ m.type \in News => /\ m.call \in DOMAIN ss
                                  /\ ss[m.call].callerId = t
                                  /\ ss[m.call].age = 0
            /\ m.type = "call.created" => /\ pd[t][i].to = t
                                          /\ i + 1 \in 1 .. Len(pd[t])
                                          /\ pd[t][i + 1].msg.type = "call.incoming"
                                          /\ pd[t][i + 1].msg.call = m.call
            /\ m.type = "call.incoming" => pd[t][i].to = ss[m.call].calleeId

Unnamed(u, c, cl, uq) ==
    cl[u].callId # c /\ \A k \in 1 .. Len(uq[u]) : uq[u][k].call # c

\* News comes once, and until it has come its client cannot name the call.
NewsDown(cl, uq, dn) ==
    \A u \in User : \A i \in 1 .. Len(dn[u]) : dn[u][i].type \in News =>
        /\ Unnamed(u, dn[u][i].call, cl, uq)
        /\ \A k \in 1 .. Len(dn[u]) :
              dn[u][k].type \in News /\ dn[u][k].call = dn[u][i].call => k = i

NewsPending(cl, uq, dn, pd) ==
    \A t \in Thread : \A i \in 1 .. Len(pd[t]) : pd[t][i].msg.type \in News =>
        /\ Unnamed(pd[t][i].to, pd[t][i].msg.call, cl, uq)
        /\ \A k \in 1 .. Len(dn[pd[t][i].to]) : dn[pd[t][i].to][k].type \in News =>
              dn[pd[t][i].to][k].call # pd[t][i].msg.call

NewsOnce(pd) ==
    \A r, s \in Thread : \A i \in 1 .. Len(pd[r]), k \in 1 .. Len(pd[s]) :
        /\ pd[r][i].msg.type \in News /\ pd[s][k].msg.type \in News
        /\ pd[s][k].to = pd[r][i].to /\ pd[s][k].msg.call = pd[r][i].msg.call
        => s = r /\ k = i

NamesOK(cl, uq, dn, pd) ==
    NewsDown(cl, uq, dn) /\ NewsPending(cl, uq, dn, pd) /\ NewsOnce(pd)

\* The end of some call is on its way to u, behind place i of his queue.
EndComes(u, i, dn, pd) ==
    \/ \E k \in (i + 1) .. Len(dn[u]) : dn[u][k].type \in Ending
    \/ \E t \in Thread : \E k \in 1 .. Len(pd[t]) :
          pd[t][k].to = u /\ pd[t][k].msg.type \in Ending

\* A call that is announced is there when the client rings, or its end comes.
DownOK(ss, dn, pd, rn, tm) ==
    \A u \in User : \A i \in 1 .. Len(dn[u]) : dn[u][i].type = "call.incoming" =>
        /\ dn[u][i].call \in DOMAIN ss => ss[dn[u][i].call].calleeId = u
        /\ Watched(u, rn, tm) =>
              \/ /\ dn[u][i].call \in DOMAIN ss
                 /\ \A k \in (i + 1) .. Len(dn[u]) : dn[u][k].type # "call.created"
              \/ EndComes(u, i, dn, pd)

\* A call that is announced is the client's, and there or about to end.
NewsOK(ss, dn, pd, rn, tm) ==
    \A u \in User : \A i \in 1 .. Len(dn[u]) : dn[u][i].type \in News =>
        /\ dn[u][i].call \in DOMAIN ss => u \in Parties(ss[dn[u][i].call])
        /\ Watched(u, rn, tm) => dn[u][i].call \in DOMAIN ss \/ EndComes(u, i, dn, pd)

Forgets(u, cm, cg) == cm[u] = "Idle" \/ u \in cg

\* A client that rings shows a call that is there, or will forget it.
RingOK(ss, cl, cm, cg, dn, pd, rn, tm) ==
    \A u \in User : cl[u].state = "Ringing" /\ Watched(u, rn, tm) =>
        \/ /\ cl[u].callId \in DOMAIN ss
           /\ ss[cl[u].callId].calleeId = u
           /\ \A k \in 1 .. Len(dn[u]) : dn[u][k].type # "call.created"
        \/ EndComes(u, 0, dn, pd)
        \/ Forgets(u, cm, cg)

\* A client that names a call is a party of it, or will forget it.
CalledOK(ss, cl, cm, cg, dn, pd, rn, tm) ==
    \A u \in User : cl[u].callId # NoCall /\ Watched(u, rn, tm) =>
        \/ cl[u].callId \in DOMAIN ss /\ u \in Parties(ss[cl[u].callId])
        \/ EndComes(u, 0, dn, pd)
        \/ Forgets(u, cm, cg)

\* A client that has asked for the end of its call will forget it.
AskedOK(cl, uq, cm, cg, rn, tm) ==
    \A u \in User : \A k \in 1 .. Len(uq[u]) :
        /\ uq[u][k].type \in {"call.reject", "call.hangup"}
        /\ cl[u].callId # NoCall /\ cl[u].callId = uq[u][k].call
        /\ Watched(u, rn, tm)
        => Forgets(u, cm, cg)

Ring(ss, is, cl, uq, dn, pd, cm, cg, rn, tm) ==
    /\ OfflineOK(rn, tm)
    /\ PairsOK(ss)
    /\ MentionOK(is, cl, uq, dn, pd)
    /\ PendingOK(ss, pd)
    /\ NamesOK(cl, uq, dn, pd)
    /\ DownOK(ss, dn, pd, rn, tm)
    /\ NewsOK(ss, dn, pd, rn, tm)
    /\ RingOK(ss, cl, cm, cg, dn, pd, rn, tm)
    /\ CalledOK(ss, cl, cm, cg, dn, pd, rn, tm)
    /\ AskedOK(cl, uq, cm, cg, rn, tm)

\* The clients one of whose threads is about to forget the call.
Leaving == {u \in User : Cleans(at[u]) \/ (at[u]["rtc"] = "failed" /\ ~done[u])}

Unsure == {u \in User : Misled(u)}

RingInv == Ring(sessions, issued, call, up, down, pending, cmd, Leaving, run, Unsure)

SystemInv ==
    /\ CallInv
    /\ IsFiniteSet(issued)
    /\ TypesOK
    /\ CreateOK(up)
    /\ \A u \in User : TeardownOK(u, pc[u], gen[u], done[u], at[u])
    /\ RingInv

----------------------------------------------------------------------------

LEMMA PostTyped ==
    ASSUME NEW pd \in [Thread -> Seq(Post)], NEW t \in Thread, NEW i \in 1 .. Len(pd[t])
    PROVE  pd[t][i] \in Post /\ pd[t][i].to \in User /\ pd[t][i].msg \in Wire
<1>1. pd[t] \in Seq(Post)
  OBVIOUS
<1>2. pd[t][i] \in Post
  BY <1>1, ElementOfSeq
<1> QED BY <1>2 DEF Post

(* What a step of one client may do: it forgets its call or keeps it, and   *)
(* the messages it adds name the call it is in.                             *)

LocalStep(u, cl, uq, cm, cg, rn, tm, cl2, uq2, cm2, cg2, rn2, tm2) ==
    /\ \A v \in User \ {u} : /\ cl2[v] = cl[v] /\ uq2[v] = uq[v] /\ cm2[v] = cm[v]
                             /\ v \in cg2 <=> v \in cg
                             /\ rn2[v] = rn[v]
    /\ tm \subseteq tm2
    /\ cl2[u].callId \in {cl[u].callId, NoCall}
    /\ cl2[u].state = "Ringing" => cl[u].state = "Ringing" /\ cl2[u].callId = cl[u].callId
    /\ cl2[u] # CallContext => (Forgets(u, cm, cg) => Forgets(u, cm2, cg2))
    /\ \A k \in 1 .. Len(uq2[u]) :
          \/ \E j \in 1 .. Len(uq[u]) : uq2[u][k] = uq[u][j]
          \/ /\ uq2[u][k].call \in {cl[u].callId, NoCall}
             /\ /\ uq2[u][k].type \in {"call.reject", "call.hangup"}
                /\ cl2[u].callId # NoCall /\ Watched(u, rn2, tm2)
                => Forgets(u, cm2, cg2)
    /\ rn2[u] = rn[u] \/ rn2[u] # "running" \/ u \in tm2
    /\ rn2[u] = "offline" => rn[u] = "offline" \/ u \in tm2

LEMMA LocalKeeps ==
    ASSUME NEW ss, NEW is, NEW cl, NEW uq, NEW dn, NEW pd, NEW cm, NEW cg, NEW rn, NEW tm,
           NEW cl2, NEW uq2, NEW cm2, NEW cg2, NEW rn2, NEW tm2, NEW u \in User,
           DOMAIN ss \subseteq is, NoCall \notin is, pd \in [Thread -> Seq(Post)],
           LocalStep(u, cl, uq, cm, cg, rn, tm, cl2, uq2, cm2, cg2, rn2, tm2),
           Ring(ss, is, cl, uq, dn, pd, cm, cg, rn, tm)
    PROVE  Ring(ss, is, cl2, uq2, dn, pd, cm2, cg2, rn2, tm2)
<1>0. \A v \in User : cl2[v] # CallContext => (Forgets(v, cm, cg) => Forgets(v, cm2, cg2))
  BY DEF LocalStep, Forgets
<1>9. \A v \in User : cl2[v].callId # NoCall =>
          cl2[v] # CallContext /\ cl2[v].callId = cl[v].callId
  BY DEF LocalStep, CallContext
<1>1. \A v \in User : Watched(v, rn2, tm2) => Watched(v, rn, tm)
  BY DEF LocalStep, Watched
<1>2. OfflineOK(rn2, tm2)
  BY DEF LocalStep, Ring, OfflineOK
<1>3. MentionOK(is, cl2, uq2, dn, pd)
  <2>1. ASSUME NEW v \in User
        PROVE  /\ cl2[v].callId \in is \cup {NoCall}
               /\ \A k \in 1 .. Len(uq2[v]) : uq2[v][k].call \in is \cup {NoCall}
    <3>1. /\ cl[v].callId \in is \cup {NoCall}
          /\ \A k \in 1 .. Len(uq[v]) : uq[v][k].call \in is \cup {NoCall}
      BY DEF Ring, MentionOK
    <3>2. CASE v = u
      BY <3>1, <3>2 DEF LocalStep
    <3>3. CASE v # u
      BY <3>1, <3>3 DEF LocalStep
    <3> QED BY <3>2, <3>3
  <2> QED BY <2>1 DEF Ring, MentionOK
<1>4. \A v \in User, c \in is : Unnamed(v, c, cl, uq) => Unnamed(v, c, cl2, uq2)
  <2> SUFFICES ASSUME NEW v \in User, NEW c \in is, Unnamed(v, c, cl, uq)
               PROVE  Unnamed(v, c, cl2, uq2)
    OBVIOUS
  <2>1. CASE v = u
    BY <2>1 DEF LocalStep, Unnamed
  <2>2. CASE v # u
    BY <2>2 DEF LocalStep, Unnamed
  <2> QED BY <2>1, <2>2
<1>5. NamesOK(cl2, uq2, dn, pd)
  <2>1. \A v \in User : \A i \in 1 .. Len(dn[v]) : dn[v][i].type \in News =>
           Unnamed(v, dn[v][i].call, cl2, uq2)
    BY <1>4 DEF Ring, NamesOK, NewsDown, NewsPending, MentionOK
  <2>2. ASSUME NEW t \in Thread, NEW i \in 1 .. Len(pd[t]), pd[t][i].msg.type \in News
        PROVE  Unnamed(pd[t][i].to, pd[t][i].msg.call, cl2, uq2)
    <3>1. pd[t][i].to \in User
      BY PostTyped
    <3>2. pd[t][i].msg.call \in is
      BY <2>2 DEF Ring, PendingOK
    <3>3. Unnamed(pd[t][i].to, pd[t][i].msg.call, cl, uq)
      BY <2>2 DEF Ring, NamesOK, NewsDown, NewsPending
    <3> QED BY <1>4, <3>1, <3>2, <3>3
  <2> QED BY <2>1, <2>2 DEF Ring, NamesOK, NewsDown, NewsPending
<1>6. DownOK(ss, dn, pd, rn2, tm2)
  BY <1>1 DEF Ring, DownOK
<1>7. RingOK(ss, cl2, cm2, cg2, dn, pd, rn2, tm2)
  <2> SUFFICES ASSUME NEW v \in User, cl2[v].state = "Ringing", Watched(v, rn2, tm2)
               PROVE  \/ /\ cl2[v].callId \in DOMAIN ss
                         /\ ss[cl2[v].callId].calleeId = v
                         /\ \A k \in 1 .. Len(dn[v]) : dn[v][k].type # "call.created"
                      \/ EndComes(v, 0, dn, pd)
                      \/ Forgets(v, cm2, cg2)
    BY DEF RingOK
  <2>1. cl2[v] # CallContext
    BY DEF CallContext
  <2>2. cl[v].state = "Ringing" /\ cl2[v].callId = cl[v].callId
    BY DEF LocalStep
  <2>3. Watched(v, rn, tm)
    BY <1>1
  <2> QED BY <1>0, <2>1, <2>2, <2>3 DEF Ring, RingOK
<1>8. AskedOK(cl2, uq2, cm2, cg2, rn2, tm2)
  <2> SUFFICES ASSUME NEW v \in User, NEW k \in 1 .. Len(uq2[v]),
                      uq2[v][k].type \in {"call.reject", "call.hangup"},
                      cl2[v].callId # NoCall, cl2[v].callId = uq2[v][k].call,
                      Watched(v, rn2, tm2)
               PROVE  Forgets(v, cm2, cg2)
    BY DEF AskedOK
  <2>1. /\ cl2[v].callId = cl[v].callId /\ Watched(v, rn, tm)
        /\ Forgets(v, cm, cg) => Forgets(v, cm2, cg2)
    BY <1>0, <1>1, <1>9
  <2>2. CASE v # u
    BY <2>1, <2>2 DEF LocalStep, Ring, AskedOK
  <2>3. ASSUME v = u, NEW j \in 1 .. Len(uq[u]), uq2[u][k] = uq[u][j]
        PROVE  Forgets(v, cm2, cg2)
    BY <2>1, <2>3 DEF Ring, AskedOK
  <2> QED BY <2>2, <2>3 DEF LocalStep
<1>10. CalledOK(ss, cl2, cm2, cg2, dn, pd, rn2, tm2)
  <2> SUFFICES ASSUME NEW v \in User, cl2[v].callId # NoCall, Watched(v, rn2, tm2)
               PROVE  \/ cl2[v].callId \in DOMAIN ss /\ v \in Parties(ss[cl2[v].callId])
                      \/ EndComes(v, 0, dn, pd)
                      \/ Forgets(v, cm2, cg2)
    BY DEF CalledOK
  <2>1. /\ cl2[v].callId = cl[v].callId /\ Watched(v, rn, tm)
        /\ Forgets(v, cm, cg) => Forgets(v, cm2, cg2)
    BY <1>0, <1>1, <1>9
  <2> QED BY <2>1 DEF Ring, CalledOK
<1>11. NewsOK(ss, dn, pd, rn2, tm2)
  BY <1>1 DEF Ring, NewsOK
<1> QED BY <1>2, <1>3, <1>5, <1>6, <1>7, <1>8, <1>10, <1>11 DEF Ring

(* What is lost on the way to a client that is no longer watched. *)
LEMMA LostKeeps ==
    ASSUME NEW ss, NEW is, NEW cl, NEW uq, NEW dn, NEW pd, NEW cm, NEW cg, NEW rn, NEW tm,
           NEW dn2, NEW u \in User, dn \in [User -> Seq(Wire)],
           dn2 = [dn EXCEPT ![u] = <<>>], ~Watched(u, rn, tm), pd \in [Thread -> Seq(Post)],
           Ring(ss, is, cl, uq, dn, pd, cm, cg, rn, tm)
    PROVE  Ring(ss, is, cl, uq, dn2, pd, cm, cg, rn, tm)
<1>1. /\ \A v \in User \ {u} : dn2[v] = dn[v]
      /\ Len(dn2[u]) = 0
  OBVIOUS
<1>2. \A v \in User : dn2[v] = dn[v] \/ \A i \in 1 .. Len(dn2[v]) : FALSE
  BY <1>1
<1>3. MentionOK(is, cl, uq, dn2, pd)
  BY <1>2 DEF Ring, MentionOK
<1>4. NamesOK(cl, uq, dn2, pd)
  <2>1. \A v \in User : \A i \in 1 .. Len(dn2[v]) : dn2[v][i].type \in News =>
          /\ Unnamed(v, dn2[v][i].call, cl, uq)
          /\ \A k \in 1 .. Len(dn2[v]) :
                dn2[v][k].type \in News /\ dn2[v][k].call = dn2[v][i].call => k = i
    BY <1>2 DEF Ring, NamesOK, NewsDown, NewsPending
  <2>2. ASSUME NEW t \in Thread, NEW i \in 1 .. Len(pd[t]), pd[t][i].msg.type \in News
        PROVE  /\ Unnamed(pd[t][i].to, pd[t][i].msg.call, cl, uq)
               /\ \A k \in 1 .. Len(dn2[pd[t][i].to]) : dn2[pd[t][i].to][k].type \in News =>
                     dn2[pd[t][i].to][k].call # pd[t][i].msg.call
    <3>1. /\ Unnamed(pd[t][i].to, pd[t][i].msg.call, cl, uq)
          /\ \A k \in 1 .. Len(dn[pd[t][i].to]) : dn[pd[t][i].to][k].type \in News =>
                dn[pd[t][i].to][k].call # pd[t][i].msg.call
      BY <2>2 DEF Ring, NamesOK, NewsPending
    <3>2. pd[t][i].to \in User
      BY PostTyped
    <3> QED BY <1>2, <3>1, <3>2
  <2> QED BY <2>1, <2>2 DEF Ring, NamesOK, NewsDown, NewsPending
<1>5. \A v \in User, i \in Nat : dn2[v] = dn[v] => (EndComes(v, i, dn, pd) <=> EndComes(v, i, dn2, pd))
  BY DEF EndComes
<1>6. DownOK(ss, dn2, pd, rn, tm)
  <2> SUFFICES ASSUME NEW v \in User, NEW i \in 1 .. Len(dn2[v]), dn2[v][i].type = "call.incoming"
               PROVE  /\ dn2[v][i].call \in DOMAIN ss => ss[dn2[v][i].call].calleeId = v
                      /\ Watched(v, rn, tm) =>
                            \/ /\ dn2[v][i].call \in DOMAIN ss
                               /\ \A k \in (i + 1) .. Len(dn2[v]) : dn2[v][k].type # "call.created"
                            \/ EndComes(v, i, dn2, pd)
    BY DEF DownOK
  <2>1. dn2[v] = dn[v] /\ i \in 1 .. Len(dn[v]) /\ i \in Nat
    BY <1>2
  <2> QED BY <1>5, <2>1 DEF Ring, DownOK
<1>7. RingOK(ss, cl, cm, cg, dn2, pd, rn, tm)
  <2> SUFFICES ASSUME NEW v \in User, cl[v].state = "Ringing", Watched(v, rn, tm)
               PROVE  \/ /\ cl[v].callId \in DOMAIN ss
                         /\ ss[cl[v].callId].calleeId = v
                         /\ \A k \in 1 .. Len(dn2[v]) : dn2[v][k].type # "call.created"
                      \/ EndComes(v, 0, dn2, pd)
                      \/ Forgets(v, cm, cg)
    BY DEF RingOK
  <2>1. dn2[v] = dn[v]
    BY <1>1
  <2> QED BY <1>5, <2>1 DEF Ring, RingOK
<1>8. NewsOK(ss, dn2, pd, rn, tm)
  <2> SUFFICES ASSUME NEW v \in User, NEW i \in 1 .. Len(dn2[v]), dn2[v][i].type \in News
               PROVE  /\ dn2[v][i].call \in DOMAIN ss => v \in Parties(ss[dn2[v][i].call])
                      /\ Watched(v, rn, tm) =>
                            dn2[v][i].call \in DOMAIN ss \/ EndComes(v, i, dn2, pd)
    BY DEF NewsOK
  <2>1. dn2[v] = dn[v] /\ i \in 1 .. Len(dn[v]) /\ i \in Nat
    BY <1>2
  <2> QED BY <1>5, <2>1 DEF Ring, NewsOK
<1>9. CalledOK(ss, cl, cm, cg, dn2, pd, rn, tm)
  <2> SUFFICES ASSUME NEW v \in User, cl[v].callId # NoCall, Watched(v, rn, tm)
               PROVE  \/ cl[v].callId \in DOMAIN ss /\ v \in Parties(ss[cl[v].callId])
                      \/ EndComes(v, 0, dn2, pd)
                      \/ Forgets(v, cm, cg)
    BY DEF CalledOK
  <2>1. dn2[v] = dn[v]
    BY <1>1
  <2> QED BY <1>5, <2>1 DEF Ring, CalledOK
<1> QED BY <1>3, <1>4, <1>6, <1>7, <1>8, <1>9 DEF Ring

----------------------------------------------------------------------------
(* A client takes a message from its queue.                                 *)

\* What handle does with the call: news names it, nothing else changes it.
\* A client to which an end comes has forgotten its call before.
PopStep(u, m, cl, cl2) ==
    /\ \A v \in User \ {u} : cl2[v] = cl[v]
    /\ m.type \notin News => cl2[u] = cl[u]
    /\ m.type \in Ending => cl[u].state # "Ringing" /\ cl[u].callId = NoCall
    /\ m.type \in News => cl2[u].callId = m.call
    /\ m.type = "call.created" => cl2[u].state = cl[u].state

LEMMA PopShifts ==
    ASSUME NEW dn \in [User -> Seq(Wire)], NEW u \in User, dn[u] # <<>>, NEW dn2,
           dn2 = [dn EXCEPT ![u] = Tail(dn[u])]
    PROVE  /\ dn2 \in [User -> Seq(Wire)]
           /\ Len(dn[u]) \in Nat \ {0} /\ Len(dn2[u]) = Len(dn[u]) - 1
           /\ Head(dn[u]) = dn[u][1] /\ Head(dn[u]) \in Wire
           /\ \A i \in 1 .. Len(dn2[u]) : dn2[u][i] = dn[u][i + 1]
           /\ \A v \in User \ {u} : dn2[v] = dn[v]
<1>1. dn[u] \in Seq(Wire) /\ dn[u] # <<>>
  OBVIOUS
<1>2. /\ Tail(dn[u]) \in Seq(Wire) /\ Len(Tail(dn[u])) = Len(dn[u]) - 1
      /\ Head(dn[u]) \in Wire
      /\ \A i \in 1 .. Len(Tail(dn[u])) : Tail(dn[u])[i] = dn[u][i + 1]
  BY <1>1, HeadTailProperties
<1>3. Len(dn[u]) \in Nat \ {0}
  BY <1>1, EmptySeq
<1>4. dn2[u] = Tail(dn[u]) /\ \A v \in User \ {u} : dn2[v] = dn[v]
  OBVIOUS
<1>5. dn2 \in [User -> Seq(Wire)]
  BY <1>2
<1>6. Head(dn[u]) = dn[u][1]
  BY <1>1
<1> QED BY <1>2, <1>3, <1>4, <1>5, <1>6

LEMMA PopKeeps ==
    ASSUME NEW ss, NEW is, NEW cl, NEW uq, NEW dn, NEW pd, NEW cm, NEW cg, NEW rn, NEW tm,
           NEW cl2, NEW dn2, NEW u \in User,
           DOMAIN ss \subseteq is, NoCall \notin is, pd \in [Thread -> Seq(Post)],
           dn \in [User -> Seq(Wire)], dn[u] # <<>>,
           dn2 = [dn EXCEPT ![u] = Tail(dn[u])],
           PopStep(u, Head(dn[u]), cl, cl2),
           Ring(ss, is, cl, uq, dn, pd, cm, cg, rn, tm)
    PROVE  Ring(ss, is, cl2, uq, dn2, pd, cm, cg, rn, tm)
<1> DEFINE m == Head(dn[u])
<1>1. /\ dn2 \in [User -> Seq(Wire)]
      /\ Len(dn[u]) \in Nat \ {0} /\ Len(dn2[u]) = Len(dn[u]) - 1
      /\ m = dn[u][1] /\ 1 \in 1 .. Len(dn[u])
      /\ \A i \in 1 .. Len(dn2[u]) : i + 1 \in 2 .. Len(dn[u]) /\ dn2[u][i] = dn[u][i + 1]
      /\ \A i \in 2 .. Len(dn[u]) : i - 1 \in 1 .. Len(dn2[u]) /\ dn2[u][i - 1] = dn[u][i]
      /\ \A v \in User \ {u} : dn2[v] = dn[v]
  <2>1. /\ dn2 \in [User -> Seq(Wire)]
        /\ Len(dn[u]) \in Nat \ {0} /\ Len(dn2[u]) = Len(dn[u]) - 1
        /\ m = dn[u][1]
        /\ \A i \in 1 .. Len(dn2[u]) : dn2[u][i] = dn[u][i + 1]
        /\ \A v \in User \ {u} : dn2[v] = dn[v]
    BY PopShifts
  <2> HIDE DEF m
  <2> QED BY <2>1
<1> HIDE DEF m
<1>2. PopStep(u, m, cl, cl2)
  BY DEF m
<1>3. m.type \in News => m.call \in is
  BY <1>1 DEF Ring, MentionOK
<1>4. \A v \in User : \A i \in 1 .. Len(dn2[v]) : \E j \in 1 .. Len(dn[v]) : dn2[v][i] = dn[v][j]
  <2> TAKE v \in User
  <2>1. CASE v = u
    BY <1>1, <2>1
  <2>2. CASE v # u
    BY <1>1, <2>2
  <2> QED BY <2>1, <2>2
<1>5. MentionOK(is, cl2, uq, dn2, pd)
  <2>1. \A v \in User : cl2[v].callId \in is \cup {NoCall}
    BY <1>2, <1>3 DEF PopStep, Ring, MentionOK
  <2>2. ASSUME NEW v \in User, NEW i \in 1 .. Len(dn2[v])
        PROVE  /\ dn2[v][i].call \in is \cup {NoCall}
               /\ dn2[v][i].type \in News => dn2[v][i].call \in is
    BY <1>4 DEF Ring, MentionOK
  <2> QED BY <2>1, <2>2 DEF Ring, MentionOK
<1>6. \A v \in User : \A c :
          Unnamed(v, c, cl, uq) /\ ~(v = u /\ m.type \in News /\ m.call = c)
          => Unnamed(v, c, cl2, uq)
  <2> SUFFICES ASSUME NEW v \in User, NEW c, Unnamed(v, c, cl, uq),
                      ~(v = u /\ m.type \in News /\ m.call = c)
               PROVE  cl2[v].callId # c
    BY DEF Unnamed
  <2>1. CASE v = u
    BY <1>2, <2>1 DEF PopStep, Unnamed
  <2>2. CASE v # u
    BY <1>2, <2>2 DEF PopStep, Unnamed
  <2> QED BY <2>1, <2>2
<1>7. NamesOK(cl2, uq, dn2, pd)
  <2>1. ASSUME NEW v \in User, NEW i \in 1 .. Len(dn2[v]), dn2[v][i].type \in News
        PROVE  /\ Unnamed(v, dn2[v][i].call, cl2, uq)
               /\ \A k \in 1 .. Len(dn2[v]) :
                     dn2[v][k].type \in News /\ dn2[v][k].call = dn2[v][i].call => k = i
    <3>1. CASE v # u
      <4>1. dn2[v] = dn[v]
        BY <1>1, <3>1
      <4>2. /\ Unnamed(v, dn[v][i].call, cl, uq)
            /\ \A k \in 1 .. Len(dn[v]) :
                     dn[v][k].type \in News /\ dn[v][k].call = dn[v][i].call => k = i
        BY <2>1, <4>1 DEF Ring, NamesOK, NewsDown, NewsPending
      <4> QED BY <1>6, <3>1, <4>1, <4>2
    <3>2. CASE v = u
      <4>1. i + 1 \in 2 .. Len(dn[u]) /\ dn2[u][i] = dn[u][i + 1] /\ i + 1 \in 1 .. Len(dn[u])
        BY <1>1, <3>2
      <4>2. /\ Unnamed(u, dn2[u][i].call, cl, uq)
            /\ \A k \in 1 .. Len(dn[u]) :
                     dn[u][k].type \in News /\ dn[u][k].call = dn2[u][i].call => k = i + 1
        BY <2>1, <3>2, <4>1 DEF Ring, NamesOK, NewsDown, NewsPending
      <4>3. ~(m.type \in News /\ m.call = dn2[u][i].call)
        BY <1>1, <4>1, <4>2
      <4>4. Unnamed(u, dn2[u][i].call, cl2, uq)
        BY <1>6, <4>2, <4>3
      <4>5. ASSUME NEW k \in 1 .. Len(dn2[u]), dn2[u][k].type \in News,
                   dn2[u][k].call = dn2[u][i].call
            PROVE  k = i
        <5>1. k + 1 \in 1 .. Len(dn[u]) /\ dn2[u][k] = dn[u][k + 1]
          BY <1>1
        <5>2. k + 1 = i + 1
          BY <4>2, <4>5, <5>1
        <5> QED BY <3>2, <5>2
      <4> QED BY <3>2, <4>4, <4>5
    <3> QED BY <3>1, <3>2
  <2>2. ASSUME NEW t \in Thread, NEW i \in 1 .. Len(pd[t]), pd[t][i].msg.type \in News
        PROVE  /\ Unnamed(pd[t][i].to, pd[t][i].msg.call, cl2, uq)
               /\ \A k \in 1 .. Len(dn2[pd[t][i].to]) : dn2[pd[t][i].to][k].type \in News =>
                     dn2[pd[t][i].to][k].call # pd[t][i].msg.call
    <3> DEFINE v == pd[t][i].to
               c == pd[t][i].msg.call
    <3>1. v \in User
      BY PostTyped
    <3>2. /\ Unnamed(v, c, cl, uq)
          /\ \A k \in 1 .. Len(dn[v]) : dn[v][k].type \in News => dn[v][k].call # c
      BY <2>2 DEF Ring, NamesOK, NewsDown, NewsPending
    <3> HIDE DEF v, c
    <3>3. ~(v = u /\ m.type \in News /\ m.call = c)
      BY <1>1, <3>2
    <3>4. Unnamed(v, c, cl2, uq)
      BY <1>6, <3>1, <3>2, <3>3
    <3>5. \A k \in 1 .. Len(dn2[v]) : dn2[v][k].type \in News => dn2[v][k].call # c
      BY <1>4, <3>1, <3>2
    <3> QED BY <3>4, <3>5 DEF v, c
  <2> QED BY <2>1, <2>2 DEF Ring, NamesOK, NewsDown, NewsPending
<1>8. ASSUME NEW i \in 1 .. Len(dn[u]), EndComes(u, i, dn, pd)
      PROVE  EndComes(u, i - 1, dn2, pd)
  <2>1. ASSUME NEW k \in (i + 1) .. Len(dn[u]), dn[u][k].type \in Ending
        PROVE  EndComes(u, i - 1, dn2, pd)
    <3>1. k \in 2 .. Len(dn[u])
      BY <1>1
    <3>2. k - 1 \in ((i - 1) + 1) .. Len(dn2[u]) /\ dn2[u][k - 1].type \in Ending
      BY <1>1, <2>1, <3>1
    <3> QED BY <3>2 DEF EndComes
  <2> QED BY <1>8, <2>1 DEF EndComes
<1>9. DownOK(ss, dn2, pd, rn, tm)
  <2> SUFFICES ASSUME NEW v \in User, NEW i \in 1 .. Len(dn2[v]), dn2[v][i].type = "call.incoming"
               PROVE  /\ dn2[v][i].call \in DOMAIN ss => ss[dn2[v][i].call].calleeId = v
                      /\ Watched(v, rn, tm) =>
                            \/ /\ dn2[v][i].call \in DOMAIN ss
                               /\ \A k \in (i + 1) .. Len(dn2[v]) : dn2[v][k].type # "call.created"
                            \/ EndComes(v, i, dn2, pd)
    BY DEF DownOK
  <2>1. CASE v # u
    <3>1. dn2[v] = dn[v] /\ (EndComes(v, i, dn, pd) => EndComes(v, i, dn2, pd))
      BY <1>1, <2>1 DEF EndComes
    <3> QED BY <3>1 DEF Ring, DownOK
  <2>2. CASE v = u
    <3>1. /\ i + 1 \in 1 .. Len(dn[u]) /\ dn2[u][i] = dn[u][i + 1] /\ i \in Nat
          /\ dn[u][i + 1].type = "call.incoming"
      BY <1>1, <2>2
    <3>2. /\ dn2[u][i].call \in DOMAIN ss => ss[dn2[u][i].call].calleeId = u
          /\ Watched(u, rn, tm) =>
                \/ /\ dn2[u][i].call \in DOMAIN ss
                   /\ \A k \in ((i + 1) + 1) .. Len(dn[u]) : dn[u][k].type # "call.created"
                \/ EndComes(u, i + 1, dn, pd)
      BY <3>1 DEF Ring, DownOK
    <3>3. ASSUME \A k \in ((i + 1) + 1) .. Len(dn[u]) : dn[u][k].type # "call.created",
                 NEW k \in (i + 1) .. Len(dn2[u])
          PROVE  dn2[u][k].type # "call.created"
      <4>1. k + 1 \in ((i + 1) + 1) .. Len(dn[u]) /\ k \in 1 .. Len(dn2[u])
        BY <1>1, <3>1
      <4> QED BY <1>1, <3>3, <4>1
    <3>4. EndComes(u, i + 1, dn, pd) => EndComes(u, i, dn2, pd)
      <4>1. (i + 1) - 1 = i
        BY <3>1
      <4> QED BY <1>8, <3>1, <4>1
    <3> QED BY <2>2, <3>2, <3>3, <3>4
  <2> QED BY <2>1, <2>2
<1>10. RingOK(ss, cl2, cm, cg, dn2, pd, rn, tm)
  <2> SUFFICES ASSUME NEW v \in User, cl2[v].state = "Ringing", Watched(v, rn, tm)
               PROVE  \/ /\ cl2[v].callId \in DOMAIN ss
                         /\ ss[cl2[v].callId].calleeId = v
                         /\ \A k \in 1 .. Len(dn2[v]) : dn2[v][k].type # "call.created"
                      \/ EndComes(v, 0, dn2, pd)
                      \/ Forgets(v, cm, cg)
    BY DEF RingOK
  <2>1. CASE v # u
    <3>1. dn2[v] = dn[v] /\ cl2[v] = cl[v] /\ (EndComes(v, 0, dn, pd) => EndComes(v, 0, dn2, pd))
      BY <1>1, <1>2, <2>1 DEF EndComes, PopStep
    <3> QED BY <3>1 DEF Ring, RingOK
  <2>2. CASE v = u /\ m.type = "call.incoming"
    <3>1. cl2[u].callId = m.call
      BY <1>2, <2>2 DEF PopStep, News
    <3>2. \/ /\ m.call \in DOMAIN ss /\ ss[m.call].calleeId = u
             /\ \A k \in (1 + 1) .. Len(dn[u]) : dn[u][k].type # "call.created"
          \/ EndComes(u, 1, dn, pd)
      BY <1>1, <2>2 DEF Ring, DownOK
    <3>3. EndComes(u, 1, dn, pd) => EndComes(u, 0, dn2, pd)
      <4>1. 1 - 1 = 0
        OBVIOUS
      <4> QED BY <1>1, <1>8, <4>1
    <3>4. (\A k \in (1 + 1) .. Len(dn[u]) : dn[u][k].type # "call.created")
          => \A k \in 1 .. Len(dn2[u]) : dn2[u][k].type # "call.created"
      BY <1>1
    <3> QED BY <2>2, <3>1, <3>2, <3>3, <3>4
  <2>3. CASE v = u /\ m.type # "call.incoming"
    <3>1. cl[u].state = "Ringing" /\ m.type \notin Ending
      BY <1>2, <2>3 DEF PopStep, News, Ending
    <3>2. \/ /\ cl[u].callId \in DOMAIN ss /\ ss[cl[u].callId].calleeId = u
             /\ \A k \in 1 .. Len(dn[u]) : dn[u][k].type # "call.created"
          \/ EndComes(u, 0, dn, pd)
          \/ Forgets(u, cm, cg)
      BY <2>3, <3>1 DEF Ring, RingOK
    <3>3. EndComes(u, 0, dn, pd) => EndComes(u, 0, dn2, pd)
      <4>1. ASSUME NEW k \in (0 + 1) .. Len(dn[u]), dn[u][k].type \in Ending
            PROVE  \E j \in (0 + 1) .. Len(dn2[u]) : dn2[u][j].type \in Ending
        <5>1. k \in 2 .. Len(dn[u])
          BY <1>1, <3>1, <4>1
        <5>2. k - 1 \in (0 + 1) .. Len(dn2[u])
          BY <1>1, <5>1
        <5> QED BY <1>1, <4>1, <5>1, <5>2
      <4> QED BY <4>1 DEF EndComes
    <3>4. (\A k \in 1 .. Len(dn[u]) : dn[u][k].type # "call.created")
          => (cl2[u] = cl[u] /\ \A k \in 1 .. Len(dn2[u]) : dn2[u][k].type # "call.created")
      <4>1. ASSUME \A k \in 1 .. Len(dn[u]) : dn[u][k].type # "call.created"
            PROVE  m.type \notin News
        BY <1>1, <2>3, <4>1 DEF News
      <4>2. m.type \notin News => cl2[u] = cl[u]
        BY <1>2 DEF PopStep
      <4> QED BY <1>4, <4>1, <4>2
    <3> QED BY <2>3, <3>2, <3>3, <3>4
  <2> QED BY <2>1, <2>2, <2>3
<1>11. AskedOK(cl2, uq, cm, cg, rn, tm)
  <2> SUFFICES ASSUME NEW v \in User, NEW k \in 1 .. Len(uq[v]),
                      uq[v][k].type \in {"call.reject", "call.hangup"},
                      cl2[v].callId # NoCall, cl2[v].callId = uq[v][k].call,
                      Watched(v, rn, tm)
               PROVE  Forgets(v, cm, cg)
    BY DEF AskedOK
  <2>1. CASE v = u /\ m.type \in News
    <3>1. Unnamed(u, m.call, cl, uq) /\ cl2[u].callId = m.call
      BY <1>1, <1>2, <2>1 DEF Ring, NamesOK, NewsDown, NewsPending, PopStep
    <3> QED BY <2>1, <3>1 DEF Unnamed
  <2>2. CASE ~(v = u /\ m.type \in News)
    <3>1. cl2[v] = cl[v]
      BY <1>2, <2>2 DEF PopStep
    <3> QED BY <3>1 DEF Ring, AskedOK
  <2> QED BY <2>1, <2>2
<1>12. NewsOK(ss, dn2, pd, rn, tm)
  <2> SUFFICES ASSUME NEW v \in User, NEW i \in 1 .. Len(dn2[v]), dn2[v][i].type \in News
               PROVE  /\ dn2[v][i].call \in DOMAIN ss => v \in Parties(ss[dn2[v][i].call])
                      /\ Watched(v, rn, tm) =>
                            dn2[v][i].call \in DOMAIN ss \/ EndComes(v, i, dn2, pd)
    BY DEF NewsOK
  <2>1. CASE v # u
    <3>1. dn2[v] = dn[v] /\ (EndComes(v, i, dn, pd) => EndComes(v, i, dn2, pd))
      BY <1>1, <2>1 DEF EndComes
    <3> QED BY <3>1 DEF Ring, NewsOK
  <2>2. CASE v = u
    <3>1. /\ i + 1 \in 1 .. Len(dn[u]) /\ dn2[u][i] = dn[u][i + 1] /\ i \in Nat
          /\ dn[u][i + 1].type \in News
      BY <1>1, <2>2
    <3>2. /\ dn2[u][i].call \in DOMAIN ss => u \in Parties(ss[dn2[u][i].call])
          /\ Watched(u, rn, tm) => dn2[u][i].call \in DOMAIN ss \/ EndComes(u, i + 1, dn, pd)
      BY <3>1 DEF Ring, NewsOK
    <3>3. EndComes(u, i + 1, dn, pd) => EndComes(u, i, dn2, pd)
      <4>1. (i + 1) - 1 = i
        BY <3>1
      <4> QED BY <1>8, <3>1, <4>1
    <3> QED BY <2>2, <3>2, <3>3
  <2> QED BY <2>1, <2>2
<1>13. CalledOK(ss, cl2, cm, cg, dn2, pd, rn, tm)
  <2> SUFFICES ASSUME NEW v \in User, cl2[v].callId # NoCall, Watched(v, rn, tm)
               PROVE  \/ cl2[v].callId \in DOMAIN ss /\ v \in Parties(ss[cl2[v].callId])
                      \/ EndComes(v, 0, dn2, pd)
                      \/ Forgets(v, cm, cg)
    BY DEF CalledOK
  <2>1. CASE v # u
    <3>1. dn2[v] = dn[v] /\ cl2[v] = cl[v] /\ (EndComes(v, 0, dn, pd) => EndComes(v, 0, dn2, pd))
      BY <1>1, <1>2, <2>1 DEF EndComes, PopStep
    <3> QED BY <3>1 DEF Ring, CalledOK
  <2>2. CASE v = u /\ m.type \in News
    <3>1. cl2[u].callId = m.call
      BY <1>2, <2>2 DEF PopStep
    <3>2. \/ m.call \in DOMAIN ss /\ u \in Parties(ss[m.call])
          \/ EndComes(u, 1, dn, pd)
      BY <1>1, <2>2 DEF Ring, NewsOK
    <3>3. EndComes(u, 1, dn, pd) => EndComes(u, 0, dn2, pd)
      <4>1. 1 - 1 = 0
        OBVIOUS
      <4> QED BY <1>1, <1>8, <4>1
    <3> QED BY <2>2, <3>1, <3>2, <3>3
  <2>3. CASE v = u /\ m.type \notin News
    <3>1. cl2[u] = cl[u] /\ m.type \notin Ending
      BY <1>2, <2>3 DEF PopStep
    <3>2. \/ cl[u].callId \in DOMAIN ss /\ u \in Parties(ss[cl[u].callId])
          \/ EndComes(u, 0, dn, pd)
          \/ Forgets(u, cm, cg)
      BY <2>3, <3>1 DEF Ring, CalledOK
    <3>3. EndComes(u, 0, dn, pd) => EndComes(u, 0, dn2, pd)
      <4>1. ASSUME NEW k \in (0 + 1) .. Len(dn[u]), dn[u][k].type \in Ending
            PROVE  \E j \in (0 + 1) .. Len(dn2[u]) : dn2[u][j].type \in Ending
        <5>1. k \in 2 .. Len(dn[u])
          BY <1>1, <3>1, <4>1
        <5>2. k - 1 \in (0 + 1) .. Len(dn2[u])
          BY <1>1, <5>1
        <5> QED BY <1>1, <4>1, <5>1, <5>2
      <4> QED BY <4>1 DEF EndComes
    <3> QED BY <2>3, <3>1, <3>2, <3>3
  <2> QED BY <2>1, <2>2, <2>3
<1> QED BY <1>5, <1>7, <1>9, <1>10, <1>11, <1>12, <1>13 DEF Ring

----------------------------------------------------------------------------
(* The backend's steps.                                                     *)

\* User u has asked for the end of call c.
Asks(u, c, uq) ==
    \E k \in 1 .. Len(uq[u]) : /\ uq[u][k].type \in {"call.reject", "call.hangup"}
                               /\ uq[u][k].call = c

\* A handler of thread t takes calls from the table, or none, and has msgs
\* to send.  A party of a call that goes is told, or has asked for it, and a
\* call that has just begun goes only if its caller or its callee asked.
TableStep(t, msgs, ss, ss2, is, uq) ==
    /\ DOMAIN ss2 \subseteq DOMAIN ss
    /\ \A c \in DOMAIN ss2 : /\ ss2[c].callerId = ss[c].callerId
                             /\ ss2[c].calleeId = ss[c].calleeId
                             /\ ss2[c].age = ss[c].age
    /\ \A c \in DOMAIN ss \ DOMAIN ss2 :
          /\ ss[c].age # 0 \/ ss[c].callerId = t \/ Asks(ss[c].calleeId, c, uq)
          /\ \A u \in Parties(ss[c]) :
                \/ \E i \in 1 .. Len(msgs) : msgs[i].to = u /\ msgs[i].msg.type \in Ending
                \/ Asks(u, c, uq)
    /\ \A i \in 1 .. Len(msgs) : msgs[i].msg.type \notin News /\ msgs[i].msg.call \in is \cup {NoCall}

LEMMA TableKeeps ==
    ASSUME NEW ss, NEW is, NEW cl, NEW uq, NEW dn, NEW pd, NEW cm, NEW cg, NEW rn, NEW tm,
           NEW ss2, NEW pd2, NEW t \in Thread, NEW msgs \in Seq(Post),
           DOMAIN ss \subseteq is, NoCall \notin is,
           pd \in [Thread -> Seq(Post)], pd[t] = <<>>, pd2 = [pd EXCEPT ![t] = msgs],
           TableStep(t, msgs, ss, ss2, is, uq),
           Ring(ss, is, cl, uq, dn, pd, cm, cg, rn, tm)
    PROVE  Ring(ss2, is, cl, uq, dn, pd2, cm, cg, rn, tm)
<1>1. pd2[t] = msgs /\ Len(pd[t]) = 0 /\ \A s \in Thread \ {t} : pd2[s] = pd[s]
  OBVIOUS
<1>2. \A s \in Thread : \A i \in 1 .. Len(pd2[s]) : pd2[s][i].msg.type \in News => s # t /\ pd2[s] = pd[s]
  BY <1>1 DEF TableStep
<1>3. \A u, i : EndComes(u, i, dn, pd) => EndComes(u, i, dn, pd2)
  <2> SUFFICES ASSUME NEW u, NEW i, NEW s \in Thread, NEW k \in 1 .. Len(pd[s]),
                      pd[s][k].to = u, pd[s][k].msg.type \in Ending
               PROVE  EndComes(u, i, dn, pd2)
    BY DEF EndComes
  <2>1. s # t
    BY <1>1
  <2>2. pd2[s] = pd[s]
    BY <1>1, <2>1
  <2> QED BY <2>2 DEF EndComes
<1>4. \A c \in DOMAIN ss \ DOMAIN ss2 : \A u \in Parties(ss[c]) :
          (\A i : EndComes(u, i, dn, pd2)) \/ Asks(u, c, uq)
  <2> SUFFICES ASSUME NEW c \in DOMAIN ss \ DOMAIN ss2, NEW u \in Parties(ss[c]),
                      NEW i \in 1 .. Len(msgs), msgs[i].to = u, msgs[i].msg.type \in Ending
               PROVE  \A j : EndComes(u, j, dn, pd2)
    BY DEF TableStep
  <2> QED BY <1>1 DEF EndComes
<1>5. PairsOK(ss2)
  BY DEF Ring, PairsOK, TableStep
<1>6. MentionOK(is, cl, uq, dn, pd2)
  <2>1. ASSUME NEW s \in Thread, NEW k \in 1 .. Len(pd2[s])
        PROVE  pd2[s][k].msg.call \in is \cup {NoCall}
    <3>1. CASE s = t
      BY <1>1, <3>1 DEF TableStep
    <3>2. CASE s # t
      BY <1>1, <3>2 DEF Ring, MentionOK
    <3> QED BY <3>1, <3>2
  <2> QED BY <2>1 DEF Ring, MentionOK
<1>7. NamesOK(cl, uq, dn, pd2)
  <2>1. NewsPending(cl, uq, dn, pd2)
    <3> SUFFICES ASSUME NEW s \in Thread, NEW i \in 1 .. Len(pd2[s]), pd2[s][i].msg.type \in News
                 PROVE  /\ Unnamed(pd2[s][i].to, pd2[s][i].msg.call, cl, uq)
                        /\ \A k \in 1 .. Len(dn[pd2[s][i].to]) : dn[pd2[s][i].to][k].type \in News =>
                              dn[pd2[s][i].to][k].call # pd2[s][i].msg.call
      BY DEF NewsPending
    <3>1. pd2[s] = pd[s]
      BY <1>2
    <3>2. /\ Unnamed(pd[s][i].to, pd[s][i].msg.call, cl, uq)
          /\ \A k \in 1 .. Len(dn[pd[s][i].to]) : dn[pd[s][i].to][k].type \in News =>
                dn[pd[s][i].to][k].call # pd[s][i].msg.call
      BY <3>1 DEF Ring, NamesOK, NewsPending
    <3> QED BY <3>1, <3>2
  <2>2. NewsOnce(pd2)
    BY <1>2 DEF Ring, NamesOK, NewsOnce
  <2> QED BY <2>1, <2>2 DEF Ring, NamesOK
<1>8. PendingOK(ss2, pd2)
  <2>1. ASSUME NEW s \in Thread, NEW i \in 1 .. Len(pd[s]), pd[s][i].msg.type = "call.incoming", s # t
        PROVE  pd[s][i].msg.call \in DOMAIN ss2
    <3> DEFINE c == pd[s][i].msg.call
    <3>1. /\ c \in DOMAIN ss /\ ss[c].callerId = s /\ ss[c].age = 0
          /\ pd[s][i].to = ss[c].calleeId
      BY <2>1 DEF Ring, PendingOK, News
    <3>2. Unnamed(ss[c].calleeId, c, cl, uq)
      BY <2>1, <3>1 DEF Ring, NamesOK, NewsPending, News
    <3> HIDE DEF c
    <3>3. ~Asks(ss[c].calleeId, c, uq)
      BY <3>2 DEF Asks, Unnamed
    <3>4. c \in DOMAIN ss2
      BY <2>1, <3>1, <3>3 DEF TableStep
    <3> QED BY <3>4 DEF c
  <2>2. ASSUME NEW s \in Thread, NEW i \in 1 .. Len(pd2[s]), pd2[s][i].msg.type \in News
        PROVE  LET m == pd2[s][i].msg
               IN  /\ m.call \in DOMAIN ss2
                   /\ ss2[m.call].callerId = s
                   /\ ss2[m.call].age = 0
                   /\ m.type = "call.created" => /\ pd2[s][i].to = s
                                                 /\ i + 1 \in 1 .. Len(pd2[s])
                                                 /\ pd2[s][i + 1].msg.type = "call.incoming"
                                                 /\ pd2[s][i + 1].msg.call = m.call
                   /\ m.type = "call.incoming" => pd2[s][i].to = ss2[m.call].calleeId
    <3>1. s # t /\ pd2[s] = pd[s]
      BY <1>2, <2>2
    <3> DEFINE m == pd[s][i].msg
    <3>2. /\ m.call \in DOMAIN ss /\ ss[m.call].callerId = s /\ ss[m.call].age = 0
          /\ m.type = "call.created" => /\ pd[s][i].to = s
                                        /\ i + 1 \in 1 .. Len(pd[s])
                                        /\ pd[s][i + 1].msg.type = "call.incoming"
                                        /\ pd[s][i + 1].msg.call = m.call
          /\ m.type = "call.incoming" => pd[s][i].to = ss[m.call].calleeId
      BY <2>2, <3>1 DEF Ring, PendingOK
    <3>3. m.call \in DOMAIN ss2
      BY <2>1, <2>2, <3>1, <3>2 DEF News
    <3> QED BY <3>1, <3>2, <3>3 DEF TableStep
  <2> QED BY <2>2 DEF PendingOK, News
<1>9. DownOK(ss2, dn, pd2, rn, tm)
  <2> SUFFICES ASSUME NEW u \in User, NEW i \in 1 .. Len(dn[u]), dn[u][i].type = "call.incoming"
               PROVE  /\ dn[u][i].call \in DOMAIN ss2 => ss2[dn[u][i].call].calleeId = u
                      /\ Watched(u, rn, tm) =>
                            \/ /\ dn[u][i].call \in DOMAIN ss2
                               /\ \A k \in (i + 1) .. Len(dn[u]) : dn[u][k].type # "call.created"
                            \/ EndComes(u, i, dn, pd2)
    BY DEF DownOK
  <2> DEFINE c == dn[u][i].call
  <2>1. /\ c \in DOMAIN ss => ss[c].calleeId = u
        /\ Watched(u, rn, tm) =>
              \/ /\ c \in DOMAIN ss
                 /\ \A k \in (i + 1) .. Len(dn[u]) : dn[u][k].type # "call.created"
              \/ EndComes(u, i, dn, pd)
    BY DEF Ring, DownOK
  <2>2. ~Asks(u, c, uq)
    BY DEF Ring, NamesOK, NewsDown, News, Unnamed, Asks
  <2>3. c \in DOMAIN ss /\ c \notin DOMAIN ss2 => EndComes(u, i, dn, pd2)
    BY <1>4, <2>1, <2>2 DEF Parties
  <2> QED BY <1>3, <2>1, <2>3 DEF TableStep
<1>11. \A u \in User : Watched(u, rn, tm) /\ cl[u].callId \in DOMAIN ss =>
          (Asks(u, cl[u].callId, uq) => Forgets(u, cm, cg))
  BY DEF Ring, AskedOK, Asks
<1>10. RingOK(ss2, cl, cm, cg, dn, pd2, rn, tm)
  <2> SUFFICES ASSUME NEW u \in User, cl[u].state = "Ringing", Watched(u, rn, tm)
               PROVE  \/ /\ cl[u].callId \in DOMAIN ss2
                         /\ ss2[cl[u].callId].calleeId = u
                         /\ \A k \in 1 .. Len(dn[u]) : dn[u][k].type # "call.created"
                      \/ EndComes(u, 0, dn, pd2)
                      \/ Forgets(u, cm, cg)
    BY DEF RingOK
  <2> DEFINE c == cl[u].callId
  <2>1. \/ /\ c \in DOMAIN ss /\ ss[c].calleeId = u
           /\ \A k \in 1 .. Len(dn[u]) : dn[u][k].type # "call.created"
        \/ EndComes(u, 0, dn, pd)
        \/ Forgets(u, cm, cg)
    BY DEF Ring, RingOK
  <2>2. Asks(u, c, uq) /\ c \in DOMAIN ss => Forgets(u, cm, cg)
    BY <1>11
  <2>3. c \in DOMAIN ss /\ ss[c].calleeId = u /\ c \notin DOMAIN ss2
        => EndComes(u, 0, dn, pd2) \/ Forgets(u, cm, cg)
    BY <1>4, <2>2 DEF Parties
  <2> QED BY <1>3, <2>1, <2>3 DEF TableStep
<1>12. NewsOK(ss2, dn, pd2, rn, tm)
  <2> SUFFICES ASSUME NEW u \in User, NEW i \in 1 .. Len(dn[u]), dn[u][i].type \in News
               PROVE  /\ dn[u][i].call \in DOMAIN ss2 => u \in Parties(ss2[dn[u][i].call])
                      /\ Watched(u, rn, tm) =>
                            dn[u][i].call \in DOMAIN ss2 \/ EndComes(u, i, dn, pd2)
    BY DEF NewsOK
  <2> DEFINE c == dn[u][i].call
  <2>1. /\ c \in DOMAIN ss => u \in Parties(ss[c])
        /\ Watched(u, rn, tm) => c \in DOMAIN ss \/ EndComes(u, i, dn, pd)
    BY DEF Ring, NewsOK
  <2>2. ~Asks(u, c, uq)
    BY DEF Ring, NamesOK, NewsDown, Unnamed, Asks
  <2>3. c \in DOMAIN ss /\ c \notin DOMAIN ss2 => EndComes(u, i, dn, pd2)
    BY <1>4, <2>1, <2>2
  <2>4. c \in DOMAIN ss2 => c \in DOMAIN ss /\ Parties(ss2[c]) = Parties(ss[c])
    BY DEF TableStep, Parties
  <2> QED BY <1>3, <2>1, <2>3, <2>4
<1>13. CalledOK(ss2, cl, cm, cg, dn, pd2, rn, tm)
  <2> SUFFICES ASSUME NEW u \in User, cl[u].callId # NoCall, Watched(u, rn, tm)
               PROVE  \/ cl[u].callId \in DOMAIN ss2 /\ u \in Parties(ss2[cl[u].callId])
                      \/ EndComes(u, 0, dn, pd2)
                      \/ Forgets(u, cm, cg)
    BY DEF CalledOK
  <2> DEFINE c == cl[u].callId
  <2>1. \/ c \in DOMAIN ss /\ u \in Parties(ss[c])
        \/ EndComes(u, 0, dn, pd)
        \/ Forgets(u, cm, cg)
    BY DEF Ring, CalledOK
  <2>2. Asks(u, c, uq) /\ c \in DOMAIN ss => Forgets(u, cm, cg)
    BY <1>11
  <2>3. c \in DOMAIN ss /\ u \in Parties(ss[c]) /\ c \notin DOMAIN ss2
        => EndComes(u, 0, dn, pd2) \/ Forgets(u, cm, cg)
    BY <1>4, <2>2
  <2>4. c \in DOMAIN ss2 => c \in DOMAIN ss /\ Parties(ss2[c]) = Parties(ss[c])
    BY DEF TableStep, Parties
  <2> QED BY <1>3, <2>1, <2>3, <2>4
<1> QED BY <1>5, <1>6, <1>7, <1>8, <1>9, <1>10, <1>12, <1>13 DEF Ring

(* Only ages change, and nothing is being sent. *)
LEMMA AgesKeep ==
    ASSUME NEW ss, NEW is, NEW cl, NEW uq, NEW dn, NEW pd, NEW cm, NEW cg, NEW rn, NEW tm,
           NEW ss2, \A t \in Thread : pd[t] = <<>>, DOMAIN ss2 = DOMAIN ss,
           \A c \in DOMAIN ss : /\ ss2[c].callerId = ss[c].callerId
                                /\ ss2[c].calleeId = ss[c].calleeId,
           Ring(ss, is, cl, uq, dn, pd, cm, cg, rn, tm)
    PROVE  Ring(ss2, is, cl, uq, dn, pd, cm, cg, rn, tm)
<1>1. PairsOK(ss2)
  BY DEF Ring, PairsOK
<1>2. PendingOK(ss2, pd)
  <2>1. \A t \in Thread : Len(pd[t]) = 0
    OBVIOUS
  <2> QED BY <2>1 DEF PendingOK
<1>3. DownOK(ss2, dn, pd, rn, tm)
  BY DEF Ring, DownOK
<1>4. RingOK(ss2, cl, cm, cg, dn, pd, rn, tm)
  BY DEF Ring, RingOK
<1>5. \A c \in DOMAIN ss : Parties(ss2[c]) = Parties(ss[c])
  BY DEF Parties
<1>6. NewsOK(ss2, dn, pd, rn, tm)
  BY <1>5 DEF Ring, NewsOK
<1>7. CalledOK(ss2, cl, cm, cg, dn, pd, rn, tm)
  BY <1>5 DEF Ring, CalledOK
<1> QED BY <1>1, <1>2, <1>3, <1>4, <1>6, <1>7 DEF Ring

\* A call begins, and its two parties are to hear of it.
BeginStep(u, v, c, ss, is, pd, ss2, is2, pd2) ==
    /\ is2 = is \cup {c} /\ DOMAIN ss2 = DOMAIN ss \cup {c}
    /\ \A d \in DOMAIN ss : ss2[d] = ss[d]
    /\ ss2[c].callerId = u /\ ss2[c].calleeId = v /\ ss2[c].age = 0
    /\ pd[u] = <<>>
    /\ pd2 = [pd EXCEPT ![u] = <<Tell(u, "call.created", c), Tell(v, "call.incoming", c)>>]

(* Nobody has named the call before. *)
LEMMA BeginKeeps ==
    ASSUME NEW ss, NEW is, NEW cl, NEW uq, NEW dn, NEW pd, NEW cm, NEW cg, NEW rn, NEW tm,
           NEW ss2, NEW is2, NEW pd2, NEW u \in User, NEW v \in User, u # v, NEW c, c \notin is,
           c # NoCall, DOMAIN ss \subseteq is, pd \in [Thread -> Seq(Post)],
           BeginStep(u, v, c, ss, is, pd, ss2, is2, pd2),
           Ring(ss, is, cl, uq, dn, pd, cm, cg, rn, tm)
    PROVE  Ring(ss2, is2, cl, uq, dn, pd2, cm, cg, rn, tm)
<1>0. /\ is2 = is \cup {c} /\ DOMAIN ss2 = DOMAIN ss \cup {c}
      /\ \A d \in DOMAIN ss : ss2[d] = ss[d]
      /\ ss2[c].callerId = u /\ ss2[c].calleeId = v /\ ss2[c].age = 0
  BY DEF BeginStep
<1>1. /\ u \in Thread /\ Len(pd[u]) = 0 /\ \A s \in Thread \ {u} : pd2[s] = pd[s]
      /\ Len(pd2[u]) = 2
      /\ pd2[u][1].to = u /\ pd2[u][1].msg.type = "call.created" /\ pd2[u][1].msg.call = c
      /\ pd2[u][2].to = v /\ pd2[u][2].msg.type = "call.incoming" /\ pd2[u][2].msg.call = c
  BY DEF BeginStep, Thread, Tell, To, Message
<1> USE <1>0
<1>2. \A i \in 1 .. Len(pd2[u]) : i = 1 \/ i = 2
  BY <1>1
<1>3. \A w, i : EndComes(w, i, dn, pd) => EndComes(w, i, dn, pd2)
  <2> SUFFICES ASSUME NEW w, NEW i, NEW s \in Thread, NEW k \in 1 .. Len(pd[s]),
                      pd[s][k].to = w, pd[s][k].msg.type \in Ending
               PROVE  EndComes(w, i, dn, pd2)
    BY DEF EndComes
  <2>1. s # u
    BY <1>1
  <2>2. pd2[s] = pd[s]
    BY <1>1, <2>1
  <2> QED BY <2>2 DEF EndComes
<1>4. \A w \in User : Unnamed(w, c, cl, uq)
  BY DEF Unnamed, Ring, MentionOK
<1>5. PairsOK(ss2)
  BY DEF Ring, PairsOK
<1>6. MentionOK(is2, cl, uq, dn, pd2)
  <2>1. ASSUME NEW s \in Thread, NEW k \in 1 .. Len(pd2[s])
        PROVE  pd2[s][k].msg.call \in is2 \cup {NoCall}
    <3>1. CASE s = u
      BY <1>1, <1>2, <3>1
    <3>2. CASE s # u
      BY <1>1, <3>2 DEF Ring, MentionOK
    <3> QED BY <3>1, <3>2
  <2>2. \A w \in User : /\ cl[w].callId \in is2 \cup {NoCall}
                        /\ \A k \in 1 .. Len(uq[w]) : uq[w][k].call \in is2 \cup {NoCall}
                        /\ \A k \in 1 .. Len(dn[w]) : /\ dn[w][k].call \in is2 \cup {NoCall}
                                                      /\ dn[w][k].type \in News => dn[w][k].call \in is2
    BY DEF Ring, MentionOK
  <2> QED BY <2>1, <2>2 DEF MentionOK
<1>7. \A s \in Thread : \A i \in 1 .. Len(pd[s]) : pd[s][i].msg.type \in News =>
          pd[s][i].msg.call \in DOMAIN ss /\ pd[s][i].msg.call # c
  BY DEF Ring, PendingOK
<1>8. NewsPending(cl, uq, dn, pd2)
  <2> SUFFICES ASSUME NEW s \in Thread, NEW i \in 1 .. Len(pd2[s]), pd2[s][i].msg.type \in News
               PROVE  /\ Unnamed(pd2[s][i].to, pd2[s][i].msg.call, cl, uq)
                      /\ \A k \in 1 .. Len(dn[pd2[s][i].to]) : dn[pd2[s][i].to][k].type \in News =>
                            dn[pd2[s][i].to][k].call # pd2[s][i].msg.call
    BY DEF NewsPending
  <2>1. CASE s = u
    <3>1. pd2[s][i].to \in User /\ pd2[s][i].msg.call = c
      BY <1>1, <1>2, <2>1
    <3> QED BY <1>4, <3>1 DEF Ring, MentionOK
  <2>2. CASE s # u
    <3>1. pd2[s] = pd[s]
      BY <1>1, <2>2
    <3>2. /\ Unnamed(pd[s][i].to, pd[s][i].msg.call, cl, uq)
          /\ \A k \in 1 .. Len(dn[pd[s][i].to]) : dn[pd[s][i].to][k].type \in News =>
                dn[pd[s][i].to][k].call # pd[s][i].msg.call
      BY <3>1 DEF Ring, NamesOK, NewsPending
    <3> QED BY <3>1, <3>2
  <2> QED BY <2>1, <2>2
<1>9. NewsOnce(pd2)
  <2> SUFFICES ASSUME NEW r \in Thread, NEW s \in Thread,
                      NEW i \in 1 .. Len(pd2[r]), NEW k \in 1 .. Len(pd2[s]),
                      pd2[r][i].msg.type \in News, pd2[s][k].msg.type \in News,
                      pd2[s][k].to = pd2[r][i].to, pd2[s][k].msg.call = pd2[r][i].msg.call
               PROVE  s = r /\ k = i
    BY DEF NewsOnce
  <2>1. CASE r = u /\ s = u
    BY <1>1, <1>2, <2>1
  <2>2. CASE r = u /\ s # u
    <3>1. pd2[s] = pd[s] /\ pd2[r][i].msg.call = c
      BY <1>1, <1>2, <2>2
    <3> QED BY <1>7, <3>1
  <2>3. CASE r # u /\ s = u
    <3>1. pd2[r] = pd[r] /\ pd2[s][k].msg.call = c
      BY <1>1, <1>2, <2>3
    <3> QED BY <1>7, <3>1
  <2>4. CASE r # u /\ s # u
    <3>1. pd2[r] = pd[r] /\ pd2[s] = pd[s]
      BY <1>1, <2>4
    <3> QED BY <3>1 DEF Ring, NamesOK, NewsOnce
  <2> QED BY <2>1, <2>2, <2>3, <2>4
<1>10. PendingOK(ss2, pd2)
  <2>1. ASSUME NEW s \in Thread, NEW i \in 1 .. Len(pd2[s]), pd2[s][i].msg.type \in News
        PROVE  LET m == pd2[s][i].msg
               IN  /\ m.call \in DOMAIN ss2
                   /\ ss2[m.call].callerId = s
                   /\ ss2[m.call].age = 0
                   /\ m.type = "call.created" => /\ pd2[s][i].to = s
                                                 /\ i + 1 \in 1 .. Len(pd2[s])
                                                 /\ pd2[s][i + 1].msg.type = "call.incoming"
                                                 /\ pd2[s][i + 1].msg.call = m.call
                   /\ m.type = "call.incoming" => pd2[s][i].to = ss2[m.call].calleeId
    <3>1. CASE s # u
      <4>1. pd2[s] = pd[s] /\ pd[s][i].msg.call \in DOMAIN ss
        BY <1>1, <1>7, <2>1, <3>1
      <4> QED BY <2>1, <4>1 DEF Ring, PendingOK
    <3>2. CASE s = u /\ i = 1
      BY <1>1, <3>2
    <3>3. CASE s = u /\ i = 2
      BY <1>1, <3>3
    <3> QED BY <1>2, <3>1, <3>2, <3>3
  <2> QED BY <2>1 DEF PendingOK, News
<1>11. DownOK(ss2, dn, pd2, rn, tm)
  <2> SUFFICES ASSUME NEW w \in User, NEW i \in 1 .. Len(dn[w]), dn[w][i].type = "call.incoming"
               PROVE  /\ dn[w][i].call \in DOMAIN ss2 => ss2[dn[w][i].call].calleeId = w
                      /\ Watched(w, rn, tm) =>
                            \/ /\ dn[w][i].call \in DOMAIN ss2
                               /\ \A k \in (i + 1) .. Len(dn[w]) : dn[w][k].type # "call.created"
                            \/ EndComes(w, i, dn, pd2)
    BY DEF DownOK
  <2>1. dn[w][i].call # c
    BY DEF Ring, MentionOK, News
  <2>2. /\ dn[w][i].call \in DOMAIN ss => ss[dn[w][i].call].calleeId = w
        /\ Watched(w, rn, tm) =>
              \/ /\ dn[w][i].call \in DOMAIN ss
                 /\ \A k \in (i + 1) .. Len(dn[w]) : dn[w][k].type # "call.created"
              \/ EndComes(w, i, dn, pd)
    BY DEF Ring, DownOK
  <2> QED BY <1>3, <2>1, <2>2
<1>12. RingOK(ss2, cl, cm, cg, dn, pd2, rn, tm)
  BY <1>3, <1>4 DEF Ring, RingOK, Unnamed
<1>13. NewsOK(ss2, dn, pd2, rn, tm)
  <2> SUFFICES ASSUME NEW w \in User, NEW i \in 1 .. Len(dn[w]), dn[w][i].type \in News
               PROVE  /\ dn[w][i].call \in DOMAIN ss2 => w \in Parties(ss2[dn[w][i].call])
                      /\ Watched(w, rn, tm) =>
                            dn[w][i].call \in DOMAIN ss2 \/ EndComes(w, i, dn, pd2)
    BY DEF NewsOK
  <2>1. dn[w][i].call # c
    BY DEF Ring, MentionOK
  <2>2. /\ dn[w][i].call \in DOMAIN ss => w \in Parties(ss[dn[w][i].call])
        /\ Watched(w, rn, tm) => dn[w][i].call \in DOMAIN ss \/ EndComes(w, i, dn, pd)
    BY DEF Ring, NewsOK
  <2> QED BY <1>3, <2>1, <2>2
<1>14. CalledOK(ss2, cl, cm, cg, dn, pd2, rn, tm)
  BY <1>3, <1>4 DEF Ring, CalledOK, Unnamed
<1> QED BY <1>5, <1>6, <1>8, <1>9, <1>10, <1>11, <1>12, <1>13, <1>14 DEF Ring, NamesOK

----------------------------------------------------------------------------
(* A thread sends its next message.                                         *)

\* The message goes to the end of v's queue, or nowhere.
Appended(dn, dn2, v, m) ==
    \A w \in User :
        \/ dn2[w] = dn[w]
        \/ /\ w = v /\ Len(dn2[w]) = Len(dn[w]) + 1 /\ dn2[w][Len(dn[w]) + 1] = m
           /\ \A k \in 1 .. Len(dn[w]) : dn2[w][k] = dn[w][k]

LEMMA TakeShifts ==
    ASSUME NEW pd \in [Thread -> Seq(Post)], NEW t \in Thread, pd[t] # <<>>, NEW pd2,
           pd2 = [pd EXCEPT ![t] = Tail(pd[t])]
    PROVE  /\ pd2 \in [Thread -> Seq(Post)]
           /\ Len(pd[t]) \in Nat \ {0} /\ Len(pd2[t]) = Len(pd[t]) - 1
           /\ Head(pd[t]) = pd[t][1] /\ Head(pd[t]) \in Post
           /\ \A i \in 1 .. Len(pd2[t]) : pd2[t][i] = pd[t][i + 1]
           /\ \A s \in Thread \ {t} : pd2[s] = pd[s]
<1>1. pd[t] \in Seq(Post) /\ pd[t] # <<>>
  OBVIOUS
<1>2. /\ Tail(pd[t]) \in Seq(Post) /\ Len(Tail(pd[t])) = Len(pd[t]) - 1
      /\ Head(pd[t]) \in Post
      /\ \A i \in 1 .. Len(Tail(pd[t])) : Tail(pd[t])[i] = pd[t][i + 1]
  BY <1>1, HeadTailProperties
<1>3. Len(pd[t]) \in Nat \ {0}
  BY <1>1, EmptySeq
<1>4. pd2[t] = Tail(pd[t]) /\ \A s \in Thread \ {t} : pd2[s] = pd[s]
  OBVIOUS
<1>5. pd2 \in [Thread -> Seq(Post)]
  BY <1>2
<1>6. Head(pd[t]) = pd[t][1]
  BY <1>1
<1> QED BY <1>2, <1>3, <1>4, <1>5, <1>6

\* What is to be sent was to be sent before, and is not the first of t's.
Shifted(pd, pd2, t) ==
    \A s \in Thread : \A i \in 1 .. Len(pd2[s]) : \E j \in 1 .. Len(pd[s]) :
        pd2[s][i] = pd[s][j] /\ ~(s = t /\ j = 1) /\ i = IF s = t THEN j - 1 ELSE j

LEMMA TakeOnce ==
    ASSUME NEW pd, NEW pd2, NEW t, NewsOnce(pd), Shifted(pd, pd2, t)
    PROVE  NewsOnce(pd2)
<1> SUFFICES ASSUME NEW r \in Thread, NEW s \in Thread,
                    NEW i \in 1 .. Len(pd2[r]), NEW k \in 1 .. Len(pd2[s]),
                    pd2[r][i].msg.type \in News, pd2[s][k].msg.type \in News,
                    pd2[s][k].to = pd2[r][i].to, pd2[s][k].msg.call = pd2[r][i].msg.call
             PROVE  s = r /\ k = i
  BY DEF NewsOnce
<1>1. PICK a \in 1 .. Len(pd[r]) : pd2[r][i] = pd[r][a] /\ i = IF r = t THEN a - 1 ELSE a
  BY DEF Shifted
<1>2. PICK b \in 1 .. Len(pd[s]) : pd2[s][k] = pd[s][b] /\ k = IF s = t THEN b - 1 ELSE b
  BY DEF Shifted
<1>3. /\ pd[r][a].msg.type \in News /\ pd[s][b].msg.type \in News
      /\ pd[s][b].to = pd[r][a].to /\ pd[s][b].msg.call = pd[r][a].msg.call
  BY <1>1, <1>2
<1>4. s = r /\ b = a
  <2>1. \A i1 \in 1 .. Len(pd[r]), k1 \in 1 .. Len(pd[s]) :
           /\ pd[r][i1].msg.type \in News /\ pd[s][k1].msg.type \in News
           /\ pd[s][k1].to = pd[r][i1].to /\ pd[s][k1].msg.call = pd[r][i1].msg.call
           => s = r /\ k1 = i1
    BY DEF NewsOnce
  <2> QED BY <1>3, <2>1
<1> QED BY <1>1, <1>2, <1>4

LEMMA SendKeeps ==
    ASSUME NEW ss, NEW is, NEW cl, NEW uq, NEW dn, NEW pd, NEW cm, NEW cg, NEW rn, NEW tm,
           NEW dn2, NEW pd2, NEW t \in Thread, DOMAIN ss \subseteq is,
           \A c, d \in DOMAIN ss : Parties(ss[c]) \cap Parties(ss[d]) # {} => c = d,
           dn \in [User -> Seq(Wire)],
           pd \in [Thread -> Seq(Post)], pd[t] # <<>>, pd2 = [pd EXCEPT ![t] = Tail(pd[t])],
           Appended(dn, dn2, Head(pd[t]).to, Head(pd[t]).msg),
           rn[Head(pd[t]).to] = "running" =>
              Len(dn2[Head(pd[t]).to]) = Len(dn[Head(pd[t]).to]) + 1,
           Ring(ss, is, cl, uq, dn, pd, cm, cg, rn, tm)
    PROVE  Ring(ss, is, cl, uq, dn2, pd2, cm, cg, rn, tm)
<1> DEFINE v == Head(pd[t]).to
           m == Head(pd[t]).msg
<1>1. /\ Len(pd[t]) \in Nat \ {0} /\ Len(pd2[t]) = Len(pd[t]) - 1
      /\ 1 \in 1 .. Len(pd[t]) /\ v = pd[t][1].to /\ m = pd[t][1].msg
      /\ v \in User
      /\ \A i \in 1 .. Len(pd2[t]) : pd2[t][i] = pd[t][i + 1] /\ i + 1 \in 2 .. Len(pd[t])
      /\ \A i \in 2 .. Len(pd[t]) : pd2[t][i - 1] = pd[t][i] /\ i - 1 \in 1 .. Len(pd2[t])
      /\ \A s \in Thread \ {t} : pd2[s] = pd[s]
  <2>1. /\ Len(pd[t]) \in Nat \ {0} /\ Len(pd2[t]) = Len(pd[t]) - 1
        /\ Head(pd[t]) = pd[t][1] /\ Head(pd[t]) \in Post
        /\ \A i \in 1 .. Len(pd2[t]) : pd2[t][i] = pd[t][i + 1]
        /\ \A s \in Thread \ {t} : pd2[s] = pd[s]
    BY TakeShifts
  <2>2. v \in User
    BY <2>1 DEF Post
  <2> QED BY <2>1, <2>2
<1>2. Appended(dn, dn2, v, m) /\ (rn[v] = "running" => Len(dn2[v]) = Len(dn[v]) + 1)
  OBVIOUS
<1> HIDE DEF v, m
<1>3. \A w \in User : Len(dn[w]) \in Nat
  OBVIOUS
<1>4. \A w \in User : \A i \in 1 .. Len(dn2[w]) :
          \/ i \in 1 .. Len(dn[w]) /\ dn2[w][i] = dn[w][i]
          \/ w = v /\ i = Len(dn[v]) + 1 /\ Len(dn2[v]) = i /\ dn2[v][i] = m
  BY <1>2, <1>3 DEF Appended
<1>5. \A w \in User : \A i \in 1 .. Len(dn[w]) : i \in 1 .. Len(dn2[w]) /\ dn2[w][i] = dn[w][i]
  BY <1>2, <1>3 DEF Appended
<1>6. \A s \in Thread : \A i \in 1 .. Len(pd2[s]) :
          \E j \in 1 .. Len(pd[s]) : pd2[s][i] = pd[s][j] /\ ~(s = t /\ j = 1) /\ i = IF s = t THEN j - 1 ELSE j
  <2> TAKE s \in Thread
  <2> TAKE i \in 1 .. Len(pd2[s])
  <2>1. CASE s = t
    <3>1. i + 1 \in 1 .. Len(pd[s]) /\ pd2[s][i] = pd[s][i + 1] /\ i + 1 # 1 /\ i = (i + 1) - 1
      BY <1>1, <2>1
    <3> QED BY <2>1, <3>1
  <2>2. CASE s # t
    BY <1>1, <2>2
  <2> QED BY <2>1, <2>2
<1>7. MentionOK(is, cl, uq, dn2, pd2)
  <2>1. ASSUME NEW w \in User, NEW i \in 1 .. Len(dn2[w])
        PROVE  /\ dn2[w][i].call \in is \cup {NoCall}
               /\ dn2[w][i].type \in News => dn2[w][i].call \in is
    <3>1. m.call \in is \cup {NoCall} /\ (m.type \in News => m.call \in is)
      BY <1>1 DEF Ring, MentionOK, PendingOK
    <3> QED BY <1>4, <3>1 DEF Ring, MentionOK
  <2>2. \A s \in Thread : \A k \in 1 .. Len(pd2[s]) : pd2[s][k].msg.call \in is \cup {NoCall}
    BY <1>6 DEF Ring, MentionOK
  <2> QED BY <2>1, <2>2 DEF Ring, MentionOK
<1>8. PendingOK(ss, pd2)
  <2>1. ASSUME NEW s \in Thread, NEW i \in 1 .. Len(pd2[s])
        PROVE  LET p == pd2[s][i]
               IN  /\ p.msg.type \in News => /\ p.msg.call \in DOMAIN ss
                                             /\ ss[p.msg.call].callerId = s
                                             /\ ss[p.msg.call].age = 0
                   /\ p.msg.type = "call.created" => /\ p.to = s
                                                     /\ i + 1 \in 1 .. Len(pd2[s])
                                                     /\ pd2[s][i + 1].msg.type = "call.incoming"
                                                     /\ pd2[s][i + 1].msg.call = p.msg.call
                   /\ p.msg.type = "call.incoming" => p.to = ss[p.msg.call].calleeId
    <3>1. CASE s # t
      <4>1. pd2[s] = pd[s]
        BY <1>1, <3>1
      <4>2. PendingOK(ss, pd)
        BY DEF Ring
      <4> QED BY <4>1, <4>2, SMTT(60) DEF PendingOK
    <3>2. CASE s = t
      <4> DEFINE p == pd[t][i + 1]
      <4>1. i + 1 \in 1 .. Len(pd[t]) /\ pd2[t][i] = p
        BY <1>1, <3>2
      <4>2. /\ p.msg.type \in News => /\ p.msg.call \in DOMAIN ss
                                      /\ ss[p.msg.call].callerId = t
                                      /\ ss[p.msg.call].age = 0
            /\ p.msg.type = "call.created" => /\ p.to = t
                                              /\ (i + 1) + 1 \in 1 .. Len(pd[t])
                                              /\ pd[t][(i + 1) + 1].msg.type = "call.incoming"
                                              /\ pd[t][(i + 1) + 1].msg.call = p.msg.call
            /\ p.msg.type = "call.incoming" => p.to = ss[p.msg.call].calleeId
        BY <4>1 DEF Ring, PendingOK
      <4> HIDE DEF p
      <4>3. (i + 1) + 1 \in 1 .. Len(pd[t]) => /\ i + 1 \in 1 .. Len(pd2[t])
                                               /\ pd2[t][i + 1] = pd[t][(i + 1) + 1]
        BY <1>1, <3>2
      <4> QED BY <3>2, <4>1, <4>2, <4>3
    <3> QED BY <3>1, <3>2
  <2> QED BY <2>1 DEF PendingOK
<1>9. m.type \in News => /\ Unnamed(v, m.call, cl, uq)
                         /\ \A k \in 1 .. Len(dn[v]) : dn[v][k].type \in News => dn[v][k].call # m.call
  <2>1. NewsPending(cl, uq, dn, pd)
    BY DEF Ring, NamesOK
  <2>2. pd[t][1].msg.type \in News =>
          /\ Unnamed(pd[t][1].to, pd[t][1].msg.call, cl, uq)
          /\ \A k \in 1 .. Len(dn[pd[t][1].to]) : dn[pd[t][1].to][k].type \in News =>
                dn[pd[t][1].to][k].call # pd[t][1].msg.call
    BY <1>1, <2>1 DEF NewsPending
  <2> QED BY <1>1, <2>2
<1>10. NewsDown(cl, uq, dn2)
  <2> SUFFICES ASSUME NEW w \in User, NEW i \in 1 .. Len(dn2[w]), dn2[w][i].type \in News
               PROVE  /\ Unnamed(w, dn2[w][i].call, cl, uq)
                      /\ \A k \in 1 .. Len(dn2[w]) :
                            dn2[w][k].type \in News /\ dn2[w][k].call = dn2[w][i].call => k = i
    BY DEF NewsDown
  <2>1. CASE i \in 1 .. Len(dn[w]) /\ dn2[w][i] = dn[w][i]
    <3>1. /\ Unnamed(w, dn[w][i].call, cl, uq)
          /\ \A k \in 1 .. Len(dn[w]) :
                dn[w][k].type \in News /\ dn[w][k].call = dn[w][i].call => k = i
      BY <2>1 DEF Ring, NamesOK, NewsDown
    <3>2. ASSUME NEW k \in 1 .. Len(dn2[w]), dn2[w][k].type \in News, dn2[w][k].call = dn2[w][i].call
          PROVE  k = i
      <4>1. CASE k \in 1 .. Len(dn[w]) /\ dn2[w][k] = dn[w][k]
        BY <2>1, <3>1, <3>2, <4>1
      <4>2. CASE w = v /\ dn2[v][k] = m
        BY <1>9, <2>1, <3>2, <4>2
      <4> QED BY <1>4, <4>1, <4>2
    <3> QED BY <2>1, <3>1, <3>2
  <2>2. CASE w = v /\ i = Len(dn[v]) + 1 /\ Len(dn2[v]) = i /\ dn2[v][i] = m
    <3>1. m.type \in News
      BY <2>2
    <3>2. ASSUME NEW k \in 1 .. Len(dn2[w]), dn2[w][k].type \in News, dn2[w][k].call = dn2[w][i].call
          PROVE  k = i
      <4>1. CASE k \in 1 .. Len(dn[w]) /\ dn2[w][k] = dn[w][k]
        BY <1>9, <2>2, <3>1, <3>2, <4>1
      <4>2. CASE k = Len(dn[v]) + 1
        BY <2>2, <4>2
      <4> QED BY <1>4, <4>1, <4>2
    <3> QED BY <1>9, <2>2, <3>1, <3>2
  <2> QED BY <1>4, <2>1, <2>2
<1>11. NewsPending(cl, uq, dn2, pd2)
  <2> SUFFICES ASSUME NEW s \in Thread, NEW i \in 1 .. Len(pd2[s]), pd2[s][i].msg.type \in News
               PROVE  /\ Unnamed(pd2[s][i].to, pd2[s][i].msg.call, cl, uq)
                      /\ \A k \in 1 .. Len(dn2[pd2[s][i].to]) : dn2[pd2[s][i].to][k].type \in News =>
                            dn2[pd2[s][i].to][k].call # pd2[s][i].msg.call
    BY DEF NewsPending
  <2>1. PICK j \in 1 .. Len(pd[s]) : pd2[s][i] = pd[s][j] /\ ~(s = t /\ j = 1)
    BY <1>6
  <2> DEFINE w == pd[s][j].to
             c == pd[s][j].msg.call
  <2>2. w \in User
    BY PostTyped
  <2>3. /\ Unnamed(w, c, cl, uq)
        /\ \A k \in 1 .. Len(dn[w]) : dn[w][k].type \in News => dn[w][k].call # c
    <3>1. NewsPending(cl, uq, dn, pd) /\ pd[s][j].msg.type \in News
      BY <2>1 DEF Ring, NamesOK
    <3> QED BY <3>1 DEF NewsPending
  <2>4. m.type \in News /\ w = v => m.call # c
    BY <1>1, <2>1 DEF Ring, NamesOK, NewsOnce
  <2>5. pd2[s][i].to = w /\ pd2[s][i].msg.call = c
    BY <2>1
  <2> HIDE DEF w, c
  <2>6. ASSUME NEW k \in 1 .. Len(dn2[w]), dn2[w][k].type \in News
        PROVE  dn2[w][k].call # c
    <3>1. CASE k \in 1 .. Len(dn[w]) /\ dn2[w][k] = dn[w][k]
      BY <2>3, <2>6, <3>1
    <3>2. CASE w = v /\ dn2[v][k] = m
      BY <2>4, <2>6, <3>2
    <3> QED BY <1>4, <2>2, <3>1, <3>2
  <2> QED BY <2>3, <2>5, <2>6
<1>12. NewsOnce(pd2)
  <2>1. NewsOnce(pd)
    BY DEF Ring, NamesOK
  <2>2. Shifted(pd, pd2, t)
    BY <1>6 DEF Shifted
  <2> QED BY <2>1, <2>2, TakeOnce
<1>13. ASSUME NEW w \in User, NEW i \in 0 .. Len(dn[w]), Watched(w, rn, tm), EndComes(w, i, dn, pd)
       PROVE  EndComes(w, i, dn2, pd2)
  <2>1. ASSUME NEW k \in (i + 1) .. Len(dn[w]), dn[w][k].type \in Ending
        PROVE  EndComes(w, i, dn2, pd2)
    <3>1. k \in 1 .. Len(dn[w]) /\ Len(dn[w]) \in Nat
      BY <1>3
    <3>2. k \in 1 .. Len(dn2[w]) /\ dn2[w][k] = dn[w][k]
      BY <1>5, <3>1
    <3>3. k \in (i + 1) .. Len(dn2[w])
      BY <3>2
    <3> QED BY <2>1, <3>2, <3>3 DEF EndComes
  <2>2. ASSUME NEW s \in Thread, NEW k \in 1 .. Len(pd[s]), pd[s][k].to = w,
               pd[s][k].msg.type \in Ending
        PROVE  EndComes(w, i, dn2, pd2)
    <3>1. CASE s = t /\ k = 1
      <4>1. w = v /\ m.type \in Ending /\ Len(dn2[v]) = Len(dn[v]) + 1
        BY <1>1, <1>2, <1>13, <2>2, <3>1 DEF Watched
      <4>2. Len(dn[v]) + 1 \in (i + 1) .. Len(dn2[v]) /\ Len(dn[v]) + 1 \in 1 .. Len(dn2[v])
        BY <1>1, <1>3, <4>1
      <4>3. dn2[v][Len(dn[v]) + 1] = m
        BY <1>1, <1>2, <1>3, <4>1 DEF Appended
      <4> QED BY <4>1, <4>2, <4>3 DEF EndComes
    <3>2. CASE s = t /\ k # 1
      <4>1. k \in 2 .. Len(pd[t])
        BY <1>1, <3>2
      <4>2. pd2[t][k - 1] = pd[t][k] /\ k - 1 \in 1 .. Len(pd2[t])
        BY <1>1, <4>1
      <4> QED BY <2>2, <3>2, <4>2 DEF EndComes
    <3>3. CASE s # t
      <4>1. pd2[s] = pd[s]
        BY <1>1, <3>3
      <4> QED BY <2>2, <4>1 DEF EndComes
    <3> QED BY <3>1, <3>2, <3>3
  <2> QED BY <1>13, <2>1, <2>2 DEF EndComes
<1>14. ASSUME NEW c \in DOMAIN ss, ss[c].calleeId = v
       PROVE  m.type # "call.created"
  <2> SUFFICES ASSUME m.type = "call.created" PROVE FALSE
    OBVIOUS
  <2>1. m.call \in DOMAIN ss /\ ss[m.call].callerId = v
    BY <1>1 DEF Ring, PendingOK, News
  <2>2. m.call = c
    BY <1>14, <2>1 DEF Parties
  <2> QED BY <1>14, <2>1, <2>2 DEF Ring, PairsOK
<1>15. DownOK(ss, dn2, pd2, rn, tm)
  <2> SUFFICES ASSUME NEW w \in User, NEW i \in 1 .. Len(dn2[w]), dn2[w][i].type = "call.incoming"
               PROVE  /\ dn2[w][i].call \in DOMAIN ss => ss[dn2[w][i].call].calleeId = w
                      /\ Watched(w, rn, tm) =>
                            \/ /\ dn2[w][i].call \in DOMAIN ss
                               /\ \A k \in (i + 1) .. Len(dn2[w]) : dn2[w][k].type # "call.created"
                            \/ EndComes(w, i, dn2, pd2)
    BY DEF DownOK
  <2>1. CASE i \in 1 .. Len(dn[w]) /\ dn2[w][i] = dn[w][i]
    <3>1. /\ dn2[w][i].call \in DOMAIN ss => ss[dn2[w][i].call].calleeId = w
          /\ Watched(w, rn, tm) =>
                \/ /\ dn2[w][i].call \in DOMAIN ss
                   /\ \A k \in (i + 1) .. Len(dn[w]) : dn[w][k].type # "call.created"
                \/ EndComes(w, i, dn, pd)
      BY <2>1 DEF Ring, DownOK
    <3>2. ASSUME dn2[w][i].call \in DOMAIN ss,
                 \A k \in (i + 1) .. Len(dn[w]) : dn[w][k].type # "call.created",
                 NEW k \in (i + 1) .. Len(dn2[w])
          PROVE  dn2[w][k].type # "call.created"
      <4>1. k \in 1 .. Len(dn2[w])
        BY <2>1
      <4>2. CASE k \in 1 .. Len(dn[w]) /\ dn2[w][k] = dn[w][k]
        BY <3>2, <4>2
      <4>3. CASE w = v /\ dn2[v][k] = m
        BY <1>14, <3>1, <3>2, <4>3
      <4> QED BY <1>4, <4>1, <4>2, <4>3
    <3>3. i \in 0 .. Len(dn[w])
      BY <1>3, <2>1
    <3> QED BY <1>13, <3>1, <3>2, <3>3
  <2>2. CASE w = v /\ i = Len(dn[v]) + 1 /\ Len(dn2[v]) = i /\ dn2[v][i] = m
    <3>1. m.call \in DOMAIN ss /\ ss[m.call].calleeId = v
      <4>1. PendingOK(ss, pd)
        BY DEF Ring
      <4>2. m.type = "call.incoming"
        BY <2>2
      <4>3. 1 \in 1 .. Len(pd[t]) /\ pd[t][1].msg = m /\ pd[t][1].to = v
        BY <1>1
      <4> QED BY <4>1, <4>2, <4>3, SMTT(60) DEF PendingOK, News
    <3>2. \A k \in (i + 1) .. Len(dn2[w]) : FALSE
      BY <1>3, <2>2
    <3> QED BY <2>2, <3>1, <3>2
  <2> QED BY <1>4, <2>1, <2>2
<1>16. RingOK(ss, cl, cm, cg, dn2, pd2, rn, tm)
  <2> SUFFICES ASSUME NEW w \in User, cl[w].state = "Ringing", Watched(w, rn, tm)
               PROVE  \/ /\ cl[w].callId \in DOMAIN ss
                         /\ ss[cl[w].callId].calleeId = w
                         /\ \A k \in 1 .. Len(dn2[w]) : dn2[w][k].type # "call.created"
                      \/ EndComes(w, 0, dn2, pd2)
                      \/ Forgets(w, cm, cg)
    BY DEF RingOK
  <2>1. \/ /\ cl[w].callId \in DOMAIN ss
           /\ ss[cl[w].callId].calleeId = w
           /\ \A k \in 1 .. Len(dn[w]) : dn[w][k].type # "call.created"
        \/ EndComes(w, 0, dn, pd)
        \/ Forgets(w, cm, cg)
    BY DEF Ring, RingOK
  <2>2. ASSUME cl[w].callId \in DOMAIN ss, ss[cl[w].callId].calleeId = w,
               \A k \in 1 .. Len(dn[w]) : dn[w][k].type # "call.created",
               NEW k \in 1 .. Len(dn2[w])
        PROVE  dn2[w][k].type # "call.created"
    <3>1. CASE k \in 1 .. Len(dn[w]) /\ dn2[w][k] = dn[w][k]
      BY <2>2, <3>1
    <3>2. CASE w = v /\ dn2[v][k] = m
      BY <1>14, <2>2, <3>2
    <3> QED BY <1>4, <3>1, <3>2
  <2>3. 0 \in 0 .. Len(dn[w])
    BY <1>3
  <2> QED BY <1>13, <2>1, <2>2, <2>3
<1>17. NewsOK(ss, dn2, pd2, rn, tm)
  <2> SUFFICES ASSUME NEW w \in User, NEW i \in 1 .. Len(dn2[w]), dn2[w][i].type \in News
               PROVE  /\ dn2[w][i].call \in DOMAIN ss => w \in Parties(ss[dn2[w][i].call])
                      /\ Watched(w, rn, tm) =>
                            dn2[w][i].call \in DOMAIN ss \/ EndComes(w, i, dn2, pd2)
    BY DEF NewsOK
  <2>1. CASE i \in 1 .. Len(dn[w]) /\ dn2[w][i] = dn[w][i]
    <3>1. /\ dn2[w][i].call \in DOMAIN ss => w \in Parties(ss[dn2[w][i].call])
          /\ Watched(w, rn, tm) => dn2[w][i].call \in DOMAIN ss \/ EndComes(w, i, dn, pd)
      BY <2>1 DEF Ring, NewsOK
    <3>2. i \in 0 .. Len(dn[w])
      BY <1>3, <2>1
    <3> QED BY <1>13, <3>1, <3>2
  <2>2. CASE w = v /\ dn2[v][i] = m
    <3>1. /\ m.call \in DOMAIN ss /\ ss[m.call].callerId = t
          /\ m.type = "call.created" => v = t
          /\ m.type = "call.incoming" => v = ss[m.call].calleeId
      <4>1. PendingOK(ss, pd)
        BY DEF Ring
      <4>2. m.type \in News
        BY <2>2
      <4>3. 1 \in 1 .. Len(pd[t]) /\ pd[t][1].msg = m /\ pd[t][1].to = v
        BY <1>1
      <4> QED BY <4>1, <4>2, <4>3, SMTT(60) DEF PendingOK
    <3>2. m.type = "call.created" \/ m.type = "call.incoming"
      BY <2>2 DEF News
    <3> QED BY <2>2, <3>1, <3>2 DEF Parties
  <2> QED BY <1>4, <2>1, <2>2
<1>18. CalledOK(ss, cl, cm, cg, dn2, pd2, rn, tm)
  <2> SUFFICES ASSUME NEW w \in User, cl[w].callId # NoCall, Watched(w, rn, tm)
               PROVE  \/ cl[w].callId \in DOMAIN ss /\ w \in Parties(ss[cl[w].callId])
                      \/ EndComes(w, 0, dn2, pd2)
                      \/ Forgets(w, cm, cg)
    BY DEF CalledOK
  <2>1. 0 \in 0 .. Len(dn[w])
    BY <1>3
  <2> QED BY <1>13, <2>1 DEF Ring, CalledOK
<1> QED BY <1>7, <1>8, <1>10, <1>11, <1>12, <1>15, <1>16, <1>17, <1>18 DEF Ring, NamesOK

----------------------------------------------------------------------------
(* The queue from a client to the backend.                                  *)

\* Only u's queue changes, and what is in it was there before or is m.
Grows(q, q2, u, m) ==
    /\ q2 \in [User -> Seq(Wire)]
    /\ \A v \in User \ {u} : q2[v] = q[v]
    /\ \A k \in 1 .. Len(q2[u]) :
          q2[u][k] = m \/ \E j \in 1 .. Len(q[u]) : q2[u][k] = q[u][j]

LEMMA SameGrows ==
    ASSUME NEW q \in [User -> Seq(Wire)], NEW u \in User, NEW m
    PROVE  Grows(q, q, u, m)
BY DEF Grows

LEMMA AppendGrows ==
    ASSUME NEW q \in [User -> Seq(Wire)], NEW u \in User, NEW m \in Wire
    PROVE  Grows(q, [q EXCEPT ![u] = Append(q[u], m)], u, m)
<1> DEFINE s == Append(q[u], m)
           q2 == [q EXCEPT ![u] = s]
<1>1. q[u] \in Seq(Wire) /\ Len(q[u]) \in Nat
  OBVIOUS
<1>2. /\ s \in Seq(Wire) /\ Len(s) = Len(q[u]) + 1
      /\ \A k \in 1 .. Len(q[u]) : s[k] = q[u][k]
      /\ s[Len(q[u]) + 1] = m
  BY <1>1, AppendProperties
<1> HIDE DEF s
<1>3. q2[u] = s /\ q2 \in [User -> Seq(Wire)] /\ \A v \in User \ {u} : q2[v] = q[v]
  BY <1>2
<1>4. \A k \in 1 .. Len(s) : k \in 1 .. Len(q[u]) \/ k = Len(q[u]) + 1
  BY <1>1, <1>2
<1>5. Grows(q, q2, u, m)
  BY <1>2, <1>3, <1>4 DEF Grows
<1> QED BY <1>5 DEF s

LEMMA WrittenGrows ==
    ASSUME up \in [User -> Seq(Wire)], NEW u \in User, NEW m \in Wire
    PROVE  Grows(up, Written(u, m), u, m)
<1>1. CASE run[u] = "running"
  BY <1>1, AppendGrows DEF Written
<1>2. CASE run[u] # "running"
  BY <1>2, SameGrows DEF Written
<1> QED BY <1>1, <1>2

LEMMA PrefixGrows ==
    ASSUME NEW q \in [User -> Seq(Wire)], NEW u \in User, NEW m, NEW n \in 0 .. Len(q[u])
    PROVE  Grows(q, [q EXCEPT ![u] = SubSeq(q[u], 1, n)], u, m)
<1> DEFINE s == SubSeq(q[u], 1, n)
           q2 == [q EXCEPT ![u] = s]
<1>1. q[u] \in Seq(Wire) /\ Len(q[u]) \in Nat /\ n \in Nat
  OBVIOUS
<1>2. /\ s \in Seq(Wire) /\ Len(s) = n
      /\ \A k \in 1 .. n : s[k] = q[u][k]
  BY <1>1
<1> HIDE DEF s
<1>3. q2[u] = s /\ q2 \in [User -> Seq(Wire)] /\ \A v \in User \ {u} : q2[v] = q[v]
  BY <1>2
<1>4. \A k \in 1 .. Len(s) : k \in 1 .. Len(q[u])
  BY <1>1, <1>2
<1>5. Grows(q, q2, u, m)
  BY <1>2, <1>3, <1>4 DEF Grows
<1> QED BY <1>5 DEF s

LEMMA TailGrows ==
    ASSUME NEW q \in [User -> Seq(Wire)], NEW u \in User, q[u] # <<>>, NEW m
    PROVE  Grows(q, [q EXCEPT ![u] = Tail(q[u])], u, m)
<1> DEFINE q2 == [q EXCEPT ![u] = Tail(q[u])]
<1>1. /\ q2 \in [User -> Seq(Wire)]
      /\ Len(q[u]) \in Nat \ {0} /\ Len(q2[u]) = Len(q[u]) - 1
      /\ \A i \in 1 .. Len(q2[u]) : q2[u][i] = q[u][i + 1]
      /\ \A v \in User \ {u} : q2[v] = q[v]
  BY PopShifts
<1> HIDE DEF q2
<1>2. \A i \in 1 .. Len(q2[u]) : i + 1 \in 1 .. Len(q[u])
  BY <1>1
<1>3. Grows(q, q2, u, m)
  BY <1>1, <1>2 DEF Grows
<1> QED BY <1>3 DEF q2

LEMMA GrowsCreate ==
    ASSUME NEW q, NEW q2, NEW u \in User, NEW m, Grows(q, q2, u, m), CreateOK(q),
           m.type = "call.create" => m.arg \in User \ {u}
    PROVE  CreateOK(q2)
<1> SUFFICES ASSUME NEW v \in User, NEW k \in 1 .. Len(q2[v]), q2[v][k].type = "call.create"
             PROVE  q2[v][k].arg \in User \ {v}
  BY DEF CreateOK
<1>1. CASE v = u
  BY <1>1 DEF Grows, CreateOK
<1>2. CASE v # u
  BY <1>2 DEF Grows, CreateOK
<1> QED BY <1>1, <1>2

LEMMA MessageTyped ==
    ASSUME NEW type \in WireType, NEW c \in CallId \cup {NoCall}, NEW a \in Arg
    PROVE  /\ Message(type, c, a) \in Wire
           /\ Message(type, c, a).type = type /\ Message(type, c, a).call = c
           /\ Message(type, c, a).arg = a
BY DEF Message, Wire

----------------------------------------------------------------------------
(* The peer connection of one client and its teardown.                      *)

LEMMA SamePcKeeps ==
    ASSUME NEW u, NEW p, NEW g, NEW d, NEW a, NEW p2, p # NoPc, p2.id = p.id,
           TeardownOK(u, p, g, d, a)
    PROVE  TeardownOK(u, p2, g, d, a)
BY DEF TeardownOK

LEMMA DropKeeps ==
    ASSUME NEW u, NEW p, NEW g, NEW d, NEW a, TeardownOK(u, p, g, d, a)
    PROVE  TeardownOK(u, NoPc, g, d, a)
BY DEF TeardownOK

LEMMA StageKeeps ==
    ASSUME NEW u, NEW p, NEW g, NEW d, NEW a \in [Callback -> Stage], NEW thread \in Callback,
           TeardownOK(u, p, g, d, a)
    PROVE  TeardownOK(u, NoPc, g, d, [a EXCEPT ![thread] = "out"])
<1>1. \A x : [a EXCEPT ![thread] = "out"][x] = "init" /\ x \in Callback => a[x] = "init"
  OBVIOUS
<1>2. "ws" \in Callback /\ "rtc" \in Callback
  BY DEF Callback
<1> QED BY <1>1, <1>2 DEF TeardownOK

LEMMA ResetKeeps ==
    ASSUME NEW u, NEW p, NEW g, NEW d, NEW a \in [Callback -> Stage], NEW a2,
           a2 = [a EXCEPT !["ws"] = "init"], g < MaxPc, TeardownOK(u, p, g, d, a)
    PROVE  TeardownOK(u, NoPc, g, FALSE, a2)
<1>1. a2["rtc"] = a["rtc"]
  BY DEF Callback
<1> QED BY <1>1 DEF TeardownOK

LEMMA NewPcKeeps ==
    ASSUME NEW u, NEW p, NEW g \in Nat, NEW d \in BOOLEAN, NEW a \in [Callback -> Stage], NEW p2,
           a["ws"] = "init", p2.id = <<u, g + 1>>, TeardownOK(u, p, g, d, a)
    PROVE  TeardownOK(u, p2, g + 1, d, [a EXCEPT !["ws"] = "out"])
<1> DEFINE a2 == [a EXCEPT !["ws"] = "out"]
<1>1. a2["ws"] = "out" /\ a2["rtc"] = a["rtc"]
  BY DEF Callback
<1>2. g + 1 > 0 /\ g + 1 # 0 /\ (g + 1 \in {0, 1} => g = 0)
  OBVIOUS
<1> HIDE DEF a2
<1>3. TeardownOK(u, p2, g + 1, d, a2)
  BY <1>1, <1>2 DEF TeardownOK
<1> QED BY <1>3 DEF a2

(* Whose threads do not move does not begin or cease to leave his call. *)
LEMMA OthersLeave ==
    ASSUME NEW S \in SUBSET User, \A w \in S : at'[w] = at[w] /\ done'[w] = done[w]
    PROVE  \A w \in S : w \in Leaving' <=> w \in Leaving
BY DEF Leaving

LEMMA SameClients ==
    ASSUME UNCHANGED <<at, done>>
    PROVE  /\ Leaving' = Leaving
           /\ UNCHANGED <<gen, term>> => Unsure' = Unsure
BY DEF Leaving, Unsure, Misled

LEMMA StageTyped ==
    ASSUME TypesOK, NEW u \in User, NEW thread \in Callback, NEW x \in Stage,
           at' = [at EXCEPT ![u][thread] = x]
    PROVE  /\ at' \in [User -> [Callback -> Stage]]
           /\ at[u] \in [Callback -> Stage]
           /\ at'[u] = [at[u] EXCEPT ![thread] = x]
           /\ \A w \in User \ {u} : at'[w] = at[w]
BY DEF TypesOK

----------------------------------------------------------------------------
(* The steps of a client.                                                   *)

\* What a step of u's client does that takes no message from its queue; m
\* is the message it may add.
ClientShape(u, m) ==
    /\ Grows(up, up', u, m)
    /\ m.call \in {call[u].callId, NoCall}
    /\ m.type = "call.create" => m.arg \in User \ {u}
    /\ /\ m.type \in {"call.reject", "call.hangup"} /\ call'[u].callId # NoCall
       /\ Watched(u, run', Unsure')
       => Forgets(u, cmd', Leaving')
    /\ \A v \in User \ {u} : /\ call'[v] = call[v] /\ cmd'[v] = cmd[v]
                             /\ at'[v] = at[v] /\ run'[v] = run[v]
                             /\ pc'[v] = pc[v] /\ gen'[v] = gen[v] /\ done'[v] = done[v]
    /\ call'[u].callId \in {call[u].callId, NoCall}
    /\ call'[u].state = "Ringing" => call[u].state = "Ringing" /\ call'[u].callId = call[u].callId
    /\ call'[u] # CallContext => (Forgets(u, cmd, Leaving) => Forgets(u, cmd', Leaving'))
    /\ run'[u] = run[u] \/ run'[u] # "running" \/ u \in Unsure'
    /\ run'[u] = "offline" => run[u] = "offline" \/ u \in Unsure'
    /\ term \subseteq term'
    /\ gen[u] > 1 => gen'[u] > 1

LEMMA ShapeIsLocal ==
    ASSUME NEW u \in User, NEW m, ClientShape(u, m)
    PROVE  LocalStep(u, call, up, cmd, Leaving, run, Unsure,
                     call', up', cmd', Leaving', run', Unsure')
<1>1. \A k \in 1 .. Len(up'[u]) :
          \/ \E j \in 1 .. Len(up[u]) : up'[u][k] = up[u][j]
          \/ /\ up'[u][k].call \in {call[u].callId, NoCall}
             /\ /\ up'[u][k].type \in {"call.reject", "call.hangup"}
                /\ call'[u].callId # NoCall /\ Watched(u, run', Unsure')
                => Forgets(u, cmd', Leaving')
  BY DEF ClientShape, Grows
<1>2. \A v \in User \ {u} : up'[v] = up[v]
  BY DEF ClientShape, Grows
<1>3. \A v \in User \ {u} : v \in Leaving' <=> v \in Leaving
  <2>1. \A v \in User \ {u} : at'[v] = at[v] /\ done'[v] = done[v]
    BY DEF ClientShape
  <2> QED BY <2>1, OthersLeave
<1>4. \A v \in User : gen[v] > 1 => gen'[v] > 1
  BY DEF ClientShape
<1>5. term \subseteq term'
  BY DEF ClientShape
<1>6. Unsure \subseteq Unsure'
  BY <1>4, <1>5 DEF Unsure, Misled
<1> QED BY <1>1, <1>2, <1>3, <1>6 DEF ClientShape, LocalStep

LEMMA TableFacts ==
    ASSUME CallInv
    PROVE  DOMAIN sessions \subseteq issued /\ NoCall \notin issued /\ issued \subseteq CallId
BY ClientAssumption DEF CallInv, CallTypeOK, Calls

LEMMA ClientStep ==
    ASSUME SystemInv, NEW u \in User, NEW m, ClientShape(u, m), TypesOK',
           UNCHANGED <<callVars, pending, down>>,
           TeardownOK(u, pc'[u], gen'[u], done'[u], at'[u])
    PROVE  SystemInv'
<1>1. sessions' = sessions /\ issued' = issued /\ pending' = pending /\ down' = down
  BY DEF callVars
<1>2. CallInv'
  BY <1>1 DEF SystemInv, CallInv, CallTypeOK, OneCallPerUser, Calls
<1>3. CreateOK(up')
  BY GrowsCreate DEF SystemInv, ClientShape
<1>4. \A v \in User : TeardownOK(v, pc'[v], gen'[v], done'[v], at'[v])
  <2> TAKE v \in User
  <2>1. CASE v = u
    BY <2>1
  <2>2. CASE v # u
    BY <2>2 DEF ClientShape, SystemInv
  <2> QED BY <2>1, <2>2
<1>5. Ring(sessions, issued, call', up', down, pending, cmd', Leaving', run', Unsure')
  <2>1. LocalStep(u, call, up, cmd, Leaving, run, Unsure,
                  call', up', cmd', Leaving', run', Unsure')
    BY ShapeIsLocal
  <2>2. pending \in [Thread -> Seq(Post)] /\ CallInv
        /\ Ring(sessions, issued, call, up, down, pending, cmd, Leaving, run, Unsure)
    BY DEF SystemInv, TypesOK, RingInv
  <2>3. DOMAIN sessions \subseteq issued /\ NoCall \notin issued
    BY <2>2, TableFacts
  <2> QED BY <2>1, <2>2, <2>3, LocalKeeps
<1> QED BY <1>1, <1>2, <1>3, <1>4, <1>5 DEF SystemInv, RingInv

LEMMA ContextTyped ==
    /\ CallContext \in CallRecord /\ CallContext.callId = NoCall /\ CallContext.state = "Idle"
    /\ NoPc \in PcRecord /\ NoPc.id = NoId /\ NoPc.todo = {} /\ NoPc.st = "none"
    /\ NoPc.remote = NoId
BY DEF CallContext, CallRecord, AppState, NoPc, PcRecord, NoId, Arg, PcId

LEMMA CallKeeps ==
    ASSUME SystemInv, NEW u \in User, Call(u), UNCHANGED <<callVars, pending>>
    PROVE  SystemInv'
<1> DEFINE m == Message("error", NoCall, NoCall)
<1>1. TypesOK /\ TeardownOK(u, pc[u], gen[u], done[u], at[u])
  BY DEF SystemInv
<1>2. m.type = "error" /\ m.call = NoCall
  BY DEF Message
<1> HIDE DEF m
<1>3. Grows(up, up', u, m)
  BY <1>1, SameGrows DEF Call, TypesOK
<1>4. /\ call'[u].callId = call[u].callId /\ call'[u].state = "Calling"
      /\ call' \in [User -> CallRecord] /\ \A w \in User \ {u} : call'[w] = call[w]
  <2>1. call \in [User -> CallRecord] /\ call[u] \in CallRecord
    BY <1>1 DEF TypesOK
  <2> DEFINE r == [[call[u] EXCEPT !.state = "Calling"] EXCEPT !.is_caller = TRUE]
  <2>2. r \in CallRecord /\ r.callId = call[u].callId /\ r.state = "Calling"
    BY <2>1 DEF CallRecord, AppState
  <2>3. call' = [[call EXCEPT ![u].state = "Calling"] EXCEPT ![u].is_caller = TRUE]
    BY DEF Call
  <2>4. call' = [call EXCEPT ![u] = r]
    BY <2>1, <2>3
  <2> HIDE DEF r
  <2> QED BY <2>1, <2>2, <2>4
<1>5. /\ cmd' \in [User -> {"prompt", "create", "InCall", "Idle"}]
      /\ cmd[u] = "prompt" /\ \A w \in User \ {u} : cmd'[w] = cmd[w]
  BY <1>1 DEF Call, Prompt, TypesOK
<1>6. TypesOK'
  BY <1>1, <1>3, <1>4, <1>5 DEF TypesOK, Grows, Call
<1>7. Forgets(u, cmd, Leaving) => Forgets(u, cmd', Leaving')
  <2>1. Leaving' = Leaving
    BY SameClients DEF Call
  <2> QED BY <1>5, <2>1 DEF Forgets
<1>8. ClientShape(u, m)
  BY <1>2, <1>3, <1>4, <1>5, <1>7 DEF ClientShape, Call
<1> QED BY <1>1, <1>6, <1>8, ClientStep DEF Call

LEMMA CreateSentKeeps ==
    ASSUME SystemInv, NEW u \in User, NEW v \in User, Create(u, v),
           UNCHANGED <<callVars, pending>>
    PROVE  SystemInv'
<1> DEFINE m == Message("call.create", NoCall, v)
<1>1. TypesOK /\ TeardownOK(u, pc[u], gen[u], done[u], at[u])
  BY DEF SystemInv
<1>2. m \in Wire /\ m.type = "call.create" /\ m.call = NoCall /\ m.arg = v
  <2>1. "call.create" \in WireType /\ NoCall \in CallId \cup {NoCall} /\ v \in Arg
    BY DEF WireType, Arg
  <2> QED BY <2>1, MessageTyped
<1>3. Grows(up, up', u, m)
  BY <1>1, <1>2, WrittenGrows DEF Create, ws_send, TypesOK
<1> HIDE DEF m
<1>4. /\ cmd' \in [User -> {"prompt", "create", "InCall", "Idle"}]
      /\ cmd[u] = "create" /\ \A w \in User \ {u} : cmd'[w] = cmd[w]
      /\ call' = call
  BY <1>1 DEF Create, TypesOK
<1>5. TypesOK'
  BY <1>1, <1>3, <1>4 DEF TypesOK, Grows, Create
<1>6. Forgets(u, cmd, Leaving) => Forgets(u, cmd', Leaving')
  <2>1. Leaving' = Leaving
    BY SameClients DEF Create
  <2> QED BY <1>4, <2>1 DEF Forgets
<1>7. v # u
  BY DEF Create
<1>8. ClientShape(u, m)
  BY <1>2, <1>3, <1>4, <1>6, <1>7 DEF ClientShape, Create
<1> QED BY <1>1, <1>5, <1>8, ClientStep DEF Create

LEMMA CommandKeeps ==
    ASSUME SystemInv, NEW u \in User, NEW type \in WireType, NEW next,
           \/ type = "call.accept" /\ next = "InCall"
           \/ type \in {"call.reject", "call.hangup"} /\ next = "Idle",
           Command(u, type, next), UNCHANGED <<callVars, pending>>
    PROVE  SystemInv'
<1> DEFINE m == Message(type, call[u].callId, NoCall)
<1>1. TypesOK /\ TeardownOK(u, pc[u], gen[u], done[u], at[u])
  BY DEF SystemInv
<1>2. m \in Wire /\ m.type = type /\ m.call = call[u].callId
  <2>1. call[u].callId \in CallId \cup {NoCall}
    BY <1>1 DEF TypesOK, CallRecord
  <2> QED BY <2>1, MessageTyped DEF Arg
<1>3. Grows(up, up', u, m)
  BY <1>1, <1>2, WrittenGrows DEF Command, ws_send, TypesOK
<1> HIDE DEF m
<1>4. /\ cmd'[u] = next /\ cmd' \in [User -> {"prompt", "create", "InCall", "Idle"}]
      /\ \A w \in User \ {u} : cmd'[w] = cmd[w]
      /\ call' = call /\ Leaving' = Leaving /\ cmd[u] = "prompt"
  BY <1>1, SameClients DEF Command, TypesOK, Prompt
<1>5. TypesOK'
  BY <1>1, <1>3, <1>4 DEF TypesOK, Grows, Command
<1>6. Forgets(u, cmd, Leaving) => Forgets(u, cmd', Leaving')
  BY <1>4 DEF Forgets
<1>7. m.type \in {"call.reject", "call.hangup"} => Forgets(u, cmd', Leaving')
  BY <1>2, <1>4 DEF Forgets
<1>8. ClientShape(u, m)
  BY <1>2, <1>3, <1>4, <1>6, <1>7 DEF ClientShape, Command
<1> QED BY <1>1, <1>5, <1>8, ClientStep DEF Command

LEMMA AssignKeeps ==
    ASSUME SystemInv, NEW u \in User, Assign(u), UNCHANGED <<callVars, pending>>
    PROVE  SystemInv'
<1> DEFINE m == Message("error", NoCall, NoCall)
<1>1. TypesOK /\ TeardownOK(u, pc[u], gen[u], done[u], at[u])
  BY DEF SystemInv
<1>2. m.type = "error" /\ m.call = NoCall
  BY DEF Message
<1> HIDE DEF m
<1>3. Grows(up, up', u, m)
  BY <1>1, SameGrows DEF Assign, TypesOK
<1>4. /\ call'[u].callId \in {call[u].callId, NoCall} /\ call'[u].state # "Ringing"
      /\ call'[u] \in CallRecord
  <2>1. call[u] \in CallRecord /\ call'[u] = IF cmd[u] = "Idle" THEN CallContext
                                             ELSE [call[u] EXCEPT !.state = "InCall"]
    BY <1>1 DEF Assign, TypesOK
  <2> QED BY <2>1, ContextTyped DEF CallRecord, AppState
<1>5. call' \in [User -> CallRecord] /\ \A w \in User \ {u} : call'[w] = call[w]
  BY <1>1, <1>4 DEF Assign, TypesOK
<1>6. TypesOK'
  BY <1>1, <1>3, <1>5 DEF TypesOK, Grows, Assign
<1>7. \A w \in User \ {u} : cmd'[w] = cmd[w]
  BY <1>1 DEF Assign, TypesOK
<1>8. call'[u] # CallContext => (Forgets(u, cmd, Leaving) => Forgets(u, cmd', Leaving'))
  <2>1. Leaving' = Leaving
    BY SameClients DEF Assign
  <2>2. cmd[u] = "Idle" => call'[u] = CallContext
    BY <1>1 DEF Assign, TypesOK
  <2> QED BY <2>1, <2>2 DEF Forgets
<1>9. ClientShape(u, m)
  BY <1>2, <1>3, <1>4, <1>5, <1>7, <1>8 DEF ClientShape, Assign
<1> QED BY <1>1, <1>6, <1>9, ClientStep DEF Assign

LEMMA QuitKeeps ==
    ASSUME SystemInv, NEW u \in User, Quit(u), UNCHANGED <<callVars, pending>>
    PROVE  SystemInv'
<1> DEFINE m == Message("call.hangup", call[u].callId, NoCall)
<1>1. TypesOK /\ TeardownOK(u, pc[u], gen[u], done[u], at[u])
  BY DEF SystemInv
<1>2. m \in Wire /\ m.type = "call.hangup" /\ m.call = call[u].callId
  <2>1. call[u].callId \in CallId \cup {NoCall}
    BY <1>1 DEF TypesOK, CallRecord
  <2> QED BY <2>1, MessageTyped DEF Arg, WireType
<1>3. Grows(up, up', u, m)
  <2>1. Grows(up, Written(u, m), u, m) /\ Grows(up, up, u, m)
    BY <1>1, <1>2, WrittenGrows, SameGrows DEF TypesOK
  <2>2. up' = Written(u, m) \/ up' = up
    BY DEF Quit
  <2> QED BY <2>1, <2>2
<1> HIDE DEF m
<1>4. /\ call'[u] = CallContext /\ pc'[u] = NoPc /\ run'[u] = "quit"
      /\ call' \in [User -> CallRecord] /\ pc' \in [User -> PcRecord]
      /\ \A w \in User \ {u} : call'[w] = call[w] /\ pc'[w] = pc[w] /\ run'[w] = run[w]
  BY <1>1, ContextTyped DEF Quit, TypesOK
<1>5. TypesOK'
  BY <1>1, <1>3, <1>4 DEF TypesOK, Grows, Quit
<1>6. ClientShape(u, m)
  BY <1>2, <1>3, <1>4, ContextTyped DEF ClientShape, Quit
<1>7. TeardownOK(u, pc'[u], gen'[u], done'[u], at'[u])
  BY <1>1, <1>4, DropKeeps DEF Quit
<1> QED BY <1>5, <1>6, <1>7, ClientStep DEF Quit

LEMMA ReconnectedKeeps ==
    ASSUME SystemInv, NEW u \in User, Reconnected(u), UNCHANGED <<callVars, pending>>
    PROVE  SystemInv'
<1> DEFINE m == Message("error", NoCall, NoCall)
<1>1. TypesOK /\ TeardownOK(u, pc[u], gen[u], done[u], at[u])
  BY DEF SystemInv
<1>2. m.type = "error" /\ m.call = NoCall
  BY DEF Message
<1> HIDE DEF m
<1>3. Grows(up, up', u, m)
  BY <1>1, SameGrows DEF Reconnected, TypesOK
<1>4. /\ u \in Unsure /\ Unsure' = Unsure
      /\ Leaving' = Leaving
  <2>1. OfflineOK(run, Unsure)
    BY DEF SystemInv, RingInv, Ring
  <2> QED BY <2>1, SameClients DEF OfflineOK, Reconnected
<1>5. /\ run'[u] = "running" /\ \A w \in User \ {u} : run'[w] = run[w]
      /\ call' = call /\ cmd' = cmd
  BY <1>1 DEF Reconnected, TypesOK
<1>6. TypesOK'
  BY <1>1, <1>3 DEF TypesOK, Grows, Reconnected
<1>7. ClientShape(u, m)
  BY <1>2, <1>3, <1>4, <1>5 DEF ClientShape, Reconnected
<1> QED BY <1>1, <1>6, <1>7, ClientStep DEF Reconnected

LEMMA AnnounceKeeps ==
    ASSUME SystemInv, NEW u \in User, NEW next \in SUBSET WireType,
           NEW type \in {"webrtc.offer", "webrtc.answer", "webrtc.ice"},
           Announce(u, type, next), UNCHANGED <<callVars, pending>>
    PROVE  SystemInv'
<1> DEFINE m == Message(type, call[u].callId, pc[u].id)
<1>1. TypesOK /\ TeardownOK(u, pc[u], gen[u], done[u], at[u]) /\ pc[u] \in PcRecord
  BY DEF SystemInv, TypesOK
<1>2. m \in Wire /\ m.type = type /\ m.call = call[u].callId
  <2>1. call[u].callId \in CallId \cup {NoCall} /\ pc[u].id \in Arg /\ type \in WireType
    BY <1>1 DEF TypesOK, CallRecord, PcRecord, Arg, WireType
  <2> QED BY <2>1, MessageTyped
<1>3. Grows(up, up', u, m)
  BY <1>1, <1>2, WrittenGrows DEF Announce, ws_send, TypesOK
<1> HIDE DEF m
<1>4. pc[u] # NoPc
  BY ContextTyped DEF Announce
<1>5. /\ pc'[u] \in PcRecord /\ pc'[u].id = pc[u].id
      /\ \A w \in User \ {u} : pc'[w] = pc[w]
  <2> DEFINE more == (pc[u].todo \ {type}) \cup next
  <2>1. more \in SUBSET WireType
    BY <1>1 DEF PcRecord
  <2>2. pc'[u] = [pc[u] EXCEPT !.todo = more] /\ \A w \in User \ {u} : pc'[w] = pc[w]
    BY <1>1 DEF Announce, TypesOK
  <2> HIDE DEF more
  <2> QED BY <1>1, <2>1, <2>2 DEF PcRecord
<1>6. TypesOK'
  <2>1. pc' \in [User -> PcRecord]
    BY <1>1, <1>5 DEF Announce, TypesOK
  <2> QED BY <1>1, <1>3, <2>1 DEF TypesOK, Grows, Announce
<1>7. Leaving' = Leaving
  BY SameClients DEF Announce
<1>8. ClientShape(u, m)
  BY <1>2, <1>3, <1>5, <1>7 DEF ClientShape, Announce
<1>9. TeardownOK(u, pc'[u], gen'[u], done'[u], at'[u])
  BY <1>1, <1>4, <1>5, SamePcKeeps DEF Announce
<1> QED BY <1>6, <1>8, <1>9, ClientStep DEF Announce

LEMMA CleanupFacts ==
    ASSUME TypesOK, NEW u \in User, NEW thread \in Callback, cleanupCall(u, thread),
           at[u][thread] = IF thread = "ws" THEN "out" ELSE "failed",
           TeardownOK(u, pc[u], gen[u], done[u], at[u])
    PROVE  /\ done' \in [User -> BOOLEAN]
           /\ at' \in [User -> [Callback -> Stage]]
           /\ TeardownOK(u, pc[u], gen[u], done'[u], at'[u])
           /\ u \in Leaving => u \in Leaving'
           /\ \A w \in User \ {u} : done'[w] = done[w] /\ at'[w] = at[w]
<1>1. /\ done' \in [User -> BOOLEAN] /\ done'[u] = TRUE /\ done[u] \in BOOLEAN
      /\ \A w \in User \ {u} : done'[w] = done[w]
  BY DEF cleanupCall, TypesOK
<1> DEFINE x == IF done[u] THEN "out" ELSE "cleanup"
<1>2. x \in Stage /\ at' = [at EXCEPT ![u][thread] = x]
  BY DEF Stage, cleanupCall
<1>3. /\ at' \in [User -> [Callback -> Stage]]
      /\ at[u] \in [Callback -> Stage]
      /\ at'[u] = [at[u] EXCEPT ![thread] = x]
      /\ \A w \in User \ {u} : at'[w] = at[w]
  BY <1>2, StageTyped
<1>4. /\ TeardownOK(u, pc[u], gen[u], TRUE, at'[u])
      /\ Cleans(at[u]) \/ ~done[u] => Cleans(at'[u])
  <2>1. x = IF done[u] THEN "out" ELSE "cleanup"
    OBVIOUS
  <2> HIDE DEF x
  <2>2. at'[u][thread] = x /\ \A t \in Callback \ {thread} : at'[u][t] = at[u][t]
    BY <1>3
  <2>3. /\ thread = "ws" \/ thread = "rtc"
        /\ "ws" \in Callback /\ "rtc" \in Callback
    BY DEF Callback
  <2>4. Cleans(at[u]) \/ ~done[u] => Cleans(at'[u])
    BY <2>1, <2>2, <2>3 DEF Cleans
  <2>5. /\ at'[u]["ws"] = "init" => at[u]["ws"] = "init" /\ thread = "rtc"
        /\ thread = "ws" => at'[u]["rtc"] = at[u]["rtc"]
        /\ thread = "rtc" => at[u]["rtc"] # "out"
    BY <2>1, <2>2, <2>3
  <2>6. TeardownOK(u, pc[u], gen[u], TRUE, at'[u])
    BY <1>1, <2>3, <2>4, <2>5 DEF TeardownOK
  <2> QED BY <2>4, <2>6
<1>5. u \in Leaving => u \in Leaving'
  BY <1>4 DEF Leaving
<1> QED BY <1>1, <1>3, <1>4, <1>5

LEMMA ConnectedKeeps ==
    ASSUME SystemInv, NEW u \in User, Connected(u), UNCHANGED <<callVars, pending>>
    PROVE  SystemInv'
<1> DEFINE m == Message("error", NoCall, NoCall)
<1>1. TypesOK /\ TeardownOK(u, pc[u], gen[u], done[u], at[u]) /\ pc[u] \in PcRecord
  BY DEF SystemInv, TypesOK
<1>2. m.type = "error" /\ m.call = NoCall
  BY DEF Message
<1> HIDE DEF m
<1>3. Grows(up, up', u, m)
  BY <1>1, SameGrows DEF Connected, TypesOK
<1>4. pc[u] # NoPc
  BY ContextTyped DEF Connected
<1>5. /\ pc'[u].id = pc[u].id /\ pc' \in [User -> PcRecord]
      /\ \A w \in User \ {u} : pc'[w] = pc[w]
  BY <1>1 DEF Connected, TypesOK, PcRecord
<1>6. /\ call'[u].callId = call[u].callId /\ call'[u].state = "InCall"
      /\ call' \in [User -> CallRecord] /\ \A w \in User \ {u} : call'[w] = call[w]
  BY <1>1 DEF Connected, TypesOK, CallRecord, AppState
<1>7. TypesOK'
  BY <1>1, <1>3, <1>5, <1>6 DEF TypesOK, Grows, Connected
<1>10. Leaving' = Leaving
  BY SameClients DEF Connected
<1>8. ClientShape(u, m)
  BY <1>2, <1>3, <1>5, <1>6, <1>10 DEF ClientShape, Connected
<1>9. TeardownOK(u, pc'[u], gen'[u], done'[u], at'[u])
  BY <1>1, <1>4, <1>5, SamePcKeeps DEF Connected
<1> QED BY <1>7, <1>8, <1>9, ClientStep DEF Connected

LEMMA DisconnectedKeeps ==
    ASSUME SystemInv, NEW u \in User, Disconnected(u), UNCHANGED <<callVars, pending>>
    PROVE  SystemInv'
<1> DEFINE m == Message("error", NoCall, NoCall)
<1>1. TypesOK /\ TeardownOK(u, pc[u], gen[u], done[u], at[u]) /\ pc[u] \in PcRecord
  BY DEF SystemInv, TypesOK
<1>2. m.type = "error" /\ m.call = NoCall
  BY DEF Message
<1> HIDE DEF m
<1>3. Grows(up, up', u, m)
  BY <1>1, SameGrows DEF Disconnected, TypesOK
<1>4. pc[u] # NoPc
  BY ContextTyped DEF Disconnected
<1>5. /\ pc'[u].id = pc[u].id /\ pc' \in [User -> PcRecord]
      /\ \A w \in User \ {u} : pc'[w] = pc[w]
  BY <1>1 DEF Disconnected, TypesOK, PcRecord
<1>6. /\ call'[u] = CallContext
      /\ call' \in [User -> CallRecord] /\ \A w \in User \ {u} : call'[w] = call[w]
  BY <1>1, ContextTyped DEF Disconnected, TypesOK
<1>7. TypesOK'
  BY <1>1, <1>3, <1>5, <1>6 DEF TypesOK, Grows, Disconnected
<1>8. ClientShape(u, m)
  BY <1>2, <1>3, <1>5, <1>6, ContextTyped DEF ClientShape, Disconnected, Fail
<1>9. TeardownOK(u, pc'[u], gen'[u], done'[u], at'[u])
  BY <1>1, <1>4, <1>5, SamePcKeeps DEF Disconnected
<1> QED BY <1>7, <1>8, <1>9, ClientStep DEF Disconnected

(* onFailed on libdatachannel's thread: it either starts the clean-up or
   finds it under way. *)
LEMMA FailedKeeps ==
    ASSUME SystemInv, NEW u \in User, Failed(u), UNCHANGED <<callVars, pending>>
    PROVE  SystemInv'
<1> DEFINE m == Message("call.hangup", call[u].callId, NoCall)
<1>1. TypesOK /\ TeardownOK(u, pc[u], gen[u], done[u], at[u]) /\ pc[u] \in PcRecord
  BY DEF SystemInv, TypesOK
<1>2. m \in Wire /\ m.type = "call.hangup" /\ m.call = call[u].callId
  <2>1. call[u].callId \in CallId \cup {NoCall}
    BY <1>1 DEF TypesOK, CallRecord
  <2> QED BY <2>1, MessageTyped DEF Arg, WireType
<1>3. Grows(up, up', u, m)
  <2>1. Grows(up, Written(u, m), u, m) /\ Grows(up, up, u, m)
    BY <1>1, <1>2, WrittenGrows, SameGrows DEF TypesOK
  <2>2. up' = Written(u, m) \/ up' = up
    BY DEF Failed
  <2> QED BY <2>1, <2>2
<1> HIDE DEF m
<1>4. pc[u] # NoPc
  BY ContextTyped DEF Failed
<1>5. /\ pc'[u].id = pc[u].id /\ pc' \in [User -> PcRecord]
      /\ \A w \in User \ {u} : pc'[w] = pc[w]
  BY <1>1 DEF Failed, TypesOK, PcRecord
<1>6. /\ at' \in [User -> [Callback -> Stage]]
      /\ at[u] \in [Callback -> Stage]
      /\ at'[u] = [at[u] EXCEPT !["rtc"] = "failed"]
      /\ \A w \in User \ {u} : at'[w] = at[w]
  <2>1. "rtc" \in Callback /\ "failed" \in Stage
    BY DEF Callback, Stage
  <2> QED BY <1>1, <2>1, StageTyped DEF Failed
<1>7. TypesOK'
  BY <1>1, <1>3, <1>5, <1>6 DEF TypesOK, Grows, Failed
<1>8. /\ TeardownOK(u, pc'[u], gen[u], done[u], at'[u])
      /\ Cleans(at[u]) => Cleans(at'[u])
      /\ at'[u]["rtc"] = "failed"
  <2>1. at[u]["rtc"] = "out" /\ gen[u] \in Nat
    BY <1>1 DEF Failed, Free, Stands, TypesOK
  <2>2. at'[u]["ws"] = at[u]["ws"] /\ at'[u]["rtc"] = "failed"
    BY <1>6 DEF Callback
  <2>3. /\ "ws" \in Callback /\ "rtc" \in Callback
        /\ \A t \in Callback : t = "ws" \/ t = "rtc"
    BY DEF Callback
  <2>4. Cleans(at[u]) => Cleans(at'[u])
    BY <2>1, <2>2, <2>3 DEF Cleans
  <2>5. TeardownOK(u, pc'[u], gen[u], done[u], at'[u])
    BY <1>1, <1>4, <1>5, <2>1, <2>2, <2>4 DEF TeardownOK
  <2> QED BY <2>2, <2>4, <2>5
<1>9. done' = done /\ gen' = gen
  BY DEF Failed
<1>10. u \in Leaving => u \in Leaving'
  BY <1>8, <1>9 DEF Leaving
<1>11. Watched(u, run', Unsure') => u \in Leaving'
  <2>1. gen[u] \in Nat /\ <<"Failed", u>> \in term'
    BY <1>1 DEF TypesOK, Failed, Fail
  <2>2. u \notin Unsure' => gen[u] \in {0, 1}
    BY <1>9, <2>1 DEF Unsure, Misled
  <2>3. gen[u] \in {0, 1} => ~done[u] \/ Cleans(at[u])
    BY <1>1, <1>4 DEF TeardownOK
  <2> QED BY <1>8, <1>9, <2>2, <2>3 DEF Watched, Leaving
<1>12. ClientShape(u, m)
  BY <1>2, <1>3, <1>5, <1>6, <1>9, <1>10, <1>11 DEF ClientShape, Failed, Fail, Forgets
<1> QED BY <1>7, <1>8, <1>9, <1>12, ClientStep DEF Failed

LEMMA OnFailedKeeps ==
    ASSUME SystemInv, NEW u \in User, onFailed(u), UNCHANGED <<callVars, pending>>
    PROVE  SystemInv'
<1> DEFINE m == Message("error", NoCall, NoCall)
<1>1. TypesOK /\ TeardownOK(u, pc[u], gen[u], done[u], at[u])
  BY DEF SystemInv
<1>2. m.type = "error" /\ m.call = NoCall
  BY DEF Message
<1> HIDE DEF m
<1>3. Grows(up, up', u, m)
  BY <1>1, SameGrows DEF onFailed, TypesOK
<1>4. /\ done' \in [User -> BOOLEAN]
      /\ at' \in [User -> [Callback -> Stage]]
      /\ TeardownOK(u, pc[u], gen[u], done'[u], at'[u])
      /\ u \in Leaving => u \in Leaving'
      /\ \A w \in User \ {u} : done'[w] = done[w] /\ at'[w] = at[w]
  <2>1. /\ "rtc" \in Callback /\ cleanupCall(u, "rtc")
        /\ at[u]["rtc"] = IF "rtc" = "ws" THEN "out" ELSE "failed"
    BY DEF Callback, onFailed, Stands
  <2> QED BY <1>1, <2>1, CleanupFacts
<1>5. TypesOK'
  BY <1>1, <1>3, <1>4 DEF TypesOK, Grows, onFailed
<1>6. ClientShape(u, m)
  BY <1>2, <1>3, <1>4 DEF ClientShape, onFailed, Forgets
<1> QED BY <1>4, <1>5, <1>6, ClientStep DEF onFailed

LEMMA PcTyped ==
    ASSUME NEW i \in PcId, NEW r \in Arg, NEW todo \in SUBSET WireType
    PROVE  LET p == [id |-> i, remote |-> r, todo |-> todo, st |-> "new"]
           IN  p \in PcRecord /\ p.id = i
BY DEF PcRecord

LEMMA InitRtcKeeps ==
    ASSUME SystemInv, NEW u \in User, initRtc(u), UNCHANGED <<callVars, pending>>
    PROVE  SystemInv'
<1> DEFINE m == Message("error", NoCall, NoCall)
<1>1. TypesOK /\ TeardownOK(u, pc[u], gen[u], done[u], at[u])
  BY DEF SystemInv
<1>2. m.type = "error" /\ m.call = NoCall
  BY DEF Message
<1> HIDE DEF m
<1>3. Grows(up, up', u, m)
  BY <1>1, SameGrows DEF initRtc, TypesOK
<1>4. gen[u] \in Nat /\ gen[u] + 1 \in 0 .. MaxPc /\ done[u] \in BOOLEAN
  <2>1. gen[u] < MaxPc
    BY <1>1 DEF TeardownOK, initRtc, Stands
  <2> QED BY <1>1, <2>1, ClientAssumption DEF TypesOK
<1>5. /\ gen' \in [User -> 0 .. MaxPc] /\ gen'[u] = gen[u] + 1
      /\ \A w \in User \ {u} : gen'[w] = gen[w]
  BY <1>1, <1>4 DEF initRtc, TypesOK
<1>6. /\ pc' \in [User -> PcRecord] /\ pc'[u].id = <<u, gen[u] + 1>>
      /\ \A w \in User \ {u} : pc'[w] = pc[w]
  <2> DEFINE todo == IF call[u].state = "Calling" THEN {"webrtc.offer"} ELSE {}
             p == [id |-> <<u, gen[u] + 1>>, remote |-> NoId, st |-> "new", todo |-> todo]
  <2>1. <<u, gen[u] + 1>> \in PcId /\ todo \in SUBSET WireType /\ NoId \in Arg
    BY <1>4 DEF PcId, WireType, NoId, Arg
  <2>2. pc' = [pc EXCEPT ![u] = p]
    BY DEF initRtc
  <2> HIDE DEF todo
  <2>4. p \in PcRecord /\ p.id = <<u, gen[u] + 1>>
    BY <2>1, PcTyped
  <2> HIDE DEF p
  <2> QED BY <1>1, <2>2, <2>4 DEF TypesOK
<1>7. /\ at' \in [User -> [Callback -> Stage]]
      /\ at[u] \in [Callback -> Stage] /\ at[u]["ws"] = "init"
      /\ at'[u] = [at[u] EXCEPT !["ws"] = "out"]
      /\ \A w \in User \ {u} : at'[w] = at[w]
  <2>1. "ws" \in Callback /\ "out" \in Stage
    BY DEF Callback, Stage
  <2> QED BY <1>1, <2>1, StageTyped DEF initRtc, Stands
<1>8. TypesOK'
  BY <1>1, <1>3, <1>5, <1>6, <1>7 DEF TypesOK, Grows, initRtc
<1>9. u \in Leaving => u \in Leaving'
  <2>1. /\ \A t \in Callback : t = "ws" \/ t = "rtc"
        /\ at'[u]["rtc"] = at[u]["rtc"] /\ done' = done
    BY <1>7 DEF Callback, initRtc
  <2>2. Cleans(at[u]) => Cleans(at'[u])
    BY <1>7, <2>1 DEF Cleans
  <2> QED BY <2>1, <2>2 DEF Leaving
<1>10. gen[u] > 1 => gen'[u] > 1
  BY <1>4, <1>5
<1>11. ClientShape(u, m)
  BY <1>2, <1>3, <1>5, <1>6, <1>7, <1>9, <1>10 DEF ClientShape, initRtc, Forgets
<1>12. TeardownOK(u, pc'[u], gen'[u], done'[u], at'[u])
  <2>1. TeardownOK(u, pc'[u], gen[u] + 1, done[u], [at[u] EXCEPT !["ws"] = "out"])
    BY <1>1, <1>4, <1>6, <1>7, NewPcKeeps
  <2> QED BY <1>5, <1>7, <2>1 DEF initRtc
<1> QED BY <1>8, <1>11, <1>12, ClientStep DEF initRtc

LEMMA CleanupEndKeeps ==
    ASSUME SystemInv, NEW u \in User, NEW thread \in Callback, CleanupEnd(u, thread),
           UNCHANGED <<callVars, pending>>
    PROVE  SystemInv'
<1> DEFINE m == Message("error", NoCall, NoCall)
<1>1. TypesOK /\ TeardownOK(u, pc[u], gen[u], done[u], at[u]) /\ pc[u] \in PcRecord
  BY DEF SystemInv, TypesOK
<1>2. m.type = "error" /\ m.call = NoCall
  BY DEF Message
<1> HIDE DEF m
<1>3. Grows(up, up', u, m)
  BY <1>1, SameGrows DEF CleanupEnd, TypesOK
<1>4. /\ at' \in [User -> [Callback -> Stage]]
      /\ at[u] \in [Callback -> Stage]
      /\ at'[u] = [at[u] EXCEPT ![thread] = "out"]
      /\ \A w \in User \ {u} : at'[w] = at[w]
  <2>1. "out" \in Stage
    BY DEF Stage
  <2> QED BY <1>1, <2>1, StageTyped DEF CleanupEnd
<1>5. /\ call'[u] = CallContext /\ pc'[u] = NoPc
      /\ call' \in [User -> CallRecord] /\ pc' \in [User -> PcRecord]
      /\ \A w \in User \ {u} : call'[w] = call[w] /\ pc'[w] = pc[w]
  BY <1>1, ContextTyped DEF CleanupEnd, TypesOK
<1>6. TypesOK'
  BY <1>1, <1>3, <1>4, <1>5 DEF TypesOK, Grows, CleanupEnd
<1>7. ClientShape(u, m)
  BY <1>2, <1>3, <1>4, <1>5, ContextTyped DEF ClientShape, CleanupEnd
<1>8. TeardownOK(u, pc'[u], gen'[u], done'[u], at'[u])
  BY <1>1, <1>4, <1>5, StageKeeps DEF CleanupEnd
<1> QED BY <1>6, <1>7, <1>8, ClientStep DEF CleanupEnd

(* A step that also takes from the client's queue: the parts of SystemInv. *)
LEMMA ClientParts ==
    ASSUME SystemInv, NEW u \in User, UNCHANGED <<callVars, pending>>, TypesOK', CreateOK(up'),
           \A w \in User \ {u} : /\ pc'[w] = pc[w] /\ gen'[w] = gen[w] /\ done'[w] = done[w]
                                 /\ at'[w] = at[w],
           TeardownOK(u, pc'[u], gen'[u], done'[u], at'[u]),
           Ring(sessions, issued, call', up', down', pending, cmd', Leaving', run', Unsure')
    PROVE  SystemInv'
<1>1. sessions' = sessions /\ issued' = issued /\ pending' = pending
  BY DEF callVars
<1>2. CallInv'
  BY <1>1 DEF SystemInv, CallInv, CallTypeOK, OneCallPerUser, Calls
<1>3. \A v \in User : TeardownOK(v, pc'[v], gen'[v], done'[v], at'[v])
  <2> TAKE v \in User
  <2>1. CASE v = u
    BY <2>1
  <2>2. CASE v # u
    BY <2>2 DEF SystemInv
  <2> QED BY <2>1, <2>2
<1> QED BY <1>1, <1>2, <1>3 DEF SystemInv, RingInv

LEMMA OnCloseKeeps ==
    ASSUME SystemInv, NEW u \in User, onClose(u), UNCHANGED <<callVars, pending>>
    PROVE  SystemInv'
<1> DEFINE m == Message("error", NoCall, NoCall)
<1>1. TypesOK /\ TeardownOK(u, pc[u], gen[u], done[u], at[u]) /\ CallInv
      /\ Ring(sessions, issued, call, up, down, pending, cmd, Leaving, run, Unsure)
  BY DEF SystemInv, RingInv
<1>2. m.type = "error" /\ m.call = NoCall
  BY DEF Message
<1> HIDE DEF m
<1>3. Grows(up, up', u, m)
  <2>1. PICK n \in 0 .. Len(up[u]) : up' = [up EXCEPT ![u] = SubSeq(up[u], 1, n)]
    BY DEF onClose
  <2> QED BY <1>1, <2>1, PrefixGrows DEF TypesOK
<1>4. /\ done' \in [User -> BOOLEAN]
      /\ at' \in [User -> [Callback -> Stage]]
      /\ \A w \in User \ {u} : done'[w] = done[w] /\ at'[w] = at[w]
      /\ u \in Leaving => u \in Leaving'
      /\ TeardownOK(u, pc[u], gen[u], done'[u], at'[u])
  <2>1. CASE isInCall(u)
    <3>1. /\ "ws" \in Callback /\ cleanupCall(u, "ws")
          /\ at[u]["ws"] = IF "ws" = "ws" THEN "out" ELSE "failed"
      BY <2>1 DEF Callback, onClose, Free, Stands
    <3> QED BY <1>1, <3>1, CleanupFacts
  <2>2. CASE ~isInCall(u)
    <3>1. UNCHANGED <<done, at>>
      BY <2>2 DEF onClose
    <3> QED BY <1>1, <3>1, SameClients DEF TypesOK
  <2> QED BY <2>1, <2>2
<1>5. /\ run' \in [User -> {"running", "offline", "quit", "crashed"}] /\ run'[u] = "offline"
      /\ \A w \in User \ {u} : run'[w] = run[w]
      /\ down' = [down EXCEPT ![u] = <<>>] /\ down' \in [User -> Seq(Wire)]
      /\ u \in Unsure' /\ term \subseteq term'
  BY <1>1 DEF onClose, TypesOK, Fail, Unsure, Misled
<1>6. TypesOK'
  BY <1>1, <1>3, <1>4, <1>5 DEF TypesOK, Grows, onClose
<1>7. ClientShape(u, m)
  BY <1>2, <1>3, <1>4, <1>5 DEF ClientShape, onClose, Forgets
<1>8. Ring(sessions, issued, call', up', down, pending, cmd', Leaving', run', Unsure')
  <2>1. LocalStep(u, call, up, cmd, Leaving, run, Unsure,
                  call', up', cmd', Leaving', run', Unsure')
    BY <1>7, ShapeIsLocal
  <2>2. pending \in [Thread -> Seq(Post)] /\ DOMAIN sessions \subseteq issued /\ NoCall \notin issued
    BY <1>1, TableFacts DEF TypesOK
  <2> QED BY <1>1, <2>1, <2>2, LocalKeeps
<1>9. Ring(sessions, issued, call', up', down', pending, cmd', Leaving', run', Unsure')
  <2>1. ~Watched(u, run', Unsure')
    BY <1>5 DEF Watched
  <2>2. down \in [User -> Seq(Wire)] /\ pending \in [Thread -> Seq(Post)]
    BY <1>1 DEF TypesOK
  <2> QED BY <1>5, <1>8, <2>1, <2>2, LostKeeps
<1>10. CreateOK(up')
  BY <1>2, <1>3, GrowsCreate DEF SystemInv
<1>11. TeardownOK(u, pc'[u], gen'[u], done'[u], at'[u])
  BY <1>4 DEF onClose
<1>12. \A w \in User \ {u} : /\ pc'[w] = pc[w] /\ gen'[w] = gen[w] /\ done'[w] = done[w]
                             /\ at'[w] = at[w]
  BY <1>4 DEF onClose
<1> QED BY <1>6, <1>9, <1>10, <1>11, <1>12, ClientParts

----------------------------------------------------------------------------
(* handle: what the message does to the client (LocalStep), then the        *)
(* message leaves the queue (PopStep).                                      *)

HandleShape(u, m, cl) ==
    /\ LocalStep(u, call, up, cmd, Leaving, run, Unsure,
                 cl, up, cmd, Leaving', run', Unsure)
    /\ gen' = gen
    /\ PopStep(u, m, cl, call')
    /\ call' \in [User -> CallRecord]
    /\ pc' \in [User -> PcRecord]
    /\ done' \in [User -> BOOLEAN]
    /\ at' \in [User -> [Callback -> Stage]]
    /\ run' \in [User -> {"running", "offline", "quit", "crashed"}]
    /\ \A w \in User \ {u} : /\ pc'[w] = pc[w] /\ gen'[w] = gen[w] /\ done'[w] = done[w]
                             /\ at'[w] = at[w]
    /\ TeardownOK(u, pc'[u], gen'[u], done'[u], at'[u])

LEMMA HandleStep ==
    ASSUME SystemInv, NEW u \in User, NEW cl, HandleShape(u, Head(down[u]), cl),
           down[u] # <<>>, down' = [down EXCEPT ![u] = Tail(down[u])],
           UNCHANGED <<callVars, pending, cmd, up, term>>
    PROVE  SystemInv'
<1>1. TypesOK /\ CallInv /\ CreateOK(up)
      /\ Ring(sessions, issued, call, up, down, pending, cmd, Leaving, run, Unsure)
  BY DEF SystemInv, RingInv
<1>2. /\ pending \in [Thread -> Seq(Post)] /\ DOMAIN sessions \subseteq issued /\ NoCall \notin issued
      /\ down \in [User -> Seq(Wire)]
  BY <1>1, TableFacts DEF TypesOK
<1>3. Ring(sessions, issued, cl, up, down, pending, cmd, Leaving', run', Unsure)
  BY <1>1, <1>2, LocalKeeps DEF HandleShape
<1>4. Ring(sessions, issued, call', up, down', pending, cmd, Leaving', run', Unsure)
  <2>1. PopStep(u, Head(down[u]), cl, call')
    BY DEF HandleShape
  <2>2. down[u] # <<>> /\ down' = [down EXCEPT ![u] = Tail(down[u])]
    OBVIOUS
  <2> QED BY <1>2, <1>3, <2>1, <2>2, PopKeeps
<1>5. down' \in [User -> Seq(Wire)]
  BY <1>2, PopShifts
<1>6. TypesOK'
  BY <1>1, <1>5 DEF TypesOK, HandleShape
<1>7. up' = up /\ cmd' = cmd /\ Unsure' = Unsure
  BY DEF HandleShape, Unsure, Misled
<1>8. Ring(sessions, issued, call', up', down', pending, cmd', Leaving', run', Unsure')
  BY <1>4, <1>7
<1>9. CreateOK(up')
  BY <1>1, <1>7
<1>10. \A w \in User \ {u} : /\ pc'[w] = pc[w] /\ gen'[w] = gen[w] /\ done'[w] = done[w]
                             /\ at'[w] = at[w]
  BY DEF HandleShape
<1>11. TeardownOK(u, pc'[u], gen'[u], done'[u], at'[u])
  BY DEF HandleShape
<1> QED BY <1>6, <1>8, <1>9, <1>10, <1>11, ClientParts

(* A step that leaves the call, the queue and the clean-up alone. *)
LEMMA StillLocal ==
    ASSUME NEW u \in User, NEW cg2, NEW rn2,
           \A v \in User \ {u} : (v \in cg2 <=> v \in Leaving) /\ rn2[v] = run[v],
           u \in Leaving => u \in cg2, rn2[u] = run[u] \/ rn2[u] = "crashed"
    PROVE  LocalStep(u, call, up, cmd, Leaving, run, Unsure, call, up, cmd, cg2, rn2, Unsure)
<1>1. Forgets(u, cmd, Leaving) => Forgets(u, cmd, cg2)
  BY DEF Forgets
<1> QED BY <1>1 DEF LocalStep

LEMMA IncomingShape ==
    ASSUME TypesOK, NEW u \in User, NEW m \in Wire,
           \/ m.type = "call.incoming" /\ handleCallIncoming(u, m)
           \/ m.type = "call.created" /\ handleCallCreated(u, m),
           TeardownOK(u, pc[u], gen[u], done[u], at[u])
    PROVE  HandleShape(u, m, call)
<1>1. UNCHANGED <<pc, gen, done, at, run>>
  BY DEF handleCallIncoming, handleCallCreated
<1>2. LocalStep(u, call, up, cmd, Leaving, run, Unsure, call, up, cmd, Leaving', run', Unsure)
  BY <1>1, SameClients, StillLocal
<1>3. m.call \in CallId \cup {NoCall} /\ call[u] \in CallRecord
  BY DEF Wire, TypesOK
<1>4. /\ call' \in [User -> CallRecord] /\ \A v \in User \ {u} : call'[v] = call[v]
      /\ call'[u].callId = m.call /\ (m.type = "call.created" => call'[u].state = call[u].state)
  <2>1. CASE m.type = "call.incoming" /\ handleCallIncoming(u, m)
    BY <1>3, <2>1 DEF handleCallIncoming, TypesOK, CallRecord, AppState
  <2>2. CASE m.type = "call.created" /\ handleCallCreated(u, m)
    <3>1. [call[u] EXCEPT !.callId = m.call] \in CallRecord
      BY <1>3 DEF CallRecord
    <3> QED BY <1>3, <2>2, <3>1 DEF handleCallCreated, TypesOK, CallRecord
  <2> QED BY <2>1, <2>2
<1>5. PopStep(u, m, call, call')
  BY <1>4 DEF PopStep, News, Ending
<1> QED BY <1>1, <1>2, <1>4, <1>5 DEF HandleShape, TypesOK

LEMMA EndedShape ==
    ASSUME TypesOK, NEW u \in User, NEW m \in Wire, m.type \in Ending, handleCallEnded(u),
           at[u]["ws"] = "out", TeardownOK(u, pc[u], gen[u], done[u], at[u])
    PROVE  HandleShape(u, m, call')
<1>1. UNCHANGED <<pc, gen, run>>
  BY DEF handleCallEnded
<1>2. /\ done' \in [User -> BOOLEAN]
      /\ at' \in [User -> [Callback -> Stage]]
      /\ TeardownOK(u, pc[u], gen[u], done'[u], at'[u])
      /\ \A w \in User \ {u} : done'[w] = done[w] /\ at'[w] = at[w]
  <2>1. /\ "ws" \in Callback /\ cleanupCall(u, "ws")
        /\ at[u]["ws"] = IF "ws" = "ws" THEN "out" ELSE "failed"
    BY DEF Callback, handleCallEnded
  <2> QED BY <2>1, CleanupFacts
<1>3. /\ call'[u] = CallContext /\ call' \in [User -> CallRecord]
      /\ \A w \in User \ {u} : call'[w] = call[w]
  BY ContextTyped DEF handleCallEnded, TypesOK
<1>4. LocalStep(u, call, up, cmd, Leaving, run, Unsure, call', up, cmd, Leaving', run', Unsure)
  <2>1. \A w \in User \ {u} : w \in Leaving' <=> w \in Leaving
    BY <1>2, OthersLeave
  <2> QED BY <1>1, <1>2, <1>3, <2>1, ContextTyped DEF LocalStep
<1>5. PopStep(u, m, call', call')
  BY <1>3, ContextTyped DEF PopStep, News, Ending
<1> QED BY <1>1, <1>2, <1>3, <1>4, <1>5 DEF HandleShape, TypesOK

LEMMA ErrorShape ==
    ASSUME TypesOK, NEW u \in User, NEW m \in Wire, m.type = "error", handleError(u),
           at[u]["ws"] = "out", TeardownOK(u, pc[u], gen[u], done[u], at[u])
    PROVE  HandleShape(u, m, call)
<1>1. UNCHANGED <<call, pc, gen, run>>
  BY DEF handleError
<1>2. /\ done' \in [User -> BOOLEAN]
      /\ at' \in [User -> [Callback -> Stage]]
      /\ \A w \in User \ {u} : done'[w] = done[w] /\ at'[w] = at[w]
      /\ u \in Leaving => u \in Leaving'
      /\ TeardownOK(u, pc[u], gen[u], done'[u], at'[u])
  <2>1. CASE call[u].state = "Calling"
    <3>1. /\ "ws" \in Callback /\ cleanupCall(u, "ws")
          /\ at[u]["ws"] = IF "ws" = "ws" THEN "out" ELSE "failed"
      BY <2>1 DEF Callback, handleError
    <3> QED BY <3>1, CleanupFacts
  <2>2. CASE call[u].state # "Calling"
    <3>1. UNCHANGED <<done, at>>
      BY <2>2 DEF handleError
    <3> QED BY <3>1, SameClients DEF TypesOK
  <2> QED BY <2>1, <2>2
<1>3. LocalStep(u, call, up, cmd, Leaving, run, Unsure, call, up, cmd, Leaving', run', Unsure)
  <2>1. \A w \in User \ {u} : w \in Leaving' <=> w \in Leaving
    BY <1>2, OthersLeave
  <2> QED BY <1>1, <1>2, <2>1, StillLocal
<1>4. PopStep(u, m, call, call')
  BY <1>1 DEF PopStep, News, Ending
<1> QED BY <1>1, <1>2, <1>3, <1>4 DEF HandleShape, TypesOK

LEMMA ConfigShape ==
    ASSUME TypesOK, NEW u \in User, NEW m \in Wire, m.type = "rtc.config", handleRtcConfig(u),
           at[u]["ws"] = "out", TeardownOK(u, pc[u], gen[u], done[u], at[u])
    PROVE  HandleShape(u, m, call)
<1>1. UNCHANGED <<call, gen, run>>
  BY DEF handleRtcConfig
<1>2. /\ done' \in [User -> BOOLEAN] /\ done'[u] = FALSE
      /\ pc' \in [User -> PcRecord] /\ pc'[u] = NoPc
      /\ \A w \in User \ {u} : done'[w] = done[w] /\ pc'[w] = pc[w]
  BY ContextTyped DEF handleRtcConfig, TypesOK
<1>3. /\ at' \in [User -> [Callback -> Stage]]
      /\ at[u] \in [Callback -> Stage]
      /\ at'[u] = [at[u] EXCEPT !["ws"] = "init"]
      /\ \A w \in User \ {u} : at'[w] = at[w]
  <2>1. "ws" \in Callback /\ "init" \in Stage
    BY DEF Callback, Stage
  <2> QED BY <2>1, StageTyped DEF handleRtcConfig
<1>4. u \in Leaving => u \in Leaving'
  <2>1. /\ \A t \in Callback : t = "ws" \/ t = "rtc"
        /\ at'[u]["rtc"] = at[u]["rtc"]
    BY <1>3 DEF Callback
  <2>2. Cleans(at[u]) => Cleans(at'[u])
    BY <2>1 DEF Cleans
  <2> QED BY <1>2, <2>1, <2>2 DEF Leaving
<1>5. LocalStep(u, call, up, cmd, Leaving, run, Unsure, call, up, cmd, Leaving', run', Unsure)
  <2>1. \A w \in User \ {u} : w \in Leaving' <=> w \in Leaving
    BY <1>2, <1>3, OthersLeave
  <2> QED BY <1>1, <1>4, <2>1, StillLocal
<1>6. PopStep(u, m, call, call')
  BY <1>1 DEF PopStep, News, Ending
<1>7. TeardownOK(u, NoPc, gen[u], FALSE, at'[u])
  <2>1. gen[u] < MaxPc
    BY DEF handleRtcConfig
  <2> QED BY <1>3, <2>1, ResetKeeps
<1> QED BY <1>1, <1>2, <1>3, <1>5, <1>6, <1>7 DEF HandleShape, TypesOK

LEMMA ApplyShape ==
    ASSUME TypesOK, NEW u \in User, NEW m \in Wire, NEW newpc \in PcRecord, newpc.id = pc[u].id,
           m.type \notin News \cup Ending, Apply(u, newpc),
           TeardownOK(u, pc[u], gen[u], done[u], at[u])
    PROVE  HandleShape(u, m, call)
<1>1. UNCHANGED <<call, gen, done, at>>
  BY DEF Apply
<1>2. /\ pc' \in [User -> PcRecord] /\ run' \in [User -> {"running", "offline", "quit", "crashed"}]
      /\ \A w \in User \ {u} : pc'[w] = pc[w] /\ run'[w] = run[w]
      /\ pc'[u] = pc[u] \/ (pc[u] # NoPc /\ pc'[u] = newpc)
      /\ run'[u] = run[u] \/ run'[u] = "crashed"
  BY DEF Apply, TypesOK
<1>3. TeardownOK(u, pc'[u], gen[u], done[u], at[u])
  BY <1>2, SamePcKeeps
<1>4. LocalStep(u, call, up, cmd, Leaving, run, Unsure, call, up, cmd, Leaving', run', Unsure)
  BY <1>1, <1>2, SameClients, StillLocal
<1>5. PopStep(u, m, call, call')
  BY <1>1 DEF PopStep
<1> QED BY <1>1, <1>2, <1>3, <1>4, <1>5 DEF HandleShape, TypesOK

LEMMA IgnoreShape ==
    ASSUME TypesOK, NEW u \in User, NEW m \in Wire, m.type \notin News \cup Ending, Ignore,
           TeardownOK(u, pc[u], gen[u], done[u], at[u])
    PROVE  HandleShape(u, m, call)
<1>1. UNCHANGED <<call, pc, gen, done, at, run>>
  BY DEF Ignore
<1>2. LocalStep(u, call, up, cmd, Leaving, run, Unsure, call, up, cmd, Leaving', run', Unsure)
  BY <1>1, SameClients, StillLocal
<1>3. PopStep(u, m, call, call')
  BY <1>1 DEF PopStep
<1> QED BY <1>1, <1>2, <1>3 DEF HandleShape, TypesOK

LEMMA WebrtcShape ==
    ASSUME TypesOK, NEW u \in User, NEW m \in Wire,
           \/ m.type = "webrtc.offer" /\ handleWebrtcOffer(u, m)
           \/ m.type = "webrtc.answer" /\ handleWebrtcAnswer(u, m)
           \/ m.type = "webrtc.ice" /\ handleWebrtcIce(u),
           TeardownOK(u, pc[u], gen[u], done[u], at[u])
    PROVE  HandleShape(u, m, call)
<1>1. m.type \notin News \cup Ending
  BY DEF News, Ending
<1>2. pc[u] \in PcRecord /\ m.arg \in Arg
  BY DEF TypesOK, Wire
<1>3. CASE Ignore
  BY <1>1, <1>3, IgnoreShape
<1>4. CASE m.type = "webrtc.offer" /\ handleWebrtcOffer(u, m) /\ ~call[u].is_caller
  <2> DEFINE newpc == IF pc[u].remote = NoId
                      THEN [pc[u] EXCEPT !.remote = m.arg, !.todo = @ \cup {"webrtc.answer"}]
                      ELSE pc[u]
  <2>1. newpc \in PcRecord /\ newpc.id = pc[u].id
    <3>1. pc[u].todo \cup {"webrtc.answer"} \in SUBSET WireType
      BY <1>2 DEF PcRecord, WireType
    <3> QED BY <1>2, <3>1 DEF PcRecord
  <2>2. Apply(u, newpc)
    BY <1>4 DEF handleWebrtcOffer
  <2> QED BY <1>1, <2>1, <2>2, ApplyShape
<1>5. CASE m.type = "webrtc.answer" /\ handleWebrtcAnswer(u, m) /\ call[u].is_caller
  <2> DEFINE newpc == IF pc[u].remote = NoId THEN [pc[u] EXCEPT !.remote = m.arg] ELSE pc[u]
  <2>1. newpc \in PcRecord /\ newpc.id = pc[u].id
    BY <1>2 DEF PcRecord
  <2>2. Apply(u, newpc)
    BY <1>5 DEF handleWebrtcAnswer
  <2> QED BY <1>1, <2>1, <2>2, ApplyShape
<1>6. CASE m.type = "webrtc.ice" /\ handleWebrtcIce(u)
  BY <1>1, <1>2, <1>6, ApplyShape DEF handleWebrtcIce
<1> QED BY <1>3, <1>4, <1>5, <1>6 DEF handleWebrtcOffer, handleWebrtcAnswer

LEMMA HandleKeeps ==
    ASSUME SystemInv, NEW u \in User, handle(u), UNCHANGED <<callVars, pending>>
    PROVE  SystemInv'
<1> DEFINE m == Head(down[u])
<1>1. TypesOK /\ TeardownOK(u, pc[u], gen[u], done[u], at[u]) /\ down[u] # <<>>
  BY DEF SystemInv, handle
<1>2. m \in Wire
  BY <1>1, PopShifts DEF TypesOK
<1>3. \/ m.type = "call.incoming" /\ handleCallIncoming(u, m)
      \/ m.type = "call.created" /\ handleCallCreated(u, m)
      \/ m.type \in {"call.ended", "call.failed"} /\ handleCallEnded(u)
      \/ m.type = "error" /\ handleError(u)
      \/ m.type = "rtc.config" /\ handleRtcConfig(u)
      \/ m.type = "webrtc.offer" /\ handleWebrtcOffer(u, m)
      \/ m.type = "webrtc.answer" /\ handleWebrtcAnswer(u, m)
      \/ m.type = "webrtc.ice" /\ handleWebrtcIce(u)
  BY DEF handle
<1>4. at[u]["ws"] = "out"
  BY DEF handle, Free, Stands
<1> HIDE DEF m
<1>5. \E cl : HandleShape(u, m, cl)
  <2>1. CASE \/ m.type = "call.incoming" /\ handleCallIncoming(u, m)
             \/ m.type = "call.created" /\ handleCallCreated(u, m)
    <3>1. HandleShape(u, m, call)
      BY <1>1, <1>2, <2>1, IncomingShape
    <3> QED BY <3>1
  <2>2. CASE m.type \in {"call.ended", "call.failed"} /\ handleCallEnded(u)
    BY <1>1, <1>2, <1>4, <2>2, EndedShape DEF Ending
  <2>3. CASE m.type = "error" /\ handleError(u)
    BY <1>1, <1>2, <1>4, <2>3, ErrorShape
  <2>4. CASE m.type = "rtc.config" /\ handleRtcConfig(u)
    BY <1>1, <1>2, <1>4, <2>4, ConfigShape
  <2>5. CASE \/ m.type = "webrtc.offer" /\ handleWebrtcOffer(u, m)
             \/ m.type = "webrtc.answer" /\ handleWebrtcAnswer(u, m)
             \/ m.type = "webrtc.ice" /\ handleWebrtcIce(u)
    BY <1>1, <1>2, <2>5, WebrtcShape
  <2> QED BY <1>3, <2>1, <2>2, <2>3, <2>4, <2>5
<1>6. PICK cl : HandleShape(u, m, cl)
  BY <1>5
<1>7. /\ down' = [down EXCEPT ![u] = Tail(down[u])]
      /\ UNCHANGED <<callVars, pending, cmd, up, term>>
  BY DEF handle
<1> QED BY <1>1, <1>6, <1>7, HandleStep DEF m

----------------------------------------------------------------------------
(* The steps of the backend.                                                *)

(* A handler of u's connection: the table and the messages to send first,   *)
(* then the message it handles leaves the queue.                            *)
LEMMA RouteStep ==
    ASSUME SystemInv, CallInv', IsFiniteSet(issued'), NEW u \in User,
           up[u] # <<>>, up' = [up EXCEPT ![u] = Tail(up[u])],
           pending' \in [Thread -> Seq(Post)],
           UNCHANGED <<call, pc, gen, done, cmd, at, down, run, term>>,
           Ring(sessions', issued', call, up, down, pending', cmd, Leaving, run, Unsure)
    PROVE  SystemInv'
<1>1. TypesOK /\ CreateOK(up) /\ up \in [User -> Seq(Wire)]
  BY DEF SystemInv, TypesOK
<1> DEFINE m == Message("error", NoCall, NoCall)
<1>2. Grows(up, up', u, m)
  BY <1>1, TailGrows
<1>3. m.type = "error"
  BY DEF Message
<1> HIDE DEF m
<1>4. CreateOK(up')
  BY <1>1, <1>2, <1>3, GrowsCreate
<1>5. \A k \in 1 .. Len(up'[u]) : \E j \in 1 .. Len(up[u]) : up'[u][k] = up[u][j]
  <2>1. /\ Len(up[u]) \in Nat \ {0} /\ Len(up'[u]) = Len(up[u]) - 1
        /\ \A i \in 1 .. Len(up'[u]) : up'[u][i] = up[u][i + 1]
    BY <1>1, PopShifts
  <2>2. \A i \in 1 .. Len(up'[u]) : i + 1 \in 1 .. Len(up[u])
    BY <2>1
  <2> QED BY <2>1, <2>2
<1>6. LocalStep(u, call, up, cmd, Leaving, run, Unsure, call, up', cmd, Leaving, run, Unsure)
  BY <1>2, <1>5 DEF LocalStep, Grows
<1>7. Ring(sessions', issued', call, up', down, pending', cmd, Leaving, run, Unsure)
  <2>1. DOMAIN sessions' \subseteq issued' /\ NoCall \notin issued'
    BY ClientAssumption DEF CallInv, CallTypeOK, Calls
  <2> QED BY <1>6, <2>1, LocalKeeps
<1>8. RingInv'
  BY <1>7, SameClients DEF RingInv
<1>9. TypesOK'
  BY <1>1, <1>2 DEF TypesOK, Grows
<1> QED BY <1>4, <1>8, <1>9 DEF SystemInv

(* A handler that begins no call. *)
LEMMA RouteTable ==
    ASSUME SystemInv, CallInv', issued' = issued, NEW u \in User, NEW msgs \in Seq(Post),
           pending[u] = <<>>, Queue(u, msgs),
           TableStep(u, msgs, sessions, sessions', issued, up),
           up[u] # <<>>, up' = [up EXCEPT ![u] = Tail(up[u])],
           UNCHANGED <<call, pc, gen, done, cmd, at, run, term>>
    PROVE  SystemInv'
<1>1. /\ pending \in [Thread -> Seq(Post)] /\ IsFiniteSet(issued)
      /\ Ring(sessions, issued, call, up, down, pending, cmd, Leaving, run, Unsure)
  BY DEF SystemInv, TypesOK, RingInv
<1>2. u \in Thread /\ pending' = [pending EXCEPT ![u] = msgs] /\ down' = down
  BY DEF Thread, Queue
<1>3. pending' \in [Thread -> Seq(Post)]
  BY <1>1, <1>2
<1>4. Ring(sessions', issued, call, up, down, pending', cmd, Leaving, run, Unsure)
  <2>1. DOMAIN sessions \subseteq issued /\ NoCall \notin issued
    BY TableFacts DEF SystemInv
  <2> QED BY <1>1, <1>2, <2>1, TableKeeps
<1> QED BY <1>1, <1>2, <1>3, <1>4, RouteStep

(* The message at the head of a user's queue. *)
LEMMA UpHead ==
    ASSUME SystemInv, NEW u \in User, up[u] # <<>>
    PROVE  /\ Head(up[u]) \in Wire
           /\ Head(up[u]).call \in issued \cup {NoCall}
           /\ Head(up[u]).type = "call.create" => Head(up[u]).arg \in User \ {u}
           /\ Head(up[u]).type \in {"call.reject", "call.hangup"} => Asks(u, Head(up[u]).call, up)
<1>1. up \in [User -> Seq(Wire)] /\ CreateOK(up)
      /\ MentionOK(issued, call, up, down, pending)
  BY DEF SystemInv, TypesOK, RingInv, Ring
<1>2. up[u] \in Seq(Wire)
  BY <1>1
<1>3. Head(up[u]) = up[u][1] /\ 1 \in 1 .. Len(up[u])
  <2>1. Len(up[u]) \in Nat \ {0}
    BY <1>2, EmptySeq
  <2>2. Head(up[u]) = up[u][1]
    BY <1>2
  <2> QED BY <2>1, <2>2
<1>4. Head(up[u]) \in Wire
  BY <1>2, <1>3, ElementOfSeq
<1> HIDE DEF SystemInv
<1>5. Head(up[u]).call \in issued \cup {NoCall}
  BY <1>1, <1>3 DEF MentionOK
<1>6. Head(up[u]).type = "call.create" => Head(up[u]).arg \in User \ {u}
  BY <1>1, <1>3 DEF CreateOK
<1>7. Head(up[u]).type \in {"call.reject", "call.hangup"} => Asks(u, Head(up[u]).call, up)
  BY <1>3 DEF Asks
<1> QED BY <1>4, <1>5, <1>6, <1>7

LEMMA TellTyped ==
    ASSUME NEW u \in User, NEW type \in WireType, NEW c \in CallId \cup {NoCall}
    PROVE  /\ Tell(u, type, c) \in Post /\ Tell(u, type, c).to = u
           /\ Tell(u, type, c).msg.type = type /\ Tell(u, type, c).msg.call = c
<1>1. Message(type, c, NoCall) \in Wire /\ Message(type, c, NoCall).type = type
      /\ Message(type, c, NoCall).call = c
  BY MessageTyped DEF Arg
<1> QED BY <1>1 DEF Tell, To, Post

LEMMA SingleTyped ==
    ASSUME NEW p \in Post
    PROVE  <<p>> \in Seq(Post) /\ Len(<<p>>) = 1 /\ <<p>>[1] = p
OBVIOUS

LEMMA PairTyped ==
    ASSUME NEW p \in Post, NEW q \in Post
    PROVE  /\ <<p, q>> \in Seq(Post) /\ Len(<<p, q>>) = 2
           /\ \A i \in 1 .. Len(<<p, q>>) : <<p, q>>[i] \in {p, q}
OBVIOUS

(* A handler that refuses, relays or changes only the state of a call. *)
LEMMA QuietTable ==
    ASSUME NEW u, NEW msgs, NEW ss, NEW ss2, NEW is, NEW uq, DOMAIN ss2 = DOMAIN ss,
           \A c \in DOMAIN ss2 : /\ ss2[c].callerId = ss[c].callerId
                                 /\ ss2[c].calleeId = ss[c].calleeId
                                 /\ ss2[c].age = ss[c].age,
           \A i \in 1 .. Len(msgs) :
              msgs[i].msg.type \notin News /\ msgs[i].msg.call \in is \cup {NoCall}
    PROVE  TableStep(u, msgs, ss, ss2, is, uq)
BY DEF TableStep

\* What every handler of u's connection does besides.
Handles(u) ==
    /\ pending[u] = <<>> /\ up[u] # <<>>
    /\ up' = [up EXCEPT ![u] = Tail(up[u])]
    /\ UNCHANGED <<call, pc, gen, done, cmd, at, run, term>>

LEMMA RefuseKeeps ==
    ASSUME SystemInv, NEW u \in User, Handles(u), Refuse(u)
    PROVE  SystemInv'
<1> DEFINE p == Tell(u, "error", NoCall)
<1>1. p \in Post /\ p.msg.type = "error" /\ p.msg.call = NoCall
  BY TellTyped DEF WireType
<1>2. Queue(u, <<p>>) /\ sessions' = sessions /\ issued' = issued
  BY DEF Refuse, callVars
<1> HIDE DEF p
<1>3. <<p>> \in Seq(Post) /\ Len(<<p>>) = 1 /\ <<p>>[1] = p
  BY <1>1, SingleTyped
<1>4. \A i \in 1 .. Len(<<p>>) : <<p>>[i] = p
  BY <1>3
<1>5. TableStep(u, <<p>>, sessions, sessions', issued, up)
  BY <1>1, <1>2, <1>4, QuietTable DEF News
<1>6. CallInv'
  BY <1>2 DEF SystemInv, CallInv, CallTypeOK, OneCallPerUser, Calls
<1> QED BY <1>2, <1>3, <1>5, <1>6, RouteTable DEF Handles

LEMMA RelayKeeps ==
    ASSUME SystemInv, NEW u \in User, NEW m \in Wire, m.call \in issued \cup {NoCall},
           m.type \notin News, Handles(u), onWebrtcRelay(u, m)
    PROVE  SystemInv'
<1>1. CASE Refuse(u)
  BY <1>1, RefuseKeeps
<1>2. CASE m.call \in Calls /\ Queue(u, <<To(Other(sessions[m.call], u), m)>>)
           /\ UNCHANGED callVars
  <2> DEFINE p == To(Other(sessions[m.call], u), m)
  <2>1. sessions[m.call] \in CallSession
    BY <1>2 DEF SystemInv, CallInv, CallTypeOK
  <2>2. Other(sessions[m.call], u) \in User
    BY <2>1 DEF Other, CallSession
  <2>3. p \in Post /\ p.msg = m
    BY <2>2 DEF To, Post
  <2>4. Queue(u, <<p>>) /\ sessions' = sessions /\ issued' = issued
    BY <1>2 DEF callVars
  <2> HIDE DEF p
  <2>5. <<p>> \in Seq(Post) /\ Len(<<p>>) = 1 /\ <<p>>[1] = p
    BY <2>3, SingleTyped
  <2>6. \A i \in 1 .. Len(<<p>>) : <<p>>[i] = p
    BY <2>5
  <2>7. TableStep(u, <<p>>, sessions, sessions', issued, up)
    BY <2>3, <2>4, <2>6, QuietTable
  <2>8. CallInv'
    BY <2>4 DEF SystemInv, CallInv, CallTypeOK, OneCallPerUser, Calls
  <2> QED BY <2>4, <2>5, <2>7, <2>8, RouteTable DEF Handles
<1> QED BY <1>1, <1>2 DEF onWebrtcRelay

LEMMA AcceptedKeeps ==
    ASSUME SystemInv, NEW u \in User, NEW c \in issued \cup {NoCall}, Handles(u),
           onCallAccept(u, c)
    PROVE  SystemInv'
<1>1. CASE Refuse(u)
  BY <1>1, RefuseKeeps
<1>2. CASE /\ accept(c, u)
           /\ Queue(u, <<Tell(sessions[c].callerId, "rtc.config", c),
                         Tell(sessions[c].calleeId, "rtc.config", c)>>)
  <2> DEFINE p == Tell(sessions[c].callerId, "rtc.config", c)
             q == Tell(sessions[c].calleeId, "rtc.config", c)
  <2>1. c \in Calls
    BY <1>2, Zenon DEF accept, ringingError
  <2>2. CallInv /\ sessions \in [Calls -> CallSession]
    BY DEF SystemInv, CallInv, CallTypeOK
  <2>3. sessions[c].callerId \in User /\ sessions[c].calleeId \in User
    BY <2>1, <2>2 DEF CallSession
  <2>4. c \in CallId
    BY <2>1, <2>2, TableFacts DEF Calls
  <2>5. /\ p \in Post /\ p.msg.type = "rtc.config" /\ p.msg.call = c
        /\ q \in Post /\ q.msg.type = "rtc.config" /\ q.msg.call = c
    BY <2>3, <2>4, TellTyped DEF WireType
  <2>6. Queue(u, <<p, q>>)
    BY <1>2
  <2> HIDE DEF p, q
  <2>7. <<p, q>> \in Seq(Post) /\ \A i \in 1 .. Len(<<p, q>>) : <<p, q>>[i] \in {p, q}
    BY <2>5, PairTyped
  <2>8. issued' = issued /\ sessions' = [sessions EXCEPT ![c].state = "Active"]
    BY <1>2 DEF accept
  <2>9. /\ DOMAIN sessions' = DOMAIN sessions
        /\ \A d \in DOMAIN sessions' : /\ sessions'[d].callerId = sessions[d].callerId
                                       /\ sessions'[d].calleeId = sessions[d].calleeId
                                       /\ sessions'[d].age = sessions[d].age
    BY <2>1, <2>2, <2>8 DEF CallSession, Calls
  <2>10. \A i \in 1 .. Len(<<p, q>>) : /\ <<p, q>>[i].msg.type \notin News
                                       /\ <<p, q>>[i].msg.call \in issued \cup {NoCall}
    BY <2>5, <2>7 DEF News
  <2>11. TableStep(u, <<p, q>>, sessions, sessions', issued, up)
    BY <2>9, <2>10, QuietTable
  <2>12. CallInv'
    BY <1>2, <2>1, <2>2, AcceptKeeps
  <2> QED BY <2>6, <2>7, <2>8, <2>11, <2>12, RouteTable DEF Handles
<1> QED BY <1>1, <1>2 DEF onCallAccept

(* A call ends at the request of one of its parties and the other is told.  *)
LEMMA EndKeeps ==
    ASSUME SystemInv, NEW u \in User, NEW c \in Calls, Handles(u),
           u \in Parties(sessions[c]), Asks(u, c, up),
           sessions' = Erase(sessions, {c}), issued' = issued,
           Queue(u, <<Tell(Other(sessions[c], u), "call.ended", c)>>)
    PROVE  SystemInv'
<1> DEFINE p == Tell(Other(sessions[c], u), "call.ended", c)
<1>1. CallInv /\ sessions \in [Calls -> CallSession]
  BY DEF SystemInv, CallInv, CallTypeOK
<1>2. c \in CallId /\ c \in issued
  BY <1>1, TableFacts DEF Calls
<1>3. Other(sessions[c], u) \in User
  BY <1>1 DEF Other, CallSession
<1>4. /\ p \in Post /\ p.to = Other(sessions[c], u)
      /\ p.msg.type = "call.ended" /\ p.msg.call = c
  BY <1>2, <1>3, TellTyped DEF WireType
<1>5. Queue(u, <<p>>)
  OBVIOUS
<1> HIDE DEF p
<1>6. <<p>> \in Seq(Post) /\ Len(<<p>>) = 1 /\ <<p>>[1] = p
  BY <1>4, SingleTyped
<1>7. \A i \in 1 .. Len(<<p>>) : <<p>>[i] = p
  BY <1>6
<1>8. /\ DOMAIN sessions' = DOMAIN sessions \ {c}
      /\ \A d \in DOMAIN sessions' : sessions'[d] = sessions[d]
  BY DEF Erase, Restrict
<1>9. /\ sessions[c].callerId = u \/ Asks(sessions[c].calleeId, c, up)
      /\ \A v \in Parties(sessions[c]) :
            \/ \E i \in 1 .. Len(<<p>>) : <<p>>[i].to = v /\ <<p>>[i].msg.type \in Ending
            \/ Asks(v, c, up)
  <2>1. sessions[c].callerId = u \/ Asks(sessions[c].calleeId, c, up)
    BY DEF Parties
  <2>2. ASSUME NEW v \in Parties(sessions[c]), v # u
        PROVE  \E i \in 1 .. Len(<<p>>) : <<p>>[i].to = v /\ <<p>>[i].msg.type \in Ending
    <3>1. p.to = v /\ p.msg.type \in Ending
      BY <1>4, <2>2 DEF Other, Parties, Ending
    <3>2. 1 \in 1 .. Len(<<p>>)
      BY <1>6
    <3> QED BY <1>6, <3>1, <3>2
  <2> QED BY <2>1, <2>2
<1>10. \A i \in 1 .. Len(<<p>>) : /\ <<p>>[i].msg.type \notin News
                                  /\ <<p>>[i].msg.call \in issued \cup {NoCall}
  BY <1>2, <1>4, <1>7 DEF News
<1>11. TableStep(u, <<p>>, sessions, sessions', issued, up)
  BY <1>8, <1>9, <1>10 DEF TableStep
<1>12. CallInv'
  BY <1>1, EraseKeeps
<1> QED BY <1>5, <1>6, <1>11, <1>12, RouteTable DEF Handles

LEMMA RejectedKeeps ==
    ASSUME SystemInv, NEW u \in User, NEW c, Handles(u), Asks(u, c, up), onCallReject(u, c)
    PROVE  SystemInv'
<1>1. CASE Refuse(u)
  BY <1>1, RefuseKeeps
<1>2. CASE reject(c, u) /\ Queue(u, <<Tell(sessions[c].callerId, "call.ended", c)>>)
  <2>1. c \in Calls /\ sessions[c].calleeId = u
    BY <1>2, Zenon DEF reject, ringingError
  <2>2. sessions[c].callerId # u
    BY <2>1 DEF SystemInv, RingInv, Ring, PairsOK, Calls
  <2>3. Other(sessions[c], u) = sessions[c].callerId /\ u \in Parties(sessions[c])
    BY <2>1, <2>2 DEF Other, Parties
  <2> QED BY <1>2, <2>1, <2>3, EndKeeps DEF reject
<1> QED BY <1>1, <1>2 DEF onCallReject

LEMMA HungUpKeeps ==
    ASSUME SystemInv, NEW u \in User, NEW c, Handles(u), Asks(u, c, up), onCallHangup(u, c)
    PROVE  SystemInv'
<1>1. CASE Refuse(u)
  BY <1>1, RefuseKeeps
<1>2. CASE hangup(c, u) /\ Queue(u, <<Tell(Other(sessions[c], u), "call.ended", c)>>)
  <2>1. c \in Calls /\ u \in Parties(sessions[c])
    BY <1>2, Zenon DEF hangup, hangupError
  <2> QED BY <1>2, <2>1, EndKeeps DEF hangup
<1> QED BY <1>1, <1>2 DEF onCallHangup

LEMMA CreatedKeeps ==
    ASSUME SystemInv, NEW u \in User, NEW v \in User \ {u}, Handles(u), onCallCreate(u, v)
    PROVE  SystemInv'
<1>1. CASE Refuse(u)
  BY <1>1, RefuseKeeps
<1>2. ASSUME NEW c \in CallId, create(u, v, c),
             Queue(u, <<Tell(u, "call.created", c), Tell(v, "call.incoming", c)>>)
      PROVE  SystemInv'
  <2> DEFINE s == [callerId |-> u, calleeId |-> v, state |-> "Ringing", age |-> 0]
             msgs == <<Tell(u, "call.created", c), Tell(v, "call.incoming", c)>>
  <2>1. /\ c \notin issued /\ issued' = issued \cup {c} /\ sessions' = Put(sessions, c, s)
    BY <1>2 DEF create
  <2>2. /\ CallInv /\ IsFiniteSet(issued) /\ pending \in [Thread -> Seq(Post)]
        /\ Ring(sessions, issued, call, up, down, pending, cmd, Leaving, run, Unsure)
    BY DEF SystemInv, TypesOK, RingInv
  <2>3. DOMAIN sessions \subseteq issued
    BY <2>2, TableFacts
  <2>4. /\ DOMAIN sessions' = DOMAIN sessions \cup {c}
        /\ \A d \in DOMAIN sessions : sessions'[d] = sessions[d]
        /\ sessions'[c].callerId = u /\ sessions'[c].calleeId = v /\ sessions'[c].age = 0
    BY <2>1, <2>3 DEF Put
  <2>5. c # NoCall
    BY ClientAssumption
  <2>6. msgs \in Seq(Post)
    <3>1. Tell(u, "call.created", c) \in Post /\ Tell(v, "call.incoming", c) \in Post
      BY TellTyped DEF WireType
    <3> QED BY <3>1, PairTyped
  <2>7. pending' = [pending EXCEPT ![u] = msgs] /\ down' = down /\ pending[u] = <<>> /\ u \in Thread
    BY <1>2 DEF Queue, Handles, Thread
  <2>8. pending' \in [Thread -> Seq(Post)]
    BY <2>2, <2>6, <2>7
  <2>9. Ring(sessions', issued', call, up, down, pending', cmd, Leaving, run, Unsure)
    <3>1. v \in User /\ u # v
      OBVIOUS
    <3>2. BeginStep(u, v, c, sessions, issued, pending, sessions', issued', pending')
      BY <2>1, <2>4, <2>7 DEF BeginStep
    <3> QED BY <2>1, <2>2, <2>3, <2>5, <3>1, <3>2, BeginKeeps
  <2>10. IsFiniteSet(issued')
    BY <2>1, <2>2, FS_AddElement
  <2>11. CallInv'
    BY <1>2, <2>2, CreateKeeps
  <2> QED BY <2>7, <2>8, <2>9, <2>10, <2>11, RouteStep DEF Handles
<1> QED BY <1>1, <1>2 DEF onCallCreate

LEMMA RouteKeeps ==
    ASSUME SystemInv, NEW u \in User, Route(u)
    PROVE  SystemInv'
<1> DEFINE m == Head(up[u])
<1>1. Handles(u) /\ up[u] # <<>>
  BY DEF Route, Handles
<1>2. /\ m \in Wire
      /\ m.call \in issued \cup {NoCall}
      /\ m.type = "call.create" => m.arg \in User \ {u}
      /\ m.type \in {"call.reject", "call.hangup"} => Asks(u, m.call, up)
  BY <1>1, UpHead
<1>3. \/ m.type = "call.create" /\ onCallCreate(u, m.arg)
      \/ m.type = "call.accept" /\ onCallAccept(u, m.call)
      \/ m.type = "call.reject" /\ onCallReject(u, m.call)
      \/ m.type = "call.hangup" /\ onCallHangup(u, m.call)
      \/ m.type \in {"webrtc.offer", "webrtc.answer", "webrtc.ice"} /\ onWebrtcRelay(u, m)
  BY DEF Route
<1> HIDE DEF m
<1>4. CASE m.type = "call.create" /\ onCallCreate(u, m.arg)
  BY <1>1, <1>2, <1>4, CreatedKeeps
<1>5. CASE m.type = "call.accept" /\ onCallAccept(u, m.call)
  BY <1>1, <1>2, <1>5, AcceptedKeeps
<1>6. CASE m.type = "call.reject" /\ onCallReject(u, m.call)
  BY <1>1, <1>2, <1>6, RejectedKeeps
<1>7. CASE m.type = "call.hangup" /\ onCallHangup(u, m.call)
  BY <1>1, <1>2, <1>7, HungUpKeeps
<1>8. CASE m.type \in {"webrtc.offer", "webrtc.answer", "webrtc.ice"} /\ onWebrtcRelay(u, m)
  <2>1. m.type \notin News
    BY <1>8 DEF News
  <2> QED BY <1>1, <1>2, <1>8, <2>1, RelayKeeps
<1> QED BY <1>3, <1>4, <1>5, <1>6, <1>7, <1>8

(* WsServer::send appends to the queue of a user who is connected. *)
LEMMA DeliverAppends ==
    ASSUME NEW dn \in [User -> Seq(Wire)], NEW p \in Post
    PROVE  /\ Deliver(dn, p) \in [User -> Seq(Wire)]
           /\ Appended(dn, Deliver(dn, p), p.to, p.msg)
           /\ run[p.to] = "running" => Len(Deliver(dn, p)[p.to]) = Len(dn[p.to]) + 1
<1>1. p.to \in User /\ p.msg \in Wire
  BY DEF Post
<1>2. CASE run[p.to] = "running"
  <2> DEFINE s == Append(dn[p.to], p.msg)
             dn2 == [dn EXCEPT ![p.to] = s]
  <2>1. Deliver(dn, p) = dn2
    BY <1>2 DEF Deliver
  <2>2. dn[p.to] \in Seq(Wire)
    BY <1>1
  <2>3. /\ s \in Seq(Wire) /\ Len(s) = Len(dn[p.to]) + 1
        /\ \A k \in 1 .. Len(dn[p.to]) : s[k] = dn[p.to][k]
        /\ s[Len(dn[p.to]) + 1] = p.msg
    BY <1>1, <2>2, AppendProperties
  <2> HIDE DEF s
  <2>4. /\ dn2 \in [User -> Seq(Wire)] /\ dn2[p.to] = s
        /\ \A w \in User \ {p.to} : dn2[w] = dn[w]
    BY <1>1, <2>3
  <2> HIDE DEF dn2
  <2>5. Appended(dn, dn2, p.to, p.msg)
    BY <2>3, <2>4 DEF Appended
  <2> QED BY <2>1, <2>3, <2>4, <2>5
<1>3. CASE run[p.to] # "running"
  BY <1>3 DEF Deliver, Appended
<1> QED BY <1>2, <1>3

LEMMA SentKeeps ==
    ASSUME SystemInv, NEW t \in Thread, Send(t)
    PROVE  SystemInv'
<1> DEFINE p == Head(pending[t])
<1>1. /\ TypesOK /\ CallInv /\ down \in [User -> Seq(Wire)] /\ pending \in [Thread -> Seq(Post)]
      /\ Ring(sessions, issued, call, up, down, pending, cmd, Leaving, run, Unsure)
  BY DEF SystemInv, TypesOK, RingInv
<1>2. /\ pending[t] # <<>> /\ pending' = [pending EXCEPT ![t] = Tail(pending[t])]
      /\ down' = Deliver(down, p)
  BY DEF Send
<1>3. sessions' = sessions /\ issued' = issued
      /\ UNCHANGED <<call, pc, gen, done, cmd, at, up, run, term>>
  BY DEF Send, callVars
<1>4. p \in Post /\ pending' \in [Thread -> Seq(Post)]
  BY <1>1, <1>2, TakeShifts
<1>5. /\ down' \in [User -> Seq(Wire)]
      /\ Appended(down, down', p.to, p.msg)
      /\ run[p.to] = "running" => Len(down'[p.to]) = Len(down[p.to]) + 1
  BY <1>1, <1>2, <1>4, DeliverAppends
<1>6. /\ DOMAIN sessions \subseteq issued
      /\ \A c, d \in DOMAIN sessions : Parties(sessions[c]) \cap Parties(sessions[d]) # {} => c = d
  BY <1>1, TableFacts DEF CallInv, OneCallPerUser, Calls
<1>7. Ring(sessions, issued, call, up, down', pending', cmd, Leaving, run, Unsure)
  BY <1>1, <1>2, <1>5, <1>6, SendKeeps
<1>8. CallInv'
  BY <1>1, <1>3 DEF CallInv, CallTypeOK, OneCallPerUser, Calls
<1>9. TypesOK'
  BY <1>1, <1>3, <1>4, <1>5 DEF TypesOK
<1>10. RingInv'
  BY <1>3, <1>7, SameClients DEF RingInv
<1>11. CreateOK(up') /\ IsFiniteSet(issued')
  BY <1>3 DEF SystemInv
<1>12. \A u \in User : TeardownOK(u, pc'[u], gen'[u], done'[u], at'[u])
  BY <1>3 DEF SystemInv
<1> QED BY <1>8, <1>9, <1>10, <1>11, <1>12 DEF SystemInv

LEMMA ClockKeeps ==
    ASSUME SystemInv, Clock
    PROVE  SystemInv'
<1>1. /\ TypesOK /\ CallInv
      /\ Ring(sessions, issued, call, up, down, pending, cmd, Leaving, run, Unsure)
  BY DEF SystemInv, RingInv
<1>2. /\ Tick /\ issued' = issued /\ \A t \in Thread : pending[t] = <<>>
      /\ UNCHANGED <<pending, call, pc, gen, done, cmd, at, up, down, run, term>>
  BY DEF Clock, Tick, NoneSending, clientVars
<1>3. CallInv'
  BY <1>1, <1>2, TickKeeps
<1>4. /\ DOMAIN sessions' = DOMAIN sessions
      /\ \A c \in DOMAIN sessions : /\ sessions'[c].callerId = sessions[c].callerId
                                    /\ sessions'[c].calleeId = sessions[c].calleeId
  <2>1. sessions \in [Calls -> CallSession]
    BY <1>1 DEF CallInv, CallTypeOK
  <2>2. sessions' = [c \in Calls |->
                      IF sessions[c].state = "Ringing" /\ sessions[c].age <= RingTimeout
                      THEN [sessions[c] EXCEPT !.age = sessions[c].age + 1]
                      ELSE sessions[c]]
    BY <1>2 DEF Tick
  <2> QED BY <2>1, <2>2 DEF Calls, CallSession
<1>5. Ring(sessions', issued, call, up, down, pending, cmd, Leaving, run, Unsure)
  BY <1>1, <1>2, <1>4, AgesKeep
<1>6. TypesOK'
  BY <1>1, <1>2 DEF TypesOK
<1>7. RingInv'
  BY <1>2, <1>5, SameClients DEF RingInv
<1>8. CreateOK(up') /\ IsFiniteSet(issued')
      /\ \A u \in User : TeardownOK(u, pc'[u], gen'[u], done'[u], at'[u])
  BY <1>2 DEF SystemInv
<1> QED BY <1>3, <1>6, <1>7, <1>8 DEF SystemInv

LEMMA BatchHalves ==
    ASSUME NEW n \in Nat
    PROVE  /\ \A i \in 1 .. 2 * n : (i + 1) \div 2 \in 1 .. n /\ i % 2 \in {0, 1}
           /\ \A h \in 1 .. n : /\ 2 * h \in 1 .. 2 * n /\ 2 * h - 1 \in 1 .. 2 * n
                                /\ (2 * h + 1) \div 2 = h /\ (2 * h) % 2 = 0
                                /\ ((2 * h - 1) + 1) \div 2 = h /\ (2 * h - 1) % 2 = 1
OBVIOUS

(* The timer has a message for each party of each overdue call. *)
LEMMA BatchTells ==
    ASSUME CallInv, NEW n \in Nat, NEW order \in [1 .. n -> Overdue],
           \A c \in Overdue : \E h \in 1 .. n : order[h] = c
    PROVE  LET s == BatchSends(order, n)
           IN  /\ s \in Seq(Post) /\ Len(s) = 2 * n
               /\ \A i \in 1 .. 2 * n : s[i].msg.type = "call.failed" /\ s[i].msg.call \in Overdue
               /\ \A i \in 1 .. 2 * n : s[i].to \in Parties(sessions[s[i].msg.call])
               /\ \A c \in Overdue : \A u \in Parties(sessions[c]) : \E i \in 1 .. 2 * n : s[i].to = u
<1> DEFINE s == BatchSends(order, n)
           q(i) == order[(i + 1) \div 2]
<1>1. \A c \in Overdue : /\ c \in CallId
                         /\ sessions[c].callerId \in User /\ sessions[c].calleeId \in User
  BY DEF CallInv, CallTypeOK, CallSession, Overdue, Calls
<1>2. ASSUME NEW i \in 1 .. 2 * n
      PROVE  /\ q(i) \in Overdue
             /\ s[i] \in Post /\ s[i].msg.type = "call.failed" /\ s[i].msg.call = q(i)
             /\ s[i].to \in Parties(sessions[q(i)])
             /\ i % 2 = 0 => s[i].to = sessions[q(i)].calleeId
             /\ i % 2 = 1 => s[i].to = sessions[q(i)].callerId
  <2>1. (i + 1) \div 2 \in 1 .. n
    BY BatchHalves
  <2>2. q(i) \in Overdue
    BY <2>1
  <2>3. s[i] = Tell(IF i % 2 = 1 THEN sessions[q(i)].callerId ELSE sessions[q(i)].calleeId,
                    "call.failed", q(i))
    BY DEF BatchSends
  <2>4. "call.failed" \in WireType
    BY DEF WireType
  <2> HIDE DEF q, s
  <2>5. CASE i % 2 = 1
    <3>1. s[i] = Tell(sessions[q(i)].callerId, "call.failed", q(i))
      BY <2>3, <2>5
    <3> QED BY <1>1, <2>2, <2>4, <2>5, <3>1, TellTyped DEF Parties
  <2>6. CASE i % 2 # 1
    <3>1. s[i] = Tell(sessions[q(i)].calleeId, "call.failed", q(i))
      BY <2>3, <2>6
    <3> QED BY <1>1, <2>2, <2>4, <2>6, <3>1, TellTyped DEF Parties
  <2> QED BY <2>5, <2>6
<1>3. s \in [1 .. 2 * n -> Post]
  BY <1>2 DEF BatchSends
<1>4. 2 * n \in Nat
  OBVIOUS
<1>5. ASSUME NEW c \in Overdue, NEW u \in Parties(sessions[c])
      PROVE  \E i \in 1 .. 2 * n : s[i].to = u
  <2>1. PICK h \in 1 .. n : order[h] = c
    OBVIOUS
  <2>2. /\ 2 * h \in 1 .. 2 * n /\ (2 * h + 1) \div 2 = h /\ (2 * h) % 2 = 0
        /\ 2 * h - 1 \in 1 .. 2 * n /\ ((2 * h - 1) + 1) \div 2 = h /\ (2 * h - 1) % 2 = 1
    BY BatchHalves
  <2>3. q(2 * h) = c /\ q(2 * h - 1) = c
    BY <2>1, <2>2
  <2> HIDE DEF q, s
  <2>4. s[2 * h].to = sessions[c].calleeId /\ s[2 * h - 1].to = sessions[c].callerId
    BY <1>2, <2>2, <2>3
  <2> QED BY <2>2, <2>4 DEF Parties
<1> HIDE DEF s
<1>6. s \in Seq(Post)
  BY <1>3, <1>4, SeqDef
<1>7. Len(s) = 2 * n
  BY <1>3, <1>4, <1>6, LenProperties
<1> QED BY <1>2, <1>5, <1>6, <1>7 DEF s

LEMMA ExpiredKeeps ==
    ASSUME SystemInv, checkExpired
    PROVE  SystemInv'
<1> DEFINE n == Cardinality(Overdue)
<1>1. /\ TypesOK /\ CallInv /\ IsFiniteSet(issued) /\ pending \in [Thread -> Seq(Post)]
      /\ Ring(sessions, issued, call, up, down, pending, cmd, Leaving, run, Unsure)
      /\ CreateOK(up) /\ \A u \in User : TeardownOK(u, pc[u], gen[u], done[u], at[u])
  BY DEF SystemInv, TypesOK, RingInv
<1>2. Overdue \subseteq DOMAIN sessions /\ Overdue \subseteq issued
  BY <1>1, TableFacts DEF Overdue, Calls
<1>3. n \in Nat
  BY <1>1, <1>2, FS_Subset, FS_CardinalityType
<1> HIDE DEF n
<1>4. PICK order \in Bijection(1 .. n, Overdue) : Queue(Timer, BatchSends(order, n))
  BY DEF checkExpired, n
<1>5. order \in [1 .. n -> Overdue] /\ \A c \in Overdue : \E h \in 1 .. n : order[h] = c
  BY DEF Bijection, Injection, Surjection
<1> DEFINE s == BatchSends(order, n)
<1>6. /\ s \in Seq(Post) /\ Len(s) = 2 * n
      /\ \A i \in 1 .. 2 * n : s[i].msg.type = "call.failed" /\ s[i].msg.call \in Overdue
      /\ \A c \in Overdue : \A u \in Parties(sessions[c]) : \E i \in 1 .. 2 * n : s[i].to = u
  BY <1>1, <1>3, <1>5, BatchTells
<1>7. /\ pending' = [pending EXCEPT ![Timer] = s] /\ down' = down /\ pending[Timer] = <<>>
      /\ Timer \in Thread
  BY <1>4 DEF Queue, checkExpired, Thread
<1> HIDE DEF s
<1>8. /\ issued' = issued /\ sessions' = Erase(sessions, Overdue)
      /\ UNCHANGED <<call, pc, gen, done, cmd, at, up, run, term>>
  BY DEF checkExpired, expireRinging
<1>9. /\ DOMAIN sessions' = DOMAIN sessions \ Overdue
      /\ \A c \in DOMAIN sessions' : sessions'[c] = sessions[c]
  BY <1>8 DEF Erase, Restrict
<1>10. \A c \in Overdue : sessions[c].age # 0
  BY RingTimeoutAssumption DEF Overdue
<1>11. TableStep(Timer, s, sessions, sessions', issued, up)
  <2>1. \A i \in 1 .. Len(s) : /\ s[i].msg.type \in Ending /\ s[i].msg.type \notin News
                               /\ s[i].msg.call \in issued
    BY <1>2, <1>6 DEF Ending, News
  <2>2. \A c \in Overdue : \A u \in Parties(sessions[c]) : \E i \in 1 .. Len(s) : s[i].to = u
    BY <1>6
  <2>3. \A c \in DOMAIN sessions \ DOMAIN sessions' : c \in Overdue
    BY <1>9
  <2> QED BY <1>9, <1>10, <2>1, <2>2, <2>3 DEF TableStep
<1>12. Ring(sessions', issued, call, up, down, pending', cmd, Leaving, run, Unsure)
  <2>1. DOMAIN sessions \subseteq issued /\ NoCall \notin issued
    BY <1>1, TableFacts
  <2> QED BY <1>1, <1>6, <1>7, <1>11, <2>1, TableKeeps
<1>13. CallInv'
  BY <1>1, <1>8, EraseKeeps
<1>14. pending' \in [Thread -> Seq(Post)]
  BY <1>1, <1>6, <1>7
<1>15. TypesOK'
  BY <1>1, <1>7, <1>8, <1>14 DEF TypesOK
<1>16. RingInv'
  BY <1>7, <1>8, <1>12, SameClients DEF RingInv
<1>17. CreateOK(up') /\ IsFiniteSet(issued')
       /\ \A u \in User : TeardownOK(u, pc'[u], gen'[u], done'[u], at'[u])
  BY <1>1, <1>8
<1> QED BY <1>13, <1>15, <1>16, <1>17 DEF SystemInv

----------------------------------------------------------------------------

LEMMA StutterKeeps ==
    ASSUME SystemInv, UNCHANGED vars
    PROVE  SystemInv'
<1>1. /\ sessions' = sessions /\ issued' = issued /\ pending' = pending
      /\ UNCHANGED <<call, pc, gen, done, cmd, at, up, down, run, term>>
  BY DEF vars
<1>2. CallInv'
  BY <1>1 DEF SystemInv, CallInv, CallTypeOK, OneCallPerUser, Calls
<1>3. TypesOK'
  BY <1>1 DEF SystemInv, TypesOK
<1>4. RingInv'
  BY <1>1, SameClients DEF SystemInv, RingInv
<1> QED BY <1>1, <1>2, <1>3, <1>4 DEF SystemInv

LEMMA ClientKeeps ==
    ASSUME SystemInv, NEW u \in User, Client_(u)
    PROVE  SystemInv'
<1>1. ClientNext(u) /\ UNCHANGED <<callVars, pending>>
  BY DEF Client_
<1>2. CASE Call(u)
  BY <1>1, <1>2, CallKeeps
<1>3. CASE Accept(u)
  BY <1>1, <1>3, CommandKeeps DEF Accept, WireType
<1>4. CASE Reject(u)
  BY <1>1, <1>4, CommandKeeps DEF Reject, WireType
<1>5. CASE Hangup(u)
  BY <1>1, <1>5, CommandKeeps DEF Hangup, WireType
<1>6. CASE Assign(u)
  BY <1>1, <1>6, AssignKeeps
<1>7. CASE Quit(u)
  BY <1>1, <1>7, QuitKeeps
<1>8. CASE handle(u)
  BY <1>1, <1>8, HandleKeeps
<1>9. CASE onClose(u)
  BY <1>1, <1>9, OnCloseKeeps
<1>10. CASE Reconnected(u)
  BY <1>1, <1>10, ReconnectedKeeps
<1>11. CASE LocalDescription(u) \/ LocalCandidate(u)
  <2>1. {"webrtc.ice"} \in SUBSET WireType /\ {} \in SUBSET WireType
    BY DEF WireType
  <2> QED BY <1>1, <1>11, <2>1, AnnounceKeeps DEF LocalDescription, LocalCandidate
<1>12. CASE Connected(u)
  BY <1>1, <1>12, ConnectedKeeps
<1>13. CASE Failed(u)
  BY <1>1, <1>13, FailedKeeps
<1>14. CASE Disconnected(u)
  BY <1>1, <1>14, DisconnectedKeeps
<1>15. ASSUME NEW thread \in Callback, CleanupEnd(u, thread) PROVE SystemInv'
  BY <1>1, <1>15, CleanupEndKeeps
<1>16. ASSUME NEW v \in User, Create(u, v) PROVE SystemInv'
  BY <1>1, <1>16, CreateSentKeeps
<1>17. CASE initRtc(u)
  BY <1>1, <1>17, InitRtcKeeps
<1>18. CASE onFailed(u)
  BY <1>1, <1>18, OnFailedKeeps
<1> QED BY <1>1, <1>2, <1>3, <1>4, <1>5, <1>6, <1>7, <1>8, <1>9, <1>10, <1>11, <1>12, <1>13,
           <1>14, <1>15, <1>16, <1>17, <1>18 DEF ClientNext, Outside, Inside, handleStateChange

LEMMA SystemInvInductive == SystemInv /\ [SystemNext]_vars => SystemInv'
<1> SUFFICES ASSUME SystemInv, [SystemNext]_vars PROVE SystemInv'
  OBVIOUS
<1>1. ASSUME NEW u \in User, Client_(u) PROVE SystemInv'
  BY <1>1, ClientKeeps
<1>2. ASSUME NEW u \in User, Route(u) PROVE SystemInv'
  BY <1>2, RouteKeeps
<1>3. CASE checkExpired
  BY <1>3, ExpiredKeeps
<1>4. ASSUME NEW t \in Thread, Send(t) PROVE SystemInv'
  BY <1>4, SentKeeps
<1>5. CASE Clock
  BY <1>5, ClockKeeps
<1>6. CASE UNCHANGED vars
  BY <1>6, StutterKeeps
<1> QED BY <1>1, <1>2, <1>3, <1>4, <1>5, <1>6 DEF SystemNext

LEMMA SystemInvInitially == SystemInit => SystemInv
<1> SUFFICES ASSUME SystemInit PROVE SystemInv
  OBVIOUS
<1>1. CallInv
  BY CallInvInitially DEF SystemInit
<1>2. IsFiniteSet(issued) /\ issued = {} /\ DOMAIN sessions = {}
  BY FS_EmptySet DEF SystemInit, CallInit
<1>3. /\ call = [u \in User |-> CallContext] /\ pc = [u \in User |-> NoPc]
      /\ gen = [u \in User |-> 0] /\ done = [u \in User |-> FALSE]
      /\ cmd = [u \in User |-> "prompt"] /\ at = [u \in User |-> Out]
      /\ up = [u \in User |-> <<>>] /\ down = [u \in User |-> <<>>]
      /\ run = [u \in User |-> "running"] /\ term = {}
      /\ pending = [t \in Thread |-> <<>>]
  BY DEF SystemInit, ClientInit
<1>4. TypesOK
  BY <1>3, ContextTyped, ClientAssumption DEF TypesOK, Out, Stage
<1>5. /\ \A u \in User : /\ Len(up[u]) = 0 /\ Len(down[u]) = 0
                         /\ call[u].callId = NoCall /\ call[u].state = "Idle"
                         /\ run[u] = "running" /\ pc[u] = NoPc
                         /\ at[u]["ws"] = "out" /\ at[u]["rtc"] = "out"
      /\ \A t \in Thread : Len(pending[t]) = 0
  BY <1>3, ContextTyped DEF Out, Callback
<1>6. CreateOK(up)
  BY <1>5 DEF CreateOK
<1>7. \A u \in User : TeardownOK(u, pc[u], gen[u], done[u], at[u])
  BY <1>5 DEF TeardownOK
<1>8. OfflineOK(run, Unsure) /\ PairsOK(sessions) /\ MentionOK(issued, call, up, down, pending)
  BY <1>2, <1>5 DEF OfflineOK, PairsOK, MentionOK
<1>9. PendingOK(sessions, pending) /\ NamesOK(call, up, down, pending)
  BY <1>5 DEF PendingOK, NamesOK, NewsDown, NewsPending, NewsOnce
<1>10. /\ DownOK(sessions, down, pending, run, Unsure)
       /\ NewsOK(sessions, down, pending, run, Unsure)
       /\ RingOK(sessions, call, cmd, Leaving, down, pending, run, Unsure)
       /\ CalledOK(sessions, call, cmd, Leaving, down, pending, run, Unsure)
       /\ AskedOK(call, up, cmd, Leaving, run, Unsure)
  BY <1>5 DEF DownOK, NewsOK, RingOK, CalledOK, AskedOK
<1> QED BY <1>1, <1>2, <1>4, <1>6, <1>7, <1>8, <1>9, <1>10 DEF SystemInv, RingInv, Ring

LEMMA SystemInvAlways == SystemSpec => []SystemInv
BY SystemInvInitially, SystemInvInductive, PTL DEF SystemSpec

(* The state of every client is well formed: its peer connection is the one
   initRtc made last, or none, and none while initRtc makes the next
   (main.cpp:83-93). *)
THEOREM SystemTypeCorrect == SystemSpec => []SystemTypeOK
<1>1. SystemInv => SystemTypeOK
  BY DEF SystemInv, SystemTypeOK, CallInv, ClientTypeOK, TypesOK, TeardownOK, CallRecord
<1> QED BY <1>1, SystemInvAlways, PTL

(* Nothing will tell a quiet client anything, or make it forget its call. *)
LEMMA QuietHearsNothing ==
    ASSUME SystemInv, NEW u \in User, Quiet(u), ~Misled(u)
    PROVE  /\ Watched(u, run, Unsure) /\ ~Forgets(u, cmd, Leaving)
           /\ ~EndComes(u, 0, down, pending)
<1>1. Watched(u, run, Unsure)
  BY DEF Quiet, Watched, Unsure
<1>2. ~Forgets(u, cmd, Leaving)
  <2>1. at[u] = Out /\ cmd[u] = "prompt" /\ "rtc" \in Callback
    BY DEF Quiet, Callback
  <2>2. \A thread \in Callback : at[u][thread] = "out"
    BY <2>1 DEF Out
  <2> QED BY <2>1, <2>2 DEF Forgets, Leaving, Cleans
<1>3. Len(down[u]) = 0
  BY DEF Quiet
<1>4. \A t \in Thread : \A k \in 1 .. Len(pending[t]) : pending[t][k].to # u
  <2>1. pending \in [Thread -> Seq(Post)]
    BY DEF SystemInv, TypesOK
  <2>2. \A t \in Thread : DOMAIN pending[t] = 1 .. Len(pending[t])
    BY <2>1
  <2> QED BY <2>2 DEF Quiet
<1> QED BY <1>1, <1>2, <1>3, <1>4 DEF EndComes

(* A client that is left ringing shows a call that exists and that is his,
   however commands, notices and the expire timer crossed
   (message_handler.cpp:45-75 with router.cpp:142-178, 204-221), for every
   number of users, calls and peer connections. *)
THEOREM RingingCallsAreReal == SystemSpec => []RingingIsReal
<1>1. SystemInv => RingingIsReal
  <2> SUFFICES ASSUME SystemInv, NEW u \in User, Quiet(u), call[u].state = "Ringing", ~Misled(u)
               PROVE  call[u].callId \in Calls /\ sessions[call[u].callId].calleeId = u
    BY DEF RingingIsReal
  <2>1. /\ Watched(u, run, Unsure) /\ ~Forgets(u, cmd, Leaving)
        /\ ~EndComes(u, 0, down, pending)
    BY QuietHearsNothing
  <2> QED BY <2>1 DEF SystemInv, RingInv, Ring, RingOK, Calls
<1> QED BY <1>1, SystemInvAlways, PTL

(* No client is left with a call that is over: whatever call a client names
   when nothing is on its way, as caller or callee and in any state, is one
   that the backend has and that it is a party of (commands.cpp:53-107,
   message_handler.cpp:45-75, main.cpp:71-106), for every number of users,
   calls and peer connections and every interleaving of the clean-ups. *)
THEOREM NamedCallsAreReal == SystemSpec => []NamedCallsExist
<1>1. SystemInv => NamedCallsExist
  <2> SUFFICES ASSUME SystemInv, NEW u \in User, Quiet(u), call[u].callId # NoCall, ~Misled(u)
               PROVE  /\ call[u].callId \in Calls
                      /\ u \in Parties(sessions[call[u].callId])
    BY DEF NamedCallsExist
  <2>1. /\ Watched(u, run, Unsure) /\ ~Forgets(u, cmd, Leaving)
        /\ ~EndComes(u, 0, down, pending)
    BY QuietHearsNothing
  <2> QED BY <2>1 DEF SystemInv, RingInv, Ring, CalledOK, Calls
<1> QED BY <1>1, SystemInvAlways, PTL
=============================================================================
