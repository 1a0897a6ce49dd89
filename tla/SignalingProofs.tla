--------------------------- MODULE SignalingProofs ---------------------------
(***************************************************************************)
(* The notices that the parties of a call get, for every number of users,  *)
(* connections and calls: the threads of the backend interleave between a  *)
(* table operation and each of its sends.  SigInv is inductive.  Its parts *)
(* say, for every message that was sent or that a thread still has to      *)
(* send, what it says about the table (MsgOK), in which order the          *)
(* announcements go (OrderOK), and how often the end of a call is told     *)
(* (OwedOK, OnceOK).  They are operators of the variables they read, so    *)
(* that a step can be checked against the old and the new value of each.   *)
(***************************************************************************)
EXTENDS Signaling, CallManagerProofs, SequenceTheorems, FiniteSetTheorems

CallMessage == [type : MsgType, to : User, call : CallId \cup {NoCall}]

Announcement == {"call.created", "call.incoming"}

\* Message i of what thread t has to send is of a kind, to u and about c.
Holds(pd, t, i, types, u, c) ==
    /\ i \in 1 .. Len(pd[t])
    /\ pd[t][i].type \in types /\ pd[t][i].to = u /\ pd[t][i].call = c

InSent(sn, types, u, c) == \E m \in sn : m.type \in types /\ m.to = u /\ m.call = c

StateOK ==
    /\ conn \in [Conn -> [user : User \cup {NoCall}, st : ConnState]]
    /\ reg \in [User -> Conn \cup {NoConn}]
    /\ pending \in [Thread -> Seq(CallMessage)]
    /\ werr \in [Conn -> 0 .. MaxWriteErr]
    /\ sent \subseteq CallMessage
    /\ knows \subseteq Conn \X issued

\* Each issued call is live or over; the table is finite.
OverOK ==
    /\ IsFiniteSet(issued)
    /\ DOMAIN over = issued \ Calls
    /\ \A c \in DOMAIN over : over[c].callerId \in User /\ over[c].calleeId \in User

\* A connection in use has a user, and is registered under no other.
ConnOK(cn, rg) ==
    /\ \A k \in Conn : cn[k].st # "unused" => cn[k].user \in User
    /\ \A u \in User : rg[u] # NoConn => cn[rg[u]].st # "unused" /\ cn[rg[u]].user = u

\* Whoever knows a call was sent its announcement.
KnowsOK(cn, kn, sn) ==
    \A k \in Conn, c \in CallId : <<k, c>> \in kn =>
        cn[k].st # "unused" /\ InSent(sn, Announcement, cn[k].user, c)

MsgOK(m, ss, is, sn) ==
    /\ m.type \notin {"webrtc", "error"} => m.call \in is
    /\ m.type = "call.created" /\ m.call \in DOMAIN ss => m.to = ss[m.call].callerId
    /\ m.type = "call.incoming" /\ m.call \in DOMAIN ss => m.to = ss[m.call].calleeId
    /\ m.type \in Terminal => m.call \notin DOMAIN ss
    /\ m.type = "rtc.config" => InSent(sn, Announcement, m.to, m.call)

AllOK(pd, ss, is, sn) ==
    /\ \A m \in sn : MsgOK(m, ss, is, sn)
    /\ \A t \in Thread : \A i \in 1 .. Len(pd[t]) : MsgOK(pd[t][i], ss, is, sn)

CreatedSent(sn, c) == \E m \in sn : m.type = "call.created" /\ m.call = c

\* The callee is told of a call after the caller.
OrderOK(pd, sn) ==
    /\ \A m \in sn : m.type = "call.incoming" => CreatedSent(sn, m.call)
    /\ \A t \in Thread : \A i \in 1 .. Len(pd[t]) : pd[t][i].type = "call.incoming" =>
          \/ CreatedSent(sn, pd[t][i].call)
          \/ \E j \in 1 .. (i - 1) : /\ pd[t][j].type = "call.created"
                                     /\ pd[t][j].call = pd[t][i].call

\* Who did not end a call is told, or will be.
OwedOK(pd, sn, ov) ==
    \A c \in DOMAIN ov : \A u \in {ov[c].callerId, ov[c].calleeId} \ {ov[c].by} :
        InSent(sn, Terminal, u, c) \/ \E t \in Thread, i \in Nat : Holds(pd, t, i, Terminal, u, c)

\* No one is told twice.
OnceOK(pd, sn, ov) ==
    \A c \in DOMAIN ov, u \in User : ov[c].callerId # ov[c].calleeId =>
        /\ \A t1, t2 \in Thread, i1, i2 \in Nat :
              Holds(pd, t1, i1, Terminal, u, c) /\ Holds(pd, t2, i2, Terminal, u, c)
              => t1 = t2 /\ i1 = i2
        /\ InSent(sn, Terminal, u, c) =>
              \A t \in Thread, i \in Nat : ~Holds(pd, t, i, Terminal, u, c)

SigInv ==
    /\ CallInv
    /\ StateOK
    /\ OverOK
    /\ ConnOK(conn, reg)
    /\ KnowsOK(conn, knows, sent)
    /\ AllOK(pending, sessions, issued, sent)
    /\ OrderOK(pending, sent)
    /\ OwedOK(pending, sent, over)
    /\ OnceOK(pending, sent, over)

----------------------------------------------------------------------------
(* Two steps of the tables that the parts of the invariant survive.         *)

\* Calls come and go, but none comes back, and none changes its parties.
Progress(ss, is, ss2, is2) ==
    /\ is \subseteq is2
    /\ \A c \in DOMAIN ss2 : c \in is =>
          /\ c \in DOMAIN ss
          /\ ss2[c].callerId = ss[c].callerId /\ ss2[c].calleeId = ss[c].calleeId

LEMMA MsgOKKeeps ==
    ASSUME NEW m, NEW ss, NEW is, NEW sn, NEW ss2, NEW is2, NEW sn2,
           sn \subseteq sn2, Progress(ss, is, ss2, is2), MsgOK(m, ss, is, sn)
    PROVE  MsgOK(m, ss2, is2, sn2)
<1>1. m.type \notin {"webrtc", "error"} => m.call \in is /\ m.call \in is2
  BY DEF MsgOK, Progress
<1>2. /\ m.type = "call.created" /\ m.call \in DOMAIN ss2 => m.to = ss2[m.call].callerId
      /\ m.type = "call.incoming" /\ m.call \in DOMAIN ss2 => m.to = ss2[m.call].calleeId
      /\ m.type \in Terminal => m.call \notin DOMAIN ss2
  BY <1>1 DEF MsgOK, Progress, Terminal
<1>3. m.type = "rtc.config" => InSent(sn2, Announcement, m.to, m.call)
  BY DEF MsgOK, InSent
<1> QED BY <1>1, <1>2, <1>3 DEF MsgOK

\* Thread t takes the first of its messages away, to send it.
Takes(pd, pd2, t) ==
    /\ t \in Thread /\ pd \in [Thread -> Seq(CallMessage)] /\ pd[t] # <<>>
    /\ pd2 = [pd EXCEPT ![t] = Tail(pd[t])]

LEMMA TakesShifts ==
    ASSUME NEW pd, NEW pd2, NEW t, Takes(pd, pd2, t)
    PROVE  /\ pd2 \in [Thread -> Seq(CallMessage)]
           /\ Len(pd[t]) \in Nat \ {0} /\ Len(pd2[t]) = Len(pd[t]) - 1
           /\ Head(pd[t]) = pd[t][1] /\ Head(pd[t]) \in CallMessage
           /\ \A i \in 1 .. Len(pd2[t]) : pd2[t][i] = pd[t][i + 1]
           /\ \A v \in Thread \ {t} : pd2[v] = pd[v]
<1>1. pd[t] \in Seq(CallMessage) /\ pd[t] # <<>>
  BY DEF Takes
<1>2. /\ Tail(pd[t]) \in Seq(CallMessage) /\ Len(Tail(pd[t])) = Len(pd[t]) - 1
      /\ Head(pd[t]) \in CallMessage
      /\ \A i \in 1 .. Len(Tail(pd[t])) : Tail(pd[t])[i] = pd[t][i + 1]
  BY <1>1, HeadTailProperties
<1>3. Len(pd[t]) \in Nat \ {0}
  BY <1>1, EmptySeq
<1>4. pd2[t] = Tail(pd[t]) /\ \A v \in Thread \ {t} : pd2[v] = pd[v]
  BY DEF Takes
<1>5. pd2 \in [Thread -> Seq(CallMessage)]
  BY <1>2 DEF Takes
<1>6. Head(pd[t]) = pd[t][1]
  BY <1>1
<1> QED BY <1>2, <1>3, <1>4, <1>5, <1>6

(* What is there after the step was there before, one place further on. *)
LEMMA TakesBack ==
    ASSUME NEW pd, NEW pd2, NEW t, Takes(pd, pd2, t),
           NEW v \in Thread, NEW i \in Nat, NEW types, NEW u, NEW c,
           Holds(pd2, v, i, types, u, c)
    PROVE  Holds(pd, v, IF v = t THEN i + 1 ELSE i, types, u, c)
<1>1. CASE v = t
  BY <1>1, TakesShifts DEF Holds
<1>2. CASE v # t
  BY <1>2, TakesShifts DEF Holds
<1> QED BY <1>1, <1>2

(* What was there is there still, one place further to the front, but for
   the message that was taken. *)
LEMMA TakesForth ==
    ASSUME NEW pd, NEW pd2, NEW t, Takes(pd, pd2, t),
           NEW v \in Thread, NEW i \in Nat, NEW types, NEW u, NEW c,
           Holds(pd, v, i, types, u, c), ~(v = t /\ i = 1)
    PROVE  \E j \in Nat : Holds(pd2, v, j, types, u, c)
<1>1. CASE v = t
  <2>1. i - 1 \in 1 .. Len(pd2[t]) /\ pd2[t][i - 1] = pd[t][i]
    BY <1>1, TakesShifts DEF Holds
  <2> QED BY <1>1, <2>1 DEF Holds
<1>2. CASE v # t
  BY <1>2, TakesShifts DEF Holds
<1> QED BY <1>1, <1>2

(* Sending a message moves it from what is owed to what was sent. *)
LEMMA SendMoves ==
    ASSUME NEW pd, NEW pd2, NEW t, Takes(pd, pd2, t), NEW ss, NEW is,
           NEW sn, NEW sn2, NEW ov,
           sn2 = sn \cup (IF Head(pd[t]).type \in {"webrtc", "error"} THEN {} ELSE {Head(pd[t])}),
           \A c \in DOMAIN ov : ov[c].callerId \in User /\ ov[c].calleeId \in User,
           AllOK(pd, ss, is, sn), OrderOK(pd, sn), OwedOK(pd, sn, ov), OnceOK(pd, sn, ov)
    PROVE  AllOK(pd2, ss, is, sn2) /\ OrderOK(pd2, sn2) /\ OwedOK(pd2, sn2, ov) /\ OnceOK(pd2, sn2, ov)
<1> DEFINE m == Head(pd[t])
<1>7. /\ Len(pd[t]) \in Nat \ {0} /\ Len(pd2[t]) = Len(pd[t]) - 1
      /\ \A i \in 1 .. Len(pd2[t]) : pd2[t][i] = pd[t][i + 1]
  BY TakesShifts
<1>8. \A v \in Thread : v # t => pd2[v] = pd[v]
  BY TakesShifts
<1>0. /\ t \in Thread /\ m = pd[t][1] /\ 1 \in 1 .. Len(pd[t])
      /\ pd \in [Thread -> Seq(CallMessage)]
  BY TakesShifts DEF Takes
<1>1. sn \subseteq sn2 /\ (\A x \in sn2 : x \in sn \/ x = m)
      /\ (m.type \notin {"webrtc", "error"} => m \in sn2)
  OBVIOUS
<1>2. \A v \in Thread : \A i \in 1 .. Len(pd2[v]) :
          \E j \in 1 .. Len(pd[v]) : pd2[v][i] = pd[v][j]
  <2> TAKE v \in Thread
  <2>1. CASE v = t
    <3>1. \A i \in 1 .. Len(pd2[t]) : i + 1 \in 1 .. Len(pd[t])
      BY <1>7
    <3> QED BY <1>7, <2>1, <3>1
  <2>2. CASE v # t
    BY <1>8, <2>2
  <2> QED BY <2>1, <2>2
<1> HIDE DEF m
<1>3. AllOK(pd2, ss, is, sn2)
  <2>1. Progress(ss, is, ss, is)
    BY DEF Progress
  <2>2. \A x : MsgOK(x, ss, is, sn) => MsgOK(x, ss, is, sn2)
    BY <1>1, <2>1, MsgOKKeeps
  <2>3. MsgOK(m, ss, is, sn)
    BY <1>0 DEF AllOK
  <2>4. \A x \in sn2 : MsgOK(x, ss, is, sn2)
    BY <1>1, <2>2, <2>3 DEF AllOK
  <2>5. ASSUME NEW v \in Thread, NEW i \in 1 .. Len(pd2[v])
        PROVE  MsgOK(pd2[v][i], ss, is, sn2)
    <3>1. PICK j \in 1 .. Len(pd[v]) : pd2[v][i] = pd[v][j]
      BY <1>2
    <3> QED BY <2>2, <3>1 DEF AllOK
  <2> QED BY <2>4, <2>5 DEF AllOK
<1>4. OrderOK(pd2, sn2)
  <2>1. \A c : CreatedSent(sn, c) => CreatedSent(sn2, c)
    BY <1>1 DEF CreatedSent
  <2>2. ASSUME NEW x \in sn2, x.type = "call.incoming"
        PROVE  CreatedSent(sn2, x.call)
    <3>1. CASE x \in sn
      BY <2>1, <2>2, <3>1 DEF OrderOK
    <3>2. CASE x = m
      <4>1. ~\E j \in 1 .. (1 - 1) : TRUE
        OBVIOUS
      <4> QED BY <1>0, <2>1, <2>2, <3>2, <4>1 DEF OrderOK
    <3> QED BY <1>1, <2>2, <3>1, <3>2
  <2>3. ASSUME NEW v \in Thread, NEW i \in 1 .. Len(pd2[v]), pd2[v][i].type = "call.incoming"
        PROVE  \/ CreatedSent(sn2, pd2[v][i].call)
               \/ \E j \in 1 .. (i - 1) : /\ pd2[v][j].type = "call.created"
                                          /\ pd2[v][j].call = pd2[v][i].call
    <3>1. CASE v # t
      <4>1. pd2[v] = pd[v]
        BY <1>8, <3>1
      <4>2. i \in 1 .. Len(pd[v]) /\ pd[v][i].type = "call.incoming"
        BY <2>3, <4>1
      <4>3. \/ CreatedSent(sn, pd[v][i].call)
            \/ \E j \in 1 .. (i - 1) : /\ pd[v][j].type = "call.created"
                                       /\ pd[v][j].call = pd[v][i].call
        BY <4>2 DEF OrderOK
      <4> QED BY <2>1, <4>1, <4>3
    <3>2. CASE v = t
      <4>1. /\ i + 1 \in 1 .. Len(pd[t]) /\ pd2[t][i] = pd[t][i + 1]
            /\ \A j \in 1 .. (i - 1) : pd2[t][j] = pd[t][j + 1]
            /\ Len(pd[t]) \in Nat
        <5>2. i \in 1 .. Len(pd2[t])
          BY <3>2
        <5>3. i + 1 \in 1 .. Len(pd[t]) /\ \A j \in 1 .. (i - 1) : j \in 1 .. Len(pd2[t])
          <6>1. i \in 1 .. (Len(pd[t]) - 1)
            BY <1>7, <5>2
          <6> QED BY <1>7, <6>1
        <5>4. pd2[t][i] = pd[t][i + 1]
          BY <1>7, <5>2
        <5>5. \A j \in 1 .. (i - 1) : pd2[t][j] = pd[t][j + 1]
          BY <1>7, <5>3
        <5> QED BY <1>7, <5>3, <5>4, <5>5
      <4>2. CASE CreatedSent(sn, pd[t][i + 1].call)
        <5>1. CreatedSent(sn2, pd[t][i + 1].call)
          BY <2>1, <4>2
        <5>2. pd2[v][i].call = pd[t][i + 1].call
          BY <3>2, <4>1
        <5> QED BY <5>1, <5>2
      <4>3. ASSUME NEW j \in 1 .. ((i + 1) - 1), pd[t][j].type = "call.created",
                   pd[t][j].call = pd[t][i + 1].call
            PROVE  \/ CreatedSent(sn2, pd[t][i + 1].call)
                   \/ \E h \in 1 .. (i - 1) : /\ pd2[t][h].type = "call.created"
                                              /\ pd2[t][h].call = pd[t][i + 1].call
        <5>1. CASE j = 1
          BY <1>0, <1>1, <4>3, <5>1 DEF CreatedSent
        <5>2. CASE j # 1
          <6>1. j - 1 \in 1 .. (i - 1) /\ (j - 1) + 1 = j
            BY <5>2
          <6>2. pd2[t][j - 1] = pd[t][j]
            BY <4>1, <6>1
          <6> QED BY <4>3, <6>1, <6>2
        <5> QED BY <5>1, <5>2
      <4>4. t \in Thread /\ pd[t][i + 1].type = "call.incoming"
        BY <1>0, <2>3, <3>2, <4>1
      <4>5. \/ CreatedSent(sn, pd[t][i + 1].call)
            \/ \E j \in 1 .. ((i + 1) - 1) : /\ pd[t][j].type = "call.created"
                                             /\ pd[t][j].call = pd[t][i + 1].call
        BY <4>1, <4>4 DEF OrderOK
      <4> QED BY <3>2, <4>1, <4>2, <4>3, <4>5
    <3> QED BY <3>1, <3>2
  <2> QED BY <2>2, <2>3 DEF OrderOK
<1>5. OwedOK(pd2, sn2, ov)
  <2> SUFFICES ASSUME NEW c \in DOMAIN ov,
                      NEW u \in {ov[c].callerId, ov[c].calleeId} \ {ov[c].by}
               PROVE  \/ InSent(sn2, Terminal, u, c)
                      \/ \E v \in Thread, i \in Nat : Holds(pd2, v, i, Terminal, u, c)
    BY DEF OwedOK
  <2>1. CASE InSent(sn, Terminal, u, c)
    BY <1>1, <2>1 DEF InSent
  <2>2. ASSUME NEW v \in Thread, NEW i \in Nat, Holds(pd, v, i, Terminal, u, c)
        PROVE  \/ InSent(sn2, Terminal, u, c)
               \/ \E w \in Thread, j \in Nat : Holds(pd2, w, j, Terminal, u, c)
    <3>1. CASE v = t /\ i = 1
      BY <1>0, <1>1, <2>2, <3>1 DEF Holds, InSent, Terminal
    <3>2. CASE ~(v = t /\ i = 1)
      BY <2>2, <3>2, TakesForth
    <3> QED BY <3>1, <3>2
  <2> QED BY <2>1, <2>2 DEF OwedOK
<1>6. OnceOK(pd2, sn2, ov)
  <2> SUFFICES ASSUME NEW c \in DOMAIN ov, NEW u \in User, ov[c].callerId # ov[c].calleeId
               PROVE  /\ \A t1, t2 \in Thread, i1, i2 \in Nat :
                            Holds(pd2, t1, i1, Terminal, u, c) /\ Holds(pd2, t2, i2, Terminal, u, c)
                            => t1 = t2 /\ i1 = i2
                      /\ InSent(sn2, Terminal, u, c) =>
                            \A v \in Thread, i \in Nat : ~Holds(pd2, v, i, Terminal, u, c)
    BY DEF OnceOK
  <2>1. /\ \A t1, t2 \in Thread, i1, i2 \in Nat :
              Holds(pd, t1, i1, Terminal, u, c) /\ Holds(pd, t2, i2, Terminal, u, c)
              => t1 = t2 /\ i1 = i2
        /\ InSent(sn, Terminal, u, c) =>
              \A v \in Thread, i \in Nat : ~Holds(pd, v, i, Terminal, u, c)
    BY DEF OnceOK
  <2>2. ASSUME NEW t1 \in Thread, NEW t2 \in Thread, NEW i1 \in Nat, NEW i2 \in Nat,
               Holds(pd2, t1, i1, Terminal, u, c), Holds(pd2, t2, i2, Terminal, u, c)
        PROVE  t1 = t2 /\ i1 = i2
    <3>1. /\ Holds(pd, t1, IF t1 = t THEN i1 + 1 ELSE i1, Terminal, u, c)
          /\ Holds(pd, t2, IF t2 = t THEN i2 + 1 ELSE i2, Terminal, u, c)
      BY <2>2, TakesBack
    <3>2. (IF t1 = t THEN i1 + 1 ELSE i1) \in Nat /\ (IF t2 = t THEN i2 + 1 ELSE i2) \in Nat
      OBVIOUS
    <3>3. t1 = t2 /\ (IF t1 = t THEN i1 + 1 ELSE i1) = (IF t2 = t THEN i2 + 1 ELSE i2)
      BY <2>1, <3>1, <3>2
    <3> QED BY <3>3
  <2>3. ASSUME InSent(sn2, Terminal, u, c), NEW v \in Thread, NEW i \in Nat,
               Holds(pd2, v, i, Terminal, u, c)
        PROVE  FALSE
    <3> DEFINE h == IF v = t THEN i + 1 ELSE i
    <3>1. Holds(pd, v, h, Terminal, u, c) /\ h \in Nat /\ i \in Nat \ {0}
      <4>1. Holds(pd, v, h, Terminal, u, c)
        BY <2>3, TakesBack
      <4>2. i \in Nat \ {0}
        BY <2>3 DEF Holds
      <4> QED BY <4>1, <4>2
    <3>2. ~InSent(sn, Terminal, u, c)
      BY <2>1, <3>1
    <3>3. m.type \in Terminal /\ m.to = u /\ m.call = c
      BY <1>1, <2>3, <3>2 DEF InSent
    <3>4. Holds(pd, t, 1, Terminal, u, c)
      BY <1>0, <3>3 DEF Holds
    <3>5. v = t /\ h = 1
      BY <1>0, <2>1, <3>1, <3>4
    <3> QED BY <3>1, <3>5
  <2> QED BY <2>2, <2>3
<1> QED BY <1>3, <1>4, <1>5, <1>6

----------------------------------------------------------------------------
(* A handler.                                                               *)

\* What a handler's messages have to be, for the table it leaves behind: in
\* order, and the end of each call that it ends told to those it is owed to.
Batch(msgs, ss, is, sn, ov, ov2) ==
    /\ msgs \in Seq(CallMessage)
    /\ \A i \in 1 .. Len(msgs) : MsgOK(msgs[i], ss, is, sn)
    /\ \A i \in 1 .. Len(msgs) : msgs[i].type = "call.incoming" =>
          \E j \in 1 .. (i - 1) : msgs[j].type = "call.created" /\ msgs[j].call = msgs[i].call
    /\ \A i \in 1 .. Len(msgs) : msgs[i].type \in Terminal =>
          msgs[i].call \in DOMAIN ov2 \ DOMAIN ov
    /\ \A i, j \in 1 .. Len(msgs) :
          /\ msgs[i].type \in Terminal /\ msgs[j].type \in Terminal
          /\ msgs[i].to = msgs[j].to /\ msgs[i].call = msgs[j].call
          /\ ov2[msgs[i].call].callerId # ov2[msgs[i].call].calleeId
          => i = j
    /\ \A c \in DOMAIN ov2 \ DOMAIN ov :
          \A u \in {ov2[c].callerId, ov2[c].calleeId} \ {ov2[c].by} :
              \E i \in 1 .. Len(msgs) :
                  msgs[i].type \in Terminal /\ msgs[i].to = u /\ msgs[i].call = c

\* Calls that live may come to an end; one that is over stays as it was.
OverGrows(ss, ov, ov2) ==
    /\ DOMAIN ov \subseteq DOMAIN ov2
    /\ \A c \in DOMAIN ov : ov2[c] = ov[c]
    /\ DOMAIN ov2 \ DOMAIN ov \subseteq DOMAIN ss

(* A thread that had nothing to send takes on the messages of its handler. *)
LEMMA QueueAdds ==
    ASSUME NEW t \in Thread, NEW pd \in [Thread -> Seq(CallMessage)], pd[t] = <<>>,
           NEW msgs, NEW ss, NEW ss2, NEW is, NEW is2, NEW sn, NEW ov, NEW ov2, NEW pd2,
           pd2 = [pd EXCEPT ![t] = msgs],
           Progress(ss, is, ss2, is2), Batch(msgs, ss2, is2, sn, ov, ov2),
           OverGrows(ss, ov, ov2),
           AllOK(pd, ss, is, sn), OrderOK(pd, sn), OwedOK(pd, sn, ov), OnceOK(pd, sn, ov)
    PROVE  /\ pd2 \in [Thread -> Seq(CallMessage)]
           /\ AllOK(pd2, ss2, is2, sn) /\ OrderOK(pd2, sn)
           /\ OwedOK(pd2, sn, ov2) /\ OnceOK(pd2, sn, ov2)
<1>0. /\ DOMAIN ov \subseteq DOMAIN ov2
      /\ \A c \in DOMAIN ov : ov2[c] = ov[c]
      /\ DOMAIN ov2 \ DOMAIN ov \subseteq DOMAIN ss
  BY DEF OverGrows
<1> USE <1>0
<1>1. /\ pd2 \in [Thread -> Seq(CallMessage)]
      /\ pd2[t] = msgs /\ \A v \in Thread \ {t} : pd2[v] = pd[v]
  BY DEF Batch
<1>2. 1 .. Len(pd[t]) = {}
  BY EmptySeq
<1>3. AllOK(pd2, ss2, is2, sn)
  <2>1. \A x : MsgOK(x, ss, is, sn) => MsgOK(x, ss2, is2, sn)
    BY MsgOKKeeps
  <2>2. ASSUME NEW v \in Thread, NEW i \in 1 .. Len(pd2[v])
        PROVE  MsgOK(pd2[v][i], ss2, is2, sn)
    <3>1. CASE v = t
      BY <1>1, <3>1 DEF Batch
    <3>2. CASE v # t
      BY <1>1, <2>1, <3>2 DEF AllOK
    <3> QED BY <3>1, <3>2
  <2> QED BY <2>1, <2>2 DEF AllOK
<1>4. OrderOK(pd2, sn)
  <2>1. ASSUME NEW v \in Thread, NEW i \in 1 .. Len(pd2[v]), pd2[v][i].type = "call.incoming"
        PROVE  \/ CreatedSent(sn, pd2[v][i].call)
               \/ \E j \in 1 .. (i - 1) : /\ pd2[v][j].type = "call.created"
                                          /\ pd2[v][j].call = pd2[v][i].call
    <3>1. CASE v = t
      BY <1>1, <2>1, <3>1 DEF Batch
    <3>2. CASE v # t
      <4>1. pd2[v] = pd[v]
        BY <1>1, <3>2
      <4>2. i \in 1 .. Len(pd[v]) /\ pd[v][i].type = "call.incoming"
        BY <2>1, <4>1
      <4>3. \/ CreatedSent(sn, pd[v][i].call)
            \/ \E j \in 1 .. (i - 1) : /\ pd[v][j].type = "call.created"
                                       /\ pd[v][j].call = pd[v][i].call
        BY <4>2 DEF OrderOK
      <4> QED BY <4>1, <4>3
    <3> QED BY <3>1, <3>2
  <2> QED BY <2>1 DEF OrderOK
<1>5. \A types, u, c : \A v \in Thread, i \in Nat :
          /\ Holds(pd, v, i, types, u, c) => v # t /\ Holds(pd2, v, i, types, u, c)
          /\ Holds(pd2, v, i, types, u, c) /\ v # t => Holds(pd, v, i, types, u, c)
  BY <1>1, <1>2 DEF Holds
<1>6. OwedOK(pd2, sn, ov2)
  <2> SUFFICES ASSUME NEW c \in DOMAIN ov2,
                      NEW u \in {ov2[c].callerId, ov2[c].calleeId} \ {ov2[c].by}
               PROVE  \/ InSent(sn, Terminal, u, c)
                      \/ \E v \in Thread, i \in Nat : Holds(pd2, v, i, Terminal, u, c)
    BY DEF OwedOK
  <2>1. CASE c \in DOMAIN ov
    BY <1>5, <2>1 DEF OwedOK
  <2>2. CASE c \notin DOMAIN ov
    <3>1. PICK i \in 1 .. Len(msgs) :
              msgs[i].type \in Terminal /\ msgs[i].to = u /\ msgs[i].call = c
      BY <2>2 DEF Batch
    <3>2. Holds(pd2, t, i, Terminal, u, c) /\ i \in Nat
      BY <1>1, <3>1 DEF Holds
    <3> QED BY <3>2
  <2> QED BY <2>1, <2>2
<1>7. OnceOK(pd2, sn, ov2)
  <2> SUFFICES ASSUME NEW c \in DOMAIN ov2, NEW u \in User, ov2[c].callerId # ov2[c].calleeId
               PROVE  /\ \A t1, t2 \in Thread, i1, i2 \in Nat :
                            Holds(pd2, t1, i1, Terminal, u, c) /\ Holds(pd2, t2, i2, Terminal, u, c)
                            => t1 = t2 /\ i1 = i2
                      /\ InSent(sn, Terminal, u, c) =>
                            \A v \in Thread, i \in Nat : ~Holds(pd2, v, i, Terminal, u, c)
    BY DEF OnceOK
  <2>1. CASE c \in DOMAIN ov
    <3>1. \A v \in Thread, i \in Nat : Holds(pd2, v, i, Terminal, u, c) => v # t
      BY <1>1, <2>1 DEF Holds, Batch
    <3>2. \A v \in Thread, i \in Nat :
              Holds(pd2, v, i, Terminal, u, c) => Holds(pd, v, i, Terminal, u, c)
      BY <1>5, <3>1
    <3>3. ov[c].callerId # ov[c].calleeId
      BY <2>1
    <3>4. /\ \A t1, t2 \in Thread, i1, i2 \in Nat :
                Holds(pd, t1, i1, Terminal, u, c) /\ Holds(pd, t2, i2, Terminal, u, c)
                => t1 = t2 /\ i1 = i2
          /\ InSent(sn, Terminal, u, c) =>
                \A v \in Thread, i \in Nat : ~Holds(pd, v, i, Terminal, u, c)
      BY <2>1, <3>3 DEF OnceOK
    <3> QED BY <3>2, <3>4
  <2>2. CASE c \notin DOMAIN ov
    <3>1. c \in DOMAIN ss
      BY <2>2
    <3>2. ~InSent(sn, Terminal, u, c)
      BY <3>1 DEF InSent, AllOK, MsgOK
    <3>3. \A v \in Thread, i \in Nat : ~Holds(pd, v, i, Terminal, u, c)
      BY <3>1 DEF Holds, AllOK, MsgOK
    <3>4. \A v \in Thread, i \in Nat : Holds(pd2, v, i, Terminal, u, c) =>
              /\ v = t /\ i \in 1 .. Len(msgs)
              /\ msgs[i].type \in Terminal /\ msgs[i].to = u /\ msgs[i].call = c
      BY <1>1, <1>5, <3>3 DEF Holds
    <3>5. \A i, j \in 1 .. Len(msgs) :
              /\ msgs[i].type \in Terminal /\ msgs[j].type \in Terminal
              /\ msgs[i].to = u /\ msgs[j].to = u /\ msgs[i].call = c /\ msgs[j].call = c
              => i = j
      BY DEF Batch
    <3> QED BY <3>2, <3>4, <3>5
  <2> QED BY <2>1, <2>2
<1> QED BY <1>1, <1>3, <1>4, <1>6, <1>7

----------------------------------------------------------------------------
(* The steps of connections and threads.                                    *)

LEMMA NetworkKeeps ==
    ASSUME SigInv, UNCHANGED <<sessions, issued, pending, knows, sent, over>>,
           conn' \in [Conn -> [user : User \cup {NoCall}, st : ConnState]],
           reg' \in [User -> Conn \cup {NoConn}],
           werr' \in [Conn -> 0 .. MaxWriteErr],
           ConnOK(conn', reg'), KnowsOK(conn', knows, sent)
    PROVE  SigInv'
<1>1. CallInv'
  BY CallInvInductive DEF SigInv, callVars
<1>2. StateOK'
  BY DEF SigInv, StateOK
<1>3. OverOK'
  BY DEF SigInv, OverOK, Calls
<1> QED BY <1>1, <1>2, <1>3 DEF SigInv

(* A connection moves on, with its user. *)
LEMMA MoveKeeps ==
    ASSUME SigInv, NEW k \in Conn, NEW s \in ConnState \ {"unused"},
           conn[k].st # "unused", conn' = [conn EXCEPT ![k].st = s],
           reg' = reg \/ reg' = [reg EXCEPT ![conn[k].user] = NoConn],
           UNCHANGED <<sessions, issued, pending, werr, knows, sent, over>>
    PROVE  SigInv'
<1> DEFINE r == [conn[k] EXCEPT !.st = s]
<1>1. /\ conn \in [Conn -> [user : User \cup {NoCall}, st : ConnState]]
      /\ reg \in [User -> Conn \cup {NoConn}] /\ werr \in [Conn -> 0 .. MaxWriteErr]
      /\ ConnOK(conn, reg) /\ KnowsOK(conn, knows, sent)
  BY DEF SigInv, StateOK
<1>2. conn' = [conn EXCEPT ![k] = r]
  OBVIOUS
<1>3. r \in [user : User \cup {NoCall}, st : ConnState] /\ r.user = conn[k].user /\ r.st = s
  BY <1>1
<1> HIDE DEF r
<1>4. /\ conn' \in [Conn -> [user : User \cup {NoCall}, st : ConnState]]
      /\ \A j \in Conn : conn'[j].user = conn[j].user
      /\ \A j \in Conn : conn[j].st # "unused" <=> conn'[j].st # "unused"
  BY <1>1, <1>2, <1>3
<1>5. /\ reg' \in [User -> Conn \cup {NoConn}]
      /\ \A u \in User : reg'[u] # NoConn => reg'[u] = reg[u]
  BY <1>1
<1>6. ConnOK(conn', reg')
  BY <1>1, <1>4, <1>5 DEF ConnOK
<1>7. KnowsOK(conn', knows, sent)
  BY <1>1, <1>4 DEF KnowsOK
<1>8. werr' \in [Conn -> 0 .. MaxWriteErr]
  BY <1>1
<1> QED BY <1>4, <1>5, <1>6, <1>7, <1>8, NetworkKeeps

LEMMA ConnectKeeps ==
    ASSUME SigInv, NEW k \in Conn, NEW u \in User, Connect(k, u)
    PROVE  SigInv'
<1>1. /\ conn \in [Conn -> [user : User \cup {NoCall}, st : ConnState]]
      /\ reg \in [User -> Conn \cup {NoConn}] /\ werr \in [Conn -> 0 .. MaxWriteErr]
      /\ ConnOK(conn, reg) /\ KnowsOK(conn, knows, sent)
  BY DEF SigInv, StateOK
<1>2. /\ conn[k].st = "unused" /\ werr' = werr
      /\ conn' = [conn EXCEPT ![k] = [user |-> u, st |-> "handshake"]]
      /\ reg' = [reg EXCEPT ![u] = k]
      /\ UNCHANGED <<sessions, issued, pending, knows, sent, over>>
  BY DEF Connect
<1>3. /\ conn' \in [Conn -> [user : User \cup {NoCall}, st : ConnState]]
      /\ conn'[k].user = u /\ conn'[k].st = "handshake"
      /\ \A j \in Conn \ {k} : conn'[j] = conn[j]
      /\ reg' \in [User -> Conn \cup {NoConn}]
      /\ reg'[u] = k /\ \A v \in User \ {u} : reg'[v] = reg[v]
  BY <1>1, <1>2 DEF ConnState
<1>4. ConnOK(conn', reg')
  <2>1. \A j \in Conn : conn'[j].st # "unused" => conn'[j].user \in User
    BY <1>1, <1>3 DEF ConnOK
  <2>2. ASSUME NEW v \in User, reg'[v] # NoConn
        PROVE  conn'[reg'[v]].st # "unused" /\ conn'[reg'[v]].user = v
    <3>1. CASE v = u
      BY <1>3, <3>1
    <3>2. CASE v # u
      <4>1. reg'[v] = reg[v] /\ reg[v] \in Conn
        BY <1>1, <1>3, <2>2, <3>2
      <4>2. conn[reg[v]].st # "unused" /\ conn[reg[v]].user = v
        BY <1>1, <2>2, <4>1 DEF ConnOK
      <4> QED BY <1>2, <1>3, <4>1, <4>2
    <3> QED BY <3>1, <3>2
  <2> QED BY <2>1, <2>2 DEF ConnOK
<1>5. KnowsOK(conn', knows, sent)
  BY <1>1, <1>2, <1>3 DEF KnowsOK
<1> QED BY <1>1, <1>2, <1>3, <1>4, <1>5, NetworkKeeps

LEMMA WriteFailedKeeps ==
    ASSUME SigInv, NEW k \in Conn, WriteFailed(k)
    PROVE  SigInv'
<1>1. /\ conn \in [Conn -> [user : User \cup {NoCall}, st : ConnState]]
      /\ reg \in [User -> Conn \cup {NoConn}] /\ werr \in [Conn -> 0 .. MaxWriteErr]
      /\ ConnOK(conn, reg) /\ KnowsOK(conn, knows, sent)
  BY DEF SigInv, StateOK
<1>2. /\ werr[k] > 0 /\ werr' = [werr EXCEPT ![k] = werr[k] - 1] /\ conn' = conn
      /\ reg' = [reg EXCEPT ![conn[k].user] = NoConn]
      /\ UNCHANGED <<sessions, issued, pending, knows, sent, over>>
  BY DEF WriteFailed, removeSession
<1>3. werr' \in [Conn -> 0 .. MaxWriteErr]
  BY <1>1, <1>2, SignalingAssumption
<1>4. /\ reg' \in [User -> Conn \cup {NoConn}]
      /\ \A u \in User : reg'[u] # NoConn => reg'[u] = reg[u]
  BY <1>1, <1>2
<1>5. ConnOK(conn', reg')
  BY <1>1, <1>2, <1>4 DEF ConnOK
<1> QED BY <1>1, <1>2, <1>3, <1>4, <1>5, NetworkKeeps

LEMMA SendKeeps ==
    ASSUME SigInv, NEW t \in Thread, Send(t)
    PROVE  SigInv'
<1> DEFINE m == Head(pending[t])
           k == reg[m.to]
<1>1. /\ pending \in [Thread -> Seq(CallMessage)] /\ sent \subseteq CallMessage
      /\ conn \in [Conn -> [user : User \cup {NoCall}, st : ConnState]]
      /\ reg \in [User -> Conn \cup {NoConn}] /\ werr \in [Conn -> 0 .. MaxWriteErr]
      /\ knows \subseteq Conn \X issued
      /\ ConnOK(conn, reg) /\ KnowsOK(conn, knows, sent)
  BY DEF SigInv, StateOK
<1>2. /\ Takes(pending, pending', t)
      /\ sent' = sent \cup (IF m.type \in {"webrtc", "error"} THEN {} ELSE {m})
      /\ WriteOutcome(k, m)
      /\ UNCHANGED <<sessions, issued, conn, reg, over>>
  BY <1>1 DEF Send, Takes, Remember
<1>3. /\ pending' \in [Thread -> Seq(CallMessage)]
      /\ m = pending[t][1] /\ m \in CallMessage /\ 1 \in 1 .. Len(pending[t])
  BY <1>2, TakesShifts
<1>4. MsgOK(m, sessions, issued, sent)
  BY <1>3 DEF SigInv, AllOK
<1>5. /\ AllOK(pending', sessions, issued, sent') /\ OrderOK(pending', sent')
      /\ OwedOK(pending', sent', over) /\ OnceOK(pending', sent', over)
  <2>1. \A c \in DOMAIN over : over[c].callerId \in User /\ over[c].calleeId \in User
    BY DEF SigInv, OverOK
  <2> QED BY <1>2, <2>1, SendMoves DEF SigInv
<1>6. m.to \in User /\ sent' \subseteq CallMessage
  BY <1>1, <1>2, <1>3 DEF CallMessage
<1> HIDE DEF m
<1>7. k \in Conn \cup {NoConn}
  BY <1>1, <1>6
<1>8. KnowsOK(conn, knows, sent')
  BY <1>1, <1>2 DEF KnowsOK, InSent
<1>9. /\ werr' \in [Conn -> 0 .. MaxWriteErr]
      /\ knows' \subseteq Conn \X issued
      /\ KnowsOK(conn, knows', sent')
  <2>1. CASE knows' = knows /\ werr' = werr
    BY <1>1, <1>8, <2>1
  <2>2. CASE /\ knows' = knows /\ k # NoConn
             /\ werr' = [werr EXCEPT ![k] = IF werr[k] < MaxWriteErr THEN werr[k] + 1 ELSE werr[k]]
    <3>1. werr' \in [Conn -> 0 .. MaxWriteErr]
      BY <1>1, <1>7, <2>2, SignalingAssumption
    <3> QED BY <1>1, <1>8, <2>2, <3>1
  <2>3. CASE /\ m.type \in Announcement /\ knows' = knows \cup {<<k, m.call>>}
             /\ k # NoConn /\ werr' = werr
    <3>1. m.call \in issued /\ k \in Conn /\ m \in sent'
      BY <1>2, <1>4, <1>7, <2>3 DEF MsgOK, Announcement
    <3>2. conn[k].st # "unused" /\ conn[k].user = m.to
      BY <1>1, <1>6, <2>3 DEF ConnOK
    <3>3. InSent(sent', Announcement, conn[k].user, m.call)
      BY <2>3, <3>1, <3>2 DEF InSent
    <3>4. KnowsOK(conn, knows', sent')
      <4> HIDE DEF k
      <4> SUFFICES ASSUME NEW j \in Conn, NEW c \in CallId, <<j, c>> \in knows'
                   PROVE  conn[j].st # "unused" /\ InSent(sent', Announcement, conn[j].user, c)
        BY DEF KnowsOK
      <4>1. CASE <<j, c>> \in knows
        BY <1>8, <4>1 DEF KnowsOK
      <4>2. CASE j = k /\ c = m.call
        BY <3>2, <3>3, <4>2
      <4> QED BY <2>3, <4>1, <4>2
    <3> QED BY <1>1, <2>3, <3>1, <3>4
  <2> QED BY <1>2, <1>7, <2>1, <2>2, <2>3 DEF WriteOutcome, Announcement
<1>10. CallInv'
  BY <1>2, CallInvInductive DEF SigInv, callVars
<1>11. StateOK'
  BY <1>1, <1>2, <1>3, <1>6, <1>9 DEF StateOK
<1>12. OverOK'
  BY <1>2 DEF SigInv, OverOK, Calls
<1> QED BY <1>1, <1>2, <1>5, <1>9, <1>10, <1>11, <1>12 DEF SigInv

----------------------------------------------------------------------------
(* The steps of handlers.                                                   *)

LEMMA QueueKeeps ==
    ASSUME SigInv, NEW t \in Thread, pending[t] = <<>>, NEW msgs, Queue(t, msgs),
           CallInv', OverOK', Progress(sessions, issued, sessions', issued'),
           Batch(msgs, sessions', issued', sent, over, over'),
           \A c \in DOMAIN over : c \in DOMAIN over' /\ over'[c] = over[c],
           DOMAIN over' \ DOMAIN over \subseteq Calls
    PROVE  SigInv'
<1>1. /\ pending' = [pending EXCEPT ![t] = msgs]
      /\ UNCHANGED <<conn, reg, werr, knows, sent>>
  BY DEF Queue
<1>2. /\ pending' \in [Thread -> Seq(CallMessage)]
      /\ AllOK(pending', sessions', issued', sent) /\ OrderOK(pending', sent)
      /\ OwedOK(pending', sent, over') /\ OnceOK(pending', sent, over')
  <2>1. pending \in [Thread -> Seq(CallMessage)]
    BY DEF SigInv, StateOK
  <2>2. DOMAIN over \subseteq DOMAIN over' /\ DOMAIN over' \ DOMAIN over \subseteq DOMAIN sessions
    BY DEF Calls
  <2>3. /\ AllOK(pending, sessions, issued, sent) /\ OrderOK(pending, sent)
        /\ OwedOK(pending, sent, over) /\ OnceOK(pending, sent, over)
    BY DEF SigInv
  <2>4. OverGrows(sessions, over, over')
    BY <2>2 DEF OverGrows
  <2> QED BY <1>1, <2>1, <2>3, <2>4, QueueAdds
<1>3. StateOK'
  BY <1>1, <1>2 DEF SigInv, StateOK, Progress
<1> QED BY <1>1, <1>2, <1>3 DEF SigInv

LEMMA OneMessage ==
    ASSUME NEW m \in CallMessage
    PROVE  <<m>> \in Seq(CallMessage) /\ Len(<<m>>) = 1 /\ <<m>>[1] = m
OBVIOUS

LEMMA TwoMessages ==
    ASSUME NEW m \in CallMessage, NEW n \in CallMessage
    PROVE  /\ <<m, n>> \in Seq(CallMessage) /\ Len(<<m, n>>) = 2
           /\ <<m, n>>[1] = m /\ <<m, n>>[2] = n
OBVIOUS

(* Messages that end nothing. *)
LEMMA PlainBatch ==
    ASSUME NEW ss, NEW is, NEW sn, NEW ov, NEW msgs \in Seq(CallMessage),
           \A i \in 1 .. Len(msgs) : MsgOK(msgs[i], ss, is, sn) /\ msgs[i].type \notin Terminal,
           \A i \in 1 .. Len(msgs) : msgs[i].type = "call.incoming" =>
              \E j \in 1 .. (i - 1) : msgs[j].type = "call.created" /\ msgs[j].call = msgs[i].call
    PROVE  Batch(msgs, ss, is, sn, ov, ov)
BY DEF Batch

\* What a handler that ends no call has to show.
LEMMA PlainKeeps ==
    ASSUME SigInv, NEW k \in Conn, pending[k] = <<>>, NEW msgs, Queue(k, msgs),
           CallInv', IsFiniteSet(issued'), Calls \subseteq Calls',
           issued' \ Calls' = issued \ Calls, over' = over,
           Progress(sessions, issued, sessions', issued'),
           Batch(msgs, sessions', issued', sent, over, over)
    PROVE  SigInv'
<1>1. OverOK'
  BY DEF SigInv, OverOK
<1>2. k \in Thread
  BY DEF Thread
<1>3. /\ Batch(msgs, sessions', issued', sent, over, over')
      /\ \A c \in DOMAIN over : c \in DOMAIN over' /\ over'[c] = over[c]
      /\ DOMAIN over' \ DOMAIN over \subseteq Calls
  OBVIOUS
<1> QED BY <1>1, <1>2, <1>3, QueueKeeps

LEMMA ReaderHasUser ==
    ASSUME SigInv, NEW k \in Conn, Reads(k)
    PROVE  conn[k].user \in User /\ pending[k] = <<>> /\ k \in Thread
BY DEF SigInv, ConnOK, Reads, Thread

(* A handler that leaves the table alone and sends one message that is about
   no call, or relays one. *)
LEMMA ReplyKeeps ==
    ASSUME SigInv, NEW k \in Conn, Reads(k), NEW type \in {"error", "webrtc"},
           NEW to \in User, NEW c \in CallId \cup {NoCall},
           Queue(k, <<Msg(type, to, c)>>), UNCHANGED <<callVars, over>>
    PROVE  SigInv'
<1> DEFINE m == Msg(type, to, c)
<1>1. m \in CallMessage /\ m.type = type
  BY DEF Msg, CallMessage, MsgType
<1> HIDE DEF m
<1>2. MsgOK(m, sessions', issued', sent) /\ m.type \notin Terminal /\ m.type # "call.incoming"
  BY <1>1 DEF MsgOK, Terminal
<1>3. Batch(<<m>>, sessions', issued', sent, over, over)
  <2> DEFINE s == <<m>>
  <2>1. s \in Seq(CallMessage) /\ Len(s) = 1 /\ s[1] = m
    BY <1>1, OneMessage
  <2> HIDE DEF s
  <2>2. \A i \in 1 .. Len(s) : s[i] = m
    BY <2>1
  <2>3. Batch(s, sessions', issued', sent, over, over)
    BY <1>2, <2>1, <2>2, PlainBatch
  <2> QED BY <2>3 DEF s
<1>4. CallInv' /\ sessions' = sessions /\ issued' = issued /\ over' = over
  BY CallInvInductive DEF SigInv, callVars
<1>5. Progress(sessions, issued, sessions', issued')
  BY <1>4 DEF Progress
<1>6. IsFiniteSet(issued') /\ Calls \subseteq Calls' /\ issued' \ Calls' = issued \ Calls
  BY <1>4 DEF SigInv, OverOK, Calls
<1> QED BY <1>3, <1>4, <1>5, <1>6, ReaderHasUser, PlainKeeps DEF m

LEMMA RefuseKeeps ==
    ASSUME SigInv, NEW k \in Conn, Reads(k), Refuse(k)
    PROVE  SigInv'
BY ReaderHasUser, ReplyKeeps DEF Refuse

LEMMA CreateSendsKeep ==
    ASSUME SigInv, NEW k \in Conn, Reads(k), NEW v \in User, NEW c \in CallId,
           create(conn[k].user, v, c), Queue(k, CreateSends(conn[k].user, v, c)),
           UNCHANGED over
    PROVE  SigInv'
<1> DEFINE u == conn[k].user
           m == Msg("call.created", u, c)
           n == Msg("call.incoming", v, c)
<1>1. u \in User /\ pending[k] = <<>>
  BY ReaderHasUser
<1> HIDE DEF u
<1>2. /\ c \notin issued /\ issued' = issued \cup {c}
      /\ DOMAIN sessions' = DOMAIN sessions \cup {c}
      /\ sessions'[c].callerId = u /\ sessions'[c].calleeId = v
      /\ \A d \in DOMAIN sessions \ {c} : sessions'[d] = sessions[d]
  BY DEF create, Put, u
<1>3. /\ m \in CallMessage /\ m.type = "call.created" /\ m.to = u /\ m.call = c
      /\ n \in CallMessage /\ n.type = "call.incoming" /\ n.to = v /\ n.call = c
  BY <1>1 DEF Msg, CallMessage, MsgType
<1> HIDE DEF m, n
<1>4. /\ MsgOK(m, sessions', issued', sent) /\ m.type \notin Terminal
      /\ MsgOK(n, sessions', issued', sent) /\ n.type \notin Terminal
  BY <1>2, <1>3 DEF MsgOK, Terminal
<1>5. Batch(<<m, n>>, sessions', issued', sent, over, over)
  <2> DEFINE s == <<m, n>>
  <2>1. s \in Seq(CallMessage) /\ Len(s) = 2 /\ s[1] = m /\ s[2] = n
    BY <1>3, TwoMessages
  <2> HIDE DEF s
  <2>2. \A i \in 1 .. Len(s) : MsgOK(s[i], sessions', issued', sent) /\ s[i].type \notin Terminal
    BY <1>4, <2>1
  <2>3. \A i \in 1 .. Len(s) : s[i].type = "call.incoming" =>
           \E j \in 1 .. (i - 1) : s[j].type = "call.created" /\ s[j].call = s[i].call
    <3> SUFFICES ASSUME NEW i \in 1 .. Len(s), s[i].type = "call.incoming"
                 PROVE  \E j \in 1 .. (i - 1) : s[j].type = "call.created" /\ s[j].call = s[i].call
      OBVIOUS
    <3>1. i = 2 /\ 1 \in 1 .. (i - 1)
      BY <1>3, <2>1
    <3> QED BY <1>3, <2>1, <3>1
  <2>4. Batch(s, sessions', issued', sent, over, over)
    BY <2>1, <2>2, <2>3, PlainBatch
  <2> QED BY <2>4 DEF s
<1>6. CallInv'
  BY <1>1, CreateKeeps DEF SigInv, u
<1>7. Calls \subseteq issued
  BY DEF SigInv, CallInv, CallTypeOK
<1>8. Progress(sessions, issued, sessions', issued')
  BY <1>2 DEF Progress
<1>9. IsFiniteSet(issued') /\ Calls \subseteq Calls' /\ issued' \ Calls' = issued \ Calls
  BY <1>2, <1>7, FS_AddElement DEF SigInv, OverOK, Calls
<1> QED BY <1>1, <1>5, <1>6, <1>8, <1>9, PlainKeeps DEF CreateSends, m, n, u

(* Both parties of a call were sent its announcement before the callee could
   accept it: he has it from the message that was the second to be sent. *)
LEMMA BothAnnounced ==
    ASSUME SigInv, NEW k \in Conn, NEW c \in Calls, c \in Known(conn[k].user),
           sessions[c].calleeId = conn[k].user
    PROVE  /\ InSent(sent, Announcement, sessions[c].callerId, c)
           /\ InSent(sent, Announcement, sessions[c].calleeId, c)
<1> DEFINE u == conn[k].user
<1>1. InSent(sent, Announcement, u, c)
  <2>1. PICK j \in Conn : conn[j].user = u /\ <<j, c>> \in knows
    BY DEF Known
  <2>2. c \in CallId
    BY DEF Known
  <2> QED BY <2>1, <2>2 DEF SigInv, KnowsOK
<1>2. PICK m \in sent : m.type \in Announcement /\ m.to = u /\ m.call = c
  BY <1>1 DEF InSent
<1>3. c \in DOMAIN sessions
  BY DEF Calls
<1>4. CASE m.type = "call.created"
  BY <1>1, <1>2, <1>3, <1>4 DEF SigInv, AllOK, MsgOK
<1>5. CASE m.type = "call.incoming"
  <2>1. PICK n \in sent : n.type = "call.created" /\ n.call = c
    BY <1>2, <1>5 DEF SigInv, OrderOK, CreatedSent
  <2>2. n.to = sessions[c].callerId
    BY <1>3, <2>1 DEF SigInv, AllOK, MsgOK
  <2> QED BY <1>1, <2>1, <2>2 DEF InSent, Announcement
<1> QED BY <1>2, <1>4, <1>5 DEF Announcement

LEMMA NoneMeansRinging ==
    ASSUME NEW c, NEW u, ringingError(c, u) = "none"
    PROVE  c \in Calls /\ sessions[c].calleeId = u /\ sessions[c].state = "Ringing"
BY DEF ringingError

LEMMA NoneMeansParty ==
    ASSUME NEW c, NEW u, hangupError(c, u) = "none"
    PROVE  c \in Calls /\ u \in Parties(sessions[c])
BY DEF hangupError

LEMMA AcceptSendsKeep ==
    ASSUME SigInv, NEW k \in Conn, Reads(k), NEW c \in CallId, c \in Known(conn[k].user),
           accept(c, conn[k].user), UNCHANGED over,
           Queue(k, <<Msg("rtc.config", sessions[c].callerId, c),
                      Msg("rtc.config", sessions[c].calleeId, c)>>)
    PROVE  SigInv'
<1> DEFINE u == conn[k].user
           m == Msg("rtc.config", sessions[c].callerId, c)
           n == Msg("rtc.config", sessions[c].calleeId, c)
<1>1. u \in User /\ pending[k] = <<>> /\ c \in Calls /\ sessions[c].calleeId = u
  BY ReaderHasUser, NoneMeansRinging DEF accept
<1>2. sessions \in [Calls -> CallSession] /\ CallInv
  BY DEF SigInv, CallInv, CallTypeOK
<1>3. sessions[c].callerId \in User /\ sessions[c].calleeId \in User
  BY <1>1, <1>2 DEF CallSession
<1>4. /\ InSent(sent, Announcement, sessions[c].callerId, c)
      /\ InSent(sent, Announcement, sessions[c].calleeId, c)
  BY <1>1, BothAnnounced
<1>5. /\ m \in CallMessage /\ m.type = "rtc.config" /\ m.to = sessions[c].callerId /\ m.call = c
      /\ n \in CallMessage /\ n.type = "rtc.config" /\ n.to = sessions[c].calleeId /\ n.call = c
  BY <1>3 DEF Msg, CallMessage, MsgType
<1> HIDE DEF m, n
<1>6. /\ issued' = issued /\ DOMAIN sessions' = DOMAIN sessions
      /\ \A d \in Calls : /\ sessions'[d].callerId = sessions[d].callerId
                          /\ sessions'[d].calleeId = sessions[d].calleeId
  BY <1>2 DEF accept, CallSession, Calls
<1>7. c \in issued'
  BY <1>1, <1>2, <1>6 DEF CallInv, CallTypeOK
<1>8. /\ MsgOK(m, sessions', issued', sent) /\ m.type \notin Terminal
      /\ MsgOK(n, sessions', issued', sent) /\ n.type \notin Terminal
  BY <1>4, <1>5, <1>7 DEF MsgOK, Terminal
<1>9. Batch(<<m, n>>, sessions', issued', sent, over, over)
  <2> DEFINE s == <<m, n>>
  <2>1. s \in Seq(CallMessage) /\ Len(s) = 2 /\ s[1] = m /\ s[2] = n
    BY <1>5, TwoMessages
  <2> HIDE DEF s
  <2>2. \A i \in 1 .. Len(s) : /\ MsgOK(s[i], sessions', issued', sent)
                               /\ s[i].type \notin Terminal /\ s[i].type # "call.incoming"
    BY <1>5, <1>8, <2>1
  <2>3. Batch(s, sessions', issued', sent, over, over)
    BY <2>1, <2>2, PlainBatch
  <2> QED BY <2>3 DEF s
<1>10. CallInv'
  BY <1>1, <1>2, AcceptKeeps
<1>11. Progress(sessions, issued, sessions', issued')
  BY <1>6 DEF Progress, Calls
<1>12. IsFiniteSet(issued') /\ Calls \subseteq Calls' /\ issued' \ Calls' = issued \ Calls
  BY <1>6 DEF SigInv, OverOK, Calls
<1> QED BY <1>1, <1>9, <1>10, <1>11, <1>12, PlainKeeps DEF m, n

(* reject and hangup: one call ends, and the one party who did not end it
   himself, if there is one, is told. *)
LEMMA EndKeeps ==
    ASSUME SigInv, NEW k \in Conn, Reads(k), NEW c \in Calls, NEW w \in User,
           \A x \in Parties(sessions[c]) \ {conn[k].user} : x = w,
           sessions' = Erase(sessions, {c}), issued' = issued,
           Queue(k, <<Msg("call.ended", w, c)>>),
           over' = Put(over, c, Ended(sessions[c], conn[k].user))
    PROVE  SigInv'
<1> DEFINE m == Msg("call.ended", w, c)
           e == Ended(sessions[c], conn[k].user)
<1>1. pending[k] = <<>> /\ k \in Thread
  BY ReaderHasUser
<1>2. /\ sessions \in [Calls -> CallSession] /\ Calls \subseteq issued /\ issued \subseteq CallId
      /\ DOMAIN over = issued \ Calls /\ IsFiniteSet(issued)
      /\ \A d \in DOMAIN over : over[d].callerId \in User /\ over[d].calleeId \in User
  BY DEF SigInv, CallInv, CallTypeOK, OverOK
<1>3. /\ e.callerId = sessions[c].callerId /\ e.calleeId = sessions[c].calleeId
      /\ e.by = conn[k].user /\ e.callerId \in User /\ e.calleeId \in User
  BY <1>2 DEF Ended, CallSession
<1>4. m \in CallMessage /\ m.type = "call.ended" /\ m.to = w /\ m.call = c
  BY <1>2 DEF Msg, CallMessage, MsgType
<1> HIDE DEF m, e
<1>5. /\ DOMAIN sessions' = DOMAIN sessions \ {c}
      /\ \A d \in DOMAIN sessions' : sessions'[d] = sessions[d]
  BY DEF Erase, Restrict
<1>6. /\ DOMAIN over' = DOMAIN over \cup {c} /\ over'[c] = e
      /\ \A d \in DOMAIN over \ {c} : over'[d] = over[d]
  BY DEF Put, e
<1>7. c \notin DOMAIN over
  BY <1>2
<1>8. CallInv'
  BY EraseKeeps DEF SigInv
<1>9. OverOK'
  BY <1>2, <1>3, <1>5, <1>6 DEF OverOK, Calls
<1>10. Progress(sessions, issued, sessions', issued')
  BY <1>5 DEF Progress
<1>11. Batch(<<m>>, sessions', issued', sent, over, over')
  <2> DEFINE s == <<m>>
  <2>1. s \in Seq(CallMessage) /\ Len(s) = 1 /\ s[1] = m
    BY <1>4, OneMessage
  <2> HIDE DEF s
  <2>2. MsgOK(m, sessions', issued', sent) /\ m.type \in Terminal
    BY <1>2, <1>4, <1>5 DEF MsgOK, Terminal
  <2>3. \A d \in DOMAIN over' \ DOMAIN over :
          \A x \in {over'[d].callerId, over'[d].calleeId} \ {over'[d].by} :
              \E i \in 1 .. Len(s) : s[i].type \in Terminal /\ s[i].to = x /\ s[i].call = d
    <3>1. \A x \in {e.callerId, e.calleeId} \ {e.by} : x = w
      BY <1>3 DEF Parties
    <3>2. \A d \in DOMAIN over' \ DOMAIN over : d = c /\ over'[d] = e
      BY <1>6
    <3>3. 1 \in 1 .. Len(s) /\ s[1].type \in Terminal /\ s[1].to = w /\ s[1].call = c
      BY <1>4, <2>1, <2>2
    <3> QED BY <3>1, <3>2, <3>3
  <2>4. Batch(s, sessions', issued', sent, over, over')
    <3>1. \A i \in 1 .. Len(s) : s[i] = m /\ i = 1
      BY <2>1
    <3>2. m.type # "call.incoming" /\ m.call \in DOMAIN over' \ DOMAIN over
      BY <1>4, <1>6, <1>7
    <3> QED BY <2>1, <2>2, <2>3, <3>1, <3>2 DEF Batch
  <2> QED BY <2>4 DEF s
<1>12. /\ \A d \in DOMAIN over : d \in DOMAIN over' /\ over'[d] = over[d]
       /\ DOMAIN over' \ DOMAIN over \subseteq Calls
  BY <1>6, <1>7
<1> QED BY <1>1, <1>8, <1>9, <1>10, <1>11, <1>12, QueueKeeps DEF m

LEMMA HandlerKeeps ==
    ASSUME SigInv, NEW k \in Conn, Handler(k)
    PROVE  SigInv'
<1> DEFINE u == conn[k].user
<1>1. CASE BadMessage(k)
  BY <1>1, RefuseKeeps DEF BadMessage
<1>2. ASSUME NEW v \in User, onCallCreate(k, v)
      PROVE  SigInv'
  BY <1>2, RefuseKeeps, CreateSendsKeep DEF onCallCreate
<1>3. ASSUME NEW c \in CallId, onCallAccept(k, c)
      PROVE  SigInv'
  BY <1>3, RefuseKeeps, AcceptSendsKeep DEF onCallAccept
<1>4. \A c \in Calls : sessions[c].callerId \in User /\ sessions[c].calleeId \in User
  BY DEF SigInv, CallInv, CallTypeOK, CallSession
<1>5. ASSUME NEW c \in CallId, onCallReject(k, c)
      PROVE  SigInv'
  <2>1. Reads(k)
    BY <1>5 DEF onCallReject
  <2>2. CASE Refuse(k)
    BY <2>1, <2>2, RefuseKeeps
  <2>3. CASE /\ reject(c, u) /\ Queue(k, <<Msg("call.ended", sessions[c].callerId, c)>>)
             /\ over' = Put(over, c, Ended(sessions[c], u))
    <3>1. /\ c \in Calls /\ sessions[c].calleeId = u
          /\ sessions' = Erase(sessions, {c}) /\ issued' = issued
      BY <2>3, NoneMeansRinging DEF reject
    <3>2. \A x \in Parties(sessions[c]) \ {u} : x = sessions[c].callerId
      BY <3>1 DEF Parties
    <3> QED BY <1>4, <2>1, <2>3, <3>1, <3>2, EndKeeps
  <2> QED BY <1>5, <2>2, <2>3 DEF onCallReject
<1>6. ASSUME NEW c \in CallId, onCallHangup(k, c)
      PROVE  SigInv'
  <2>1. Reads(k)
    BY <1>6 DEF onCallHangup
  <2>2. CASE Refuse(k)
    BY <2>1, <2>2, RefuseKeeps
  <2>3. CASE /\ hangup(c, u) /\ Queue(k, <<Msg("call.ended", Other(sessions[c], u), c)>>)
             /\ over' = Put(over, c, Ended(sessions[c], u))
    <3>1. /\ c \in Calls /\ u \in Parties(sessions[c])
          /\ sessions' = Erase(sessions, {c}) /\ issued' = issued
      BY <2>3, NoneMeansParty DEF hangup
    <3>2. /\ Other(sessions[c], u) \in User
          /\ \A x \in Parties(sessions[c]) \ {u} : x = Other(sessions[c], u)
      BY <1>4, <3>1 DEF Parties, Other
    <3> QED BY <2>1, <2>3, <3>1, <3>2, EndKeeps
  <2> QED BY <1>6, <2>2, <2>3 DEF onCallHangup
<1>7. ASSUME NEW c \in CallId, onWebrtcRelay(k, c)
      PROVE  SigInv'
  <2>1. Reads(k)
    BY <1>7 DEF onWebrtcRelay
  <2>2. CASE Refuse(k)
    BY <2>1, <2>2, RefuseKeeps
  <2>3. CASE /\ c \in Calls /\ Queue(k, <<Msg("webrtc", Other(sessions[c], u), c)>>)
             /\ UNCHANGED <<callVars, over>>
    <3>1. Other(sessions[c], u) \in User
      BY <1>4, <2>3 DEF Other
    <3> QED BY <2>1, <2>3, <3>1, ReplyKeeps
  <2> QED BY <1>7, <2>2, <2>3 DEF onWebrtcRelay
<1> QED BY <1>1, <1>2, <1>3, <1>5, <1>6, <1>7 DEF Handler

----------------------------------------------------------------------------
(* The expire timer.                                                        *)

(* Where the two messages of each call are in the batch. *)
LEMMA Halves ==
    ASSUME NEW n \in Nat, NEW i \in 1 .. 2 * n
    PROVE  /\ (i + 1) \div 2 \in 1 .. n
           /\ i % 2 \in {0, 1}
           /\ i = 2 * ((i + 1) \div 2) - (i % 2)
OBVIOUS

LEMMA Doubles ==
    ASSUME NEW n \in Nat, NEW h \in 1 .. n
    PROVE  /\ 2 * h - 1 \in 1 .. 2 * n /\ 2 * h \in 1 .. 2 * n
           /\ ((2 * h - 1) + 1) \div 2 = h /\ (2 * h - 1) % 2 = 1
           /\ (2 * h + 1) \div 2 = h /\ (2 * h) % 2 = 0
OBVIOUS

LEMMA FailedMessage ==
    ASSUME NEW to \in User, NEW c \in CallId
    PROVE  LET m == Msg("call.failed", to, c)
           IN  m \in CallMessage /\ m.type = "call.failed" /\ m.to = to /\ m.call = c
BY DEF Msg, CallMessage, MsgType

(* The batch has one message to each party of each overdue call. *)
LEMMA BatchTells ==
    ASSUME SigInv, NEW n \in Nat, NEW order \in Bijection(1 .. n, Overdue)
    PROVE  LET s == BatchSends(order, n)
           IN  /\ s \in Seq(CallMessage) /\ Len(s) = 2 * n
               /\ \A i \in 1 .. 2 * n :
                     LET c == order[(i + 1) \div 2]
                     IN  /\ c \in Overdue /\ s[i].type = "call.failed" /\ s[i].call = c
                         /\ s[i].to = IF i % 2 = 1 THEN sessions[c].callerId
                                      ELSE sessions[c].calleeId
<1> DEFINE s == BatchSends(order, n)
           q(i) == order[(i + 1) \div 2]
<1>1. order \in [1 .. n -> Overdue]
  BY DEF Bijection, Injection
<1>2. \A c \in Overdue : /\ c \in CallId
                         /\ sessions[c].callerId \in User /\ sessions[c].calleeId \in User
  BY DEF SigInv, CallInv, CallTypeOK, CallSession, Overdue
<1>3. ASSUME NEW i \in 1 .. 2 * n
      PROVE  /\ q(i) \in Overdue
             /\ i % 2 = 1 => s[i] = Msg("call.failed", sessions[q(i)].callerId, q(i))
             /\ i % 2 # 1 => s[i] = Msg("call.failed", sessions[q(i)].calleeId, q(i))
  <2>1. (i + 1) \div 2 \in 1 .. n /\ i % 2 \in {0, 1}
    BY Halves
  <2>2. q(i) \in Overdue
    BY <1>1, <2>1
  <2>3. s[i] = ExpirySends(sessions[q(i)], q(i))[2 - (i % 2)]
    BY DEF BatchSends
  <2>4. /\ ExpirySends(sessions[q(i)], q(i))[1] = Msg("call.failed", sessions[q(i)].callerId, q(i))
        /\ ExpirySends(sessions[q(i)], q(i))[2] = Msg("call.failed", sessions[q(i)].calleeId, q(i))
    BY DEF ExpirySends
  <2>5. i % 2 = 1 => 2 - (i % 2) = 1
    OBVIOUS
  <2>6. i % 2 # 1 => 2 - (i % 2) = 2
    BY <2>1
  <2> QED BY <2>2, <2>3, <2>4, <2>5, <2>6
<1> HIDE DEF s
<1>4. ASSUME NEW i \in 1 .. 2 * n
      PROVE  /\ s[i] \in CallMessage /\ s[i].type = "call.failed" /\ s[i].call = q(i)
             /\ s[i].to = IF i % 2 = 1 THEN sessions[q(i)].callerId ELSE sessions[q(i)].calleeId
  <2>1. /\ q(i) \in Overdue /\ q(i) \in CallId
        /\ sessions[q(i)].callerId \in User /\ sessions[q(i)].calleeId \in User
    BY <1>2, <1>3
  <2>2. CASE i % 2 = 1
    <3>1. s[i] = Msg("call.failed", sessions[q(i)].callerId, q(i))
      BY <1>3, <2>2
    <3> QED BY <2>1, <2>2, <3>1, FailedMessage
  <2>3. CASE i % 2 # 1
    <3>1. s[i] = Msg("call.failed", sessions[q(i)].calleeId, q(i))
      BY <1>3, <2>3
    <3> QED BY <2>1, <2>3, <3>1, FailedMessage
  <2> QED BY <2>2, <2>3
<1>5. s \in [1 .. 2 * n -> CallMessage]
  BY <1>4 DEF s, BatchSends
<1>6. 2 * n \in Nat
  OBVIOUS
<1>7. s \in Seq(CallMessage)
  BY <1>5, <1>6, SeqDef
<1>8. Len(s) = 2 * n
  BY <1>5, <1>6, <1>7, LenProperties
<1> QED BY <1>3, <1>4, <1>7, <1>8 DEF s

LEMMA ExpiredKeeps ==
    ASSUME SigInv, checkExpired
    PROVE  SigInv'
<1> DEFINE n == Cardinality(Overdue)
<1>1. /\ sessions \in [Calls -> CallSession] /\ Calls \subseteq issued
      /\ DOMAIN over = issued \ Calls /\ IsFiniteSet(issued)
      /\ \A c \in DOMAIN over : over[c].callerId \in User /\ over[c].calleeId \in User
  BY DEF SigInv, CallInv, CallTypeOK, OverOK
<1>2. Overdue \subseteq Calls
  BY DEF Overdue
<1>3. n \in Nat
  <2>1. IsFiniteSet(Overdue)
    BY <1>1, <1>2, FS_Subset
  <2> QED BY <2>1, FS_CardinalityType
<1> HIDE DEF n
<1>4. PICK order \in Bijection(1 .. n, Overdue) : Queue(Timer, BatchSends(order, n))
  BY DEF checkExpired, n
<1> DEFINE s == BatchSends(order, n)
<1>5. /\ s \in Seq(CallMessage) /\ Len(s) = 2 * n
      /\ \A i \in 1 .. 2 * n :
            /\ order[(i + 1) \div 2] \in Overdue /\ s[i].type = "call.failed"
            /\ s[i].call = order[(i + 1) \div 2]
            /\ s[i].to = IF i % 2 = 1 THEN sessions[order[(i + 1) \div 2]].callerId
                         ELSE sessions[order[(i + 1) \div 2]].calleeId
  BY <1>3, BatchTells
<1> HIDE DEF s
<1>6. /\ pending[Timer] = <<>> /\ Timer \in Thread /\ issued' = issued
      /\ sessions' = Erase(sessions, Overdue)
  BY DEF checkExpired, expireRinging, Thread
<1>7. /\ DOMAIN sessions' = DOMAIN sessions \ Overdue
      /\ \A c \in DOMAIN sessions' : sessions'[c] = sessions[c]
  BY <1>6 DEF Erase, Restrict
<1>8. /\ DOMAIN over' = DOMAIN over \cup Overdue
      /\ \A c \in Overdue : /\ over'[c].callerId = sessions[c].callerId
                            /\ over'[c].calleeId = sessions[c].calleeId
      /\ \A c \in DOMAIN over \ Overdue : over'[c] = over[c]
  BY DEF checkExpired, Ended
<1>9. DOMAIN over' \ DOMAIN over = Overdue
  BY <1>1, <1>2, <1>8
<1>10. CallInv'
  BY <1>6, EraseKeeps DEF SigInv
<1>11. OverOK'
  <2>1. \A c \in Overdue : sessions[c].callerId \in User /\ sessions[c].calleeId \in User
    BY <1>1, <1>2 DEF CallSession
  <2>2. DOMAIN over' = issued' \ Calls'
    BY <1>1, <1>2, <1>6, <1>7, <1>8 DEF Calls
  <2> QED BY <1>1, <1>6, <1>8, <2>1, <2>2 DEF OverOK
<1>12. Progress(sessions, issued, sessions', issued')
  BY <1>6, <1>7 DEF Progress
<1>13. Batch(s, sessions', issued', sent, over, over')
  <2>1. \A i \in 1 .. Len(s) : /\ s[i].type \in Terminal /\ s[i].type # "call.incoming"
                               /\ s[i].call \in Overdue
    BY <1>5 DEF Terminal
  <2>2. ASSUME NEW i \in 1 .. Len(s) PROVE MsgOK(s[i], sessions', issued', sent)
    <3>1. s[i].type = "call.failed" /\ s[i].call \in Overdue
      BY <1>5
    <3>2. s[i].call \in issued' /\ s[i].call \notin DOMAIN sessions'
      BY <1>1, <1>2, <1>6, <1>7, <3>1
    <3> QED BY <3>1, <3>2 DEF MsgOK
  <2>3. ASSUME NEW i \in 1 .. Len(s), NEW j \in 1 .. Len(s),
               s[i].to = s[j].to, s[i].call = s[j].call,
               over'[s[i].call].callerId # over'[s[i].call].calleeId
        PROVE  i = j
    <3> DEFINE h == (i + 1) \div 2
               g == (j + 1) \div 2
    <3>0. i \in 1 .. 2 * n /\ j \in 1 .. 2 * n
      BY <1>5
    <3>1. /\ h \in 1 .. n /\ i % 2 \in {0, 1} /\ i = 2 * h - (i % 2)
          /\ g \in 1 .. n /\ j % 2 \in {0, 1} /\ j = 2 * g - (j % 2)
      <4>1. h \in 1 .. n /\ i % 2 \in {0, 1} /\ i = 2 * h - (i % 2)
        BY <1>3, <3>0, Halves
      <4>2. g \in 1 .. n /\ j % 2 \in {0, 1} /\ j = 2 * g - (j % 2)
        BY <1>3, <3>0, Halves
      <4> QED BY <4>1, <4>2
    <3>2. /\ s[i].call = order[h] /\ s[j].call = order[g] /\ order[h] \in Overdue
          /\ s[i].to = IF i % 2 = 1 THEN sessions[order[h]].callerId ELSE sessions[order[h]].calleeId
          /\ s[j].to = IF j % 2 = 1 THEN sessions[order[g]].callerId ELSE sessions[order[g]].calleeId
      <4>1. /\ s[i].call = order[h] /\ order[h] \in Overdue
            /\ s[i].to = IF i % 2 = 1 THEN sessions[order[h]].callerId ELSE sessions[order[h]].calleeId
        BY <1>5, <3>0
      <4>2. /\ s[j].call = order[g]
            /\ s[j].to = IF j % 2 = 1 THEN sessions[order[g]].callerId ELSE sessions[order[g]].calleeId
        BY <1>5, <3>0
      <4> QED BY <4>1, <4>2
    <3> HIDE DEF h, g
    <3>3. h = g
      <4>1. /\ order \in [1 .. n -> Overdue]
            /\ \A a, b \in 1 .. n : order[a] = order[b] => a = b
        BY DEF Bijection, Injection, IsInjective
      <4>2. order[h] = order[g]
        BY <2>3, <3>2
      <4> QED BY <3>1, <4>1, <4>2
    <3>4. sessions[order[h]].callerId # sessions[order[h]].calleeId
      BY <1>8, <2>3, <3>2
    <3>5. i % 2 = j % 2
      <4>1. CASE i % 2 = 1 /\ j % 2 = 0
        BY <2>3, <3>2, <3>3, <3>4, <4>1
      <4>2. CASE i % 2 = 0 /\ j % 2 = 1
        BY <2>3, <3>2, <3>3, <3>4, <4>2
      <4> QED BY <3>1, <4>1, <4>2
    <3> QED BY <3>1, <3>3, <3>5
  <2>4. ASSUME NEW c \in Overdue,
               NEW x \in {over'[c].callerId, over'[c].calleeId} \ {over'[c].by}
        PROVE  \E i \in 1 .. Len(s) : s[i].type \in Terminal /\ s[i].to = x /\ s[i].call = c
    <3>1. PICK h \in 1 .. n : order[h] = c
      BY DEF Bijection, Surjection
    <3>2. /\ 2 * h - 1 \in 1 .. 2 * n /\ 2 * h \in 1 .. 2 * n
          /\ ((2 * h - 1) + 1) \div 2 = h /\ (2 * h - 1) % 2 = 1
          /\ (2 * h + 1) \div 2 = h /\ (2 * h) % 2 = 0
      BY <1>3, Doubles
    <3>3. /\ s[2 * h - 1].type = "call.failed" /\ s[2 * h - 1].call = c
          /\ s[2 * h - 1].to = sessions[c].callerId
      BY <1>5, <3>1, <3>2
    <3>4. /\ s[2 * h].type = "call.failed" /\ s[2 * h].call = c
          /\ s[2 * h].to = sessions[c].calleeId
      <4> DEFINE k == 2 * h
                 a == (k + 1) \div 2
                 b == k % 2
      <4>1. k \in 1 .. 2 * n /\ a = h /\ b = 0
        BY <3>2
      <4>2. /\ s[k].type = "call.failed" /\ s[k].call = order[a]
            /\ s[k].to = IF b = 1 THEN sessions[order[a]].callerId ELSE sessions[order[a]].calleeId
        BY <1>5, <4>1
      <4> HIDE DEF a, b
      <4>3. b # 1 /\ order[a] = c
        BY <3>1, <4>1
      <4> HIDE DEF k
      <4>4. /\ s[k].type = "call.failed" /\ s[k].call = c
            /\ s[k].to = sessions[c].calleeId
        BY <4>2, <4>3
      <4> QED BY <4>4 DEF k
    <3>5. x = sessions[c].callerId \/ x = sessions[c].calleeId
      BY <1>8
    <3>6. 2 * h - 1 \in 1 .. Len(s) /\ 2 * h \in 1 .. Len(s) /\ "call.failed" \in Terminal
      BY <1>5, <3>2 DEF Terminal
    <3> QED BY <3>3, <3>4, <3>5, <3>6
  <2> QED BY <1>5, <1>9, <2>1, <2>2, <2>3, <2>4 DEF Batch
<1>14. /\ \A c \in DOMAIN over : c \in DOMAIN over' /\ over'[c] = over[c]
       /\ DOMAIN over' \ DOMAIN over \subseteq Calls
  BY <1>1, <1>2, <1>8, <1>9
<1>15. Queue(Timer, s)
  BY <1>4 DEF s
<1> QED BY <1>6, <1>10, <1>11, <1>12, <1>13, <1>14, <1>15, QueueKeeps

LEMMA ClockKeeps ==
    ASSUME SigInv, Clock
    PROVE  SigInv'
<1>1. Tick /\ UNCHANGED <<conn, reg, pending, werr, knows, sent, over>>
  BY DEF Clock, sigVars
<1>2. CallInv' /\ issued' = issued /\ DOMAIN sessions' = DOMAIN sessions
  BY <1>1, TickKeeps DEF SigInv, Tick, Calls
<1>3. \A c \in DOMAIN sessions : /\ sessions'[c].callerId = sessions[c].callerId
                                 /\ sessions'[c].calleeId = sessions[c].calleeId
  <2>1. sessions \in [Calls -> CallSession]
    BY DEF SigInv, CallInv, CallTypeOK
  <2> SUFFICES ASSUME NEW c \in Calls
               PROVE  /\ sessions'[c].callerId = sessions[c].callerId
                      /\ sessions'[c].calleeId = sessions[c].calleeId
    BY DEF Calls
  <2>2. sessions'[c] = sessions[c] \/ sessions'[c] = [sessions[c] EXCEPT !.age = @ + 1]
    BY <1>1 DEF Tick
  <2>3. sessions[c] \in CallSession
    BY <2>1
  <2> QED BY <2>2, <2>3 DEF CallSession
<1>4. Progress(sessions, issued, sessions', issued')
  BY <1>2, <1>3 DEF Progress
<1>5. AllOK(pending, sessions', issued', sent)
  <2>1. \A m : MsgOK(m, sessions, issued, sent) => MsgOK(m, sessions', issued', sent)
    BY <1>4, MsgOKKeeps
  <2> QED BY <2>1 DEF SigInv, AllOK
<1>6. StateOK' /\ OverOK'
  BY <1>1, <1>2 DEF SigInv, StateOK, OverOK, Calls
<1> QED BY <1>1, <1>2, <1>5, <1>6 DEF SigInv

LEMMA SigInvInductive == SigInv /\ [SigNext]_vars => SigInv'
<1> SUFFICES ASSUME SigInv, [SigNext]_vars PROVE SigInv'
  OBVIOUS
<1>1. ASSUME NEW k \in Conn, Network(k) PROVE SigInv'
  <2>1. CASE \E u \in User : Connect(k, u)
    BY <2>1, ConnectKeeps
  <2>2. CASE HandshakeDone(k) \/ Break(k)
    BY <2>2, MoveKeeps DEF HandshakeDone, Break, ConnState
  <2>3. CASE OnClose(k)
    BY <2>3, MoveKeeps DEF OnClose, removeSession, ConnState
  <2>4. CASE WriteFailed(k)
    BY <2>4, WriteFailedKeeps
  <2> QED BY <1>1, <2>1, <2>2, <2>3, <2>4 DEF Network
<1>2. CASE UNCHANGED vars
  <2>1. UNCHANGED <<sessions, issued, conn, reg, pending, werr, knows, sent, over>>
    BY <1>2 DEF vars
  <2>2. /\ conn' \in [Conn -> [user : User \cup {NoCall}, st : ConnState]]
        /\ reg' \in [User -> Conn \cup {NoConn}] /\ werr' \in [Conn -> 0 .. MaxWriteErr]
        /\ ConnOK(conn', reg') /\ KnowsOK(conn', knows, sent)
    BY <2>1 DEF SigInv, StateOK
  <2> QED BY <2>1, <2>2, NetworkKeeps
<1> QED BY <1>1, <1>2, HandlerKeeps, SendKeeps, ExpiredKeeps, ClockKeeps DEF SigNext

LEMMA SigInvInitially == SigInit => SigInv
<1> SUFFICES ASSUME SigInit PROVE SigInv
  OBVIOUS
<1>1. /\ sessions = [c \in {} |-> {}] /\ issued = {} /\ reg = [u \in User |-> NoConn]
      /\ conn = [k \in Conn |-> [user |-> NoCall, st |-> "unused"]]
      /\ pending = [t \in Thread |-> <<>>] /\ werr = [k \in Conn |-> 0]
      /\ knows = {} /\ sent = {} /\ over = [c \in {} |-> {}]
  BY DEF SigInit, CallInit
<1>2. CallInv
  BY CallInvInitially DEF SigInit
<1>3. StateOK
  BY <1>1, SignalingAssumption, EmptySeq DEF StateOK, ConnState
<1>4. OverOK
  BY <1>1, FS_EmptySet DEF OverOK, Calls
<1>5. ConnOK(conn, reg) /\ KnowsOK(conn, knows, sent)
  BY <1>1 DEF ConnOK, KnowsOK
<1>6. \A t \in Thread : 1 .. Len(pending[t]) = {}
  BY <1>1, EmptySeq
<1>7. /\ AllOK(pending, sessions, issued, sent) /\ OrderOK(pending, sent)
      /\ OwedOK(pending, sent, over) /\ OnceOK(pending, sent, over)
  BY <1>1, <1>6 DEF AllOK, OrderOK, OwedOK, OnceOK
<1> QED BY <1>2, <1>3, <1>4, <1>5, <1>7 DEF SigInv

LEMMA SigInvAlways == SigSpec => []SigInv
BY SigInvInitially, SigInvInductive, PTL DEF SigSpec

----------------------------------------------------------------------------
(* What the invariant says.                                                 *)

(* Connections, registrations and what threads have to send are well formed
   in every reachable state; an issued call is live or over, never both. *)
THEOREM SigTypeCorrect == SigSpec => []SigTypeOK
<1>1. SigInv => SigTypeOK
  <2> SUFFICES ASSUME SigInv PROVE SigTypeOK
    OBVIOUS
  <2>1. \A t \in Thread : \A i \in DOMAIN pending[t] : pending[t][i] \in CallMessage
    <3>1. \A t \in Thread : pending[t] \in Seq(CallMessage)
      BY DEF SigInv, StateOK
    <3> QED BY <3>1, LenProperties, ElementOfSeq
  <2>2. \A k \in Conn : werr[k] \in 0 .. MaxWriteErr
    BY DEF SigInv, StateOK
  <2> QED BY <2>1, <2>2 DEF SigInv, CallInv, StateOK, OverOK, SigTypeOK, CallMessage
<1> QED BY <1>1, SigInvAlways, PTL

(* Holds says of places what Outstanding collects. *)
LEMMA OutstandingMeans ==
    ASSUME SigInv, NEW types, NEW u, NEW c
    PROVE  \A x : x \in Outstanding(types, u, c) <=>
              \E t \in Thread, i \in Nat : x = <<t, i>> /\ Holds(pending, t, i, types, u, c)
<1>1. \A t \in Thread : DOMAIN pending[t] = 1 .. Len(pending[t]) /\ Len(pending[t]) \in Nat
  BY LenProperties DEF SigInv, StateOK
<1>2. ASSUME NEW t \in Thread, NEW i \in Nat, Holds(pending, t, i, types, u, c)
      PROVE  <<t, i>> \in Outstanding(types, u, c)
  BY <1>1, <1>2 DEF Outstanding, Holds
<1>3. ASSUME NEW x \in Outstanding(types, u, c)
      PROVE  \E t \in Thread, i \in Nat : x = <<t, i>> /\ Holds(pending, t, i, types, u, c)
  <2>1. PICK t \in Thread : x \in {t} \X DOMAIN pending[t]
    BY DEF Outstanding
  <2>2. PICK i \in DOMAIN pending[t] : x = <<t, i>>
    BY <2>1
  <2>3. /\ pending[t][i].type \in types /\ pending[t][i].to = u /\ pending[t][i].call = c
    BY <2>2 DEF Outstanding
  <2> QED BY <1>1, <2>2, <2>3 DEF Holds
<1> QED BY <1>2, <1>3

(* Every party who did not end a call himself has been sent its end, or a
   thread is about to, whoever raced for the call. *)
THEOREM EndNoticesOwed == SigSpec => []EndNoticeOwed
<1>1. SigInv => EndNoticeOwed
  <2> SUFFICES ASSUME SigInv, NEW c \in DOMAIN over,
                      NEW u \in {over[c].callerId, over[c].calleeId} \ {over[c].by}
               PROVE  WasSent(Terminal, u, c) \/ Outstanding(Terminal, u, c) # {}
    BY DEF EndNoticeOwed
  <2>1. \/ InSent(sent, Terminal, u, c)
        \/ \E t \in Thread, i \in Nat : Holds(pending, t, i, Terminal, u, c)
    BY DEF SigInv, OwedOK
  <2>2. (\E t \in Thread, i \in Nat : Holds(pending, t, i, Terminal, u, c))
            => Outstanding(Terminal, u, c) # {}
    BY OutstandingMeans
  <2> QED BY <2>1, <2>2 DEF InSent, WasSent
<1> QED BY <1>1, SigInvAlways, PTL

(* A party is told once that a call is over, and not at all while it lives,
   although hangup, reject and the timer race for it. *)
THEOREM TerminalNoticesOnce == SigSpec => []TerminalNoticeOnce
<1>1. SigInv => TerminalNoticeOnce
  <2> SUFFICES ASSUME SigInv, NEW c \in issued, NEW u \in User
               PROVE  LET n == Cardinality(Outstanding(Terminal, u, c))
                               + (IF WasSent(Terminal, u, c) THEN 1 ELSE 0)
                      IN  /\ c \in Calls => n = 0
                          /\ c \in DOMAIN over /\ over[c].callerId # over[c].calleeId => n <= 1
    BY DEF TerminalNoticeOnce
  <2> DEFINE S == Outstanding(Terminal, u, c)
  <2>0. WasSent(Terminal, u, c) <=> InSent(sent, Terminal, u, c)
    BY DEF WasSent, InSent
  <2>1. ASSUME c \in Calls PROVE S = {} /\ ~WasSent(Terminal, u, c)
    <3>1. ~InSent(sent, Terminal, u, c)
      BY <2>1 DEF SigInv, AllOK, MsgOK, InSent, Calls
    <3>2. \A t \in Thread, i \in Nat : ~Holds(pending, t, i, Terminal, u, c)
      BY <2>1 DEF SigInv, AllOK, MsgOK, Holds, Calls
    <3> QED BY <2>0, <3>1, <3>2, OutstandingMeans
  <2>2. ASSUME c \in DOMAIN over, over[c].callerId # over[c].calleeId
        PROVE  /\ S = {} \/ \E x : S = {x}
               /\ WasSent(Terminal, u, c) => S = {}
    <3>1. /\ \A t1, t2 \in Thread, i1, i2 \in Nat :
                Holds(pending, t1, i1, Terminal, u, c) /\ Holds(pending, t2, i2, Terminal, u, c)
                => t1 = t2 /\ i1 = i2
          /\ InSent(sent, Terminal, u, c) =>
                \A t \in Thread, i \in Nat : ~Holds(pending, t, i, Terminal, u, c)
      BY <2>2 DEF SigInv, OnceOK
    <3>2. \A x, y \in S : x = y
      BY <3>1, OutstandingMeans
    <3>3. InSent(sent, Terminal, u, c) => S = {}
      BY <3>1, OutstandingMeans
    <3> HIDE DEF S
    <3> QED BY <2>0, <3>2, <3>3
  <2>3. Cardinality({}) = 0 /\ \A x : Cardinality({x}) = 1
    BY FS_EmptySet, FS_Singleton
  <2> HIDE DEF S
  <2>4. c \in Calls => Cardinality(S) = 0 /\ ~WasSent(Terminal, u, c)
    BY <2>1, <2>3
  <2>5. c \in DOMAIN over /\ over[c].callerId # over[c].calleeId =>
            Cardinality(S) + (IF WasSent(Terminal, u, c) THEN 1 ELSE 0) <= 1
    <3> SUFFICES ASSUME c \in DOMAIN over, over[c].callerId # over[c].calleeId
                 PROVE  Cardinality(S) + (IF WasSent(Terminal, u, c) THEN 1 ELSE 0) <= 1
      OBVIOUS
    <3>1. CASE S = {}
      BY <2>3, <3>1
    <3>2. CASE S # {}
      <4>1. Cardinality(S) = 1 /\ ~WasSent(Terminal, u, c)
        BY <2>2, <2>3, <3>2
      <4> QED BY <4>1
    <3> QED BY <3>1, <3>2
  <2> QED BY <2>4, <2>5 DEF S
<1> QED BY <1>1, SigInvAlways, PTL

(* rtc.config is never sent to a user before the message that announces the
   call to him. *)
THEOREM ConfigsAfterAnnouncement == SigSpec => []ConfigAfterAnnouncement
<1>1. SigInv => ConfigAfterAnnouncement
  BY DEF SigInv, AllOK, MsgOK, InSent, Announcement, ConfigAfterAnnouncement, WasSent
<1> QED BY <1>1, SigInvAlways, PTL

(* To the call table the interleaved handlers are its own operations, one
   after the other: what is proved of CallManager holds in the server. *)
THEOREM ServerDrivesTable == SigSpec => CallSpec
<1>1. SigInit => CallInit
  BY DEF SigInit
<1>2. SigInv /\ [SigNext]_vars => [CallNext]_callVars
  <2> SUFFICES ASSUME SigInv, [SigNext]_vars PROVE [CallNext]_callVars
    OBVIOUS
  <2>1. CASE UNCHANGED callVars
    BY <2>1
  <2>2. ASSUME NEW k \in Conn, Network(k) PROVE UNCHANGED callVars
    BY <2>2 DEF Network, Connect, HandshakeDone, Break, OnClose, WriteFailed, callVars
  <2>3. ASSUME NEW k \in Conn, Handler(k) PROVE CallNext \/ UNCHANGED callVars
    <3>1. CASE \E v \in User : onCallCreate(k, v)
      <4>1. Reads(k)
        BY <3>1 DEF onCallCreate
      <4>2. conn[k].user \in User
        BY <4>1, ReaderHasUser
      <4> QED BY <3>1, <4>2 DEF onCallCreate, Refuse, CallNext
    <3>2. ASSUME NEW c \in CallId, onCallAccept(k, c) \/ onCallReject(k, c) \/ onCallHangup(k, c)
          PROVE  CallNext \/ UNCHANGED callVars
      <4>1. Reads(k)
        BY <3>2 DEF onCallAccept, onCallReject, onCallHangup
      <4>2. conn[k].user \in User
        BY <4>1, ReaderHasUser
      <4>3. CASE UNCHANGED callVars
        BY <4>3
      <4>4. CASE accept(c, conn[k].user) \/ reject(c, conn[k].user)
        <5>1. c \in Calls
          BY <4>4, NoneMeansRinging DEF accept, reject
        <5> QED BY <4>2, <4>4, <5>1 DEF CallNext
      <4>5. CASE hangup(c, conn[k].user)
        <5>1. c \in Calls
          BY <4>5, NoneMeansParty DEF hangup
        <5> QED BY <4>2, <4>5, <5>1 DEF CallNext
      <4> QED BY <3>2, <4>3, <4>4, <4>5 DEF onCallAccept, onCallReject, onCallHangup, Refuse
    <3>3. CASE BadMessage(k) \/ \E c \in CallId : onWebrtcRelay(k, c)
      BY <3>3 DEF BadMessage, onWebrtcRelay, Refuse
    <3> QED BY <2>3, <3>1, <3>2, <3>3 DEF Handler
  <2>4. ASSUME NEW t \in Thread, Send(t) PROVE UNCHANGED callVars
    BY <2>4 DEF Send, callVars
  <2>5. CASE checkExpired
    BY <2>5 DEF checkExpired, CallNext
  <2>6. CASE Clock
    BY <2>6 DEF Clock, CallNext
  <2>7. CASE UNCHANGED vars
    BY <2>7 DEF vars, callVars
  <2> QED BY <2>1, <2>2, <2>3, <2>4, <2>5, <2>6, <2>7 DEF SigNext
<1> QED BY <1>1, <1>2, SigInvAlways, PTL DEF SigSpec, CallSpec
=============================================================================
