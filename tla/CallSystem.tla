----------------------------- MODULE CallSystem -----------------------------
(***************************************************************************)
(* Clients and the backend together.  The backend is CallManager with the  *)
(* handlers of Router: one logical thread per user's connection and one    *)
(* for the expire timer.  A user has one connection, which keeps the order *)
(* of messages; Signaling looks at the same code with the connections in   *)
(* detail.  Other threads run between a handler's table operation and each *)
(* of its sends.                                                           *)
(***************************************************************************)
EXTENDS Client

CONSTANT Timer      \* the logical thread of the expire timer

VARIABLE pending    \* pending[t]: messages thread t has yet to send

vars == <<sessions, issued, pending, call, pc, gen, done, cmd, at, up, down,
          run, term, inputs>>

Thread == User \cup {Timer}

To(u, m) == [to |-> u, msg |-> m]

SystemInit ==
    /\ CallInit
    /\ ClientInit
    /\ pending = [t \in Thread |-> <<>>]

Client_(u) == ClientNext(u) /\ UNCHANGED <<callVars, pending>>

----------------------------------------------------------------------------

\* WsServer::send; a user without a session does not get the message.
Deliver(dn, m) == IF run[m.to] = "running" THEN [dn EXCEPT ![m.to] = Append(@, m.msg)]
                                           ELSE dn

\* The handler of thread t is to send msgs, in order.
Queue(t, msgs) == pending' = [pending EXCEPT ![t] = msgs] /\ UNCHANGED down

Tell(u, type, c) == To(u, Message(type, c, NoCall))

Refuse(u) == Queue(u, <<Tell(u, "error", NoCall)>>) /\ UNCHANGED callVars

onCallCreate(u, v) ==
    \/ createError(u, v) # "none" /\ Refuse(u)
    \/ \E c \in CallId :
          /\ create(u, v, c)
          /\ Queue(u, <<Tell(u, "call.created", c), Tell(v, "call.incoming", c)>>)

onCallAccept(u, c) ==
    \/ ringingError(c, u) # "none" /\ Refuse(u)
    \/ /\ accept(c, u)
       /\ Queue(u, <<Tell(sessions[c].callerId, "rtc.config", c),
                     Tell(sessions[c].calleeId, "rtc.config", c)>>)

\* Mutant of onCallReject: answers the callee, who has ended the call himself.
onCallRejectTellsCallee(u, c) ==
    \/ ringingError(c, u) # "none" /\ Refuse(u)
    \/ reject(c, u) /\ Queue(u, <<Tell(sessions[c].calleeId, "call.ended", c)>>)

onCallReject(u, c) ==
    \/ ringingError(c, u) # "none" /\ Refuse(u)
    \/ reject(c, u) /\ Queue(u, <<Tell(sessions[c].callerId, "call.ended", c)>>)

\* Mutant of onCallHangup: always tells the caller.
onCallHangupTellsCaller(u, c) ==
    \/ hangupError(c, u) # "none" /\ Refuse(u)
    \/ hangup(c, u) /\ Queue(u, <<Tell(sessions[c].callerId, "call.ended", c)>>)

onCallHangup(u, c) ==
    \/ hangupError(c, u) # "none" /\ Refuse(u)
    \/ hangup(c, u) /\ Queue(u, <<Tell(Other(sessions[c], u), "call.ended", c)>>)

onWebrtcRelay(u, m) ==
    \/ m.call \notin Calls /\ Refuse(u)
    \/ /\ m.call \in Calls
       /\ Queue(u, <<To(Other(sessions[m.call], u), m)>>)
       /\ UNCHANGED callVars

\* Router::handle on the next message of user u's connection.
Route(u) ==
    /\ pending[u] = <<>>
    /\ up[u] # <<>>
    /\ up' = [up EXCEPT ![u] = Tail(@)]
    /\ LET m == Head(up[u])
       IN  \/ m.type = "call.create" /\ onCallCreate(u, m.arg)
           \/ m.type = "call.accept" /\ onCallAccept(u, m.call)
           \/ m.type = "call.reject" /\ onCallReject(u, m.call)
           \/ m.type = "call.hangup" /\ onCallHangup(u, m.call)
           \/ m.type \in {"webrtc.offer", "webrtc.answer", "webrtc.ice"}
                 /\ onWebrtcRelay(u, m)
    /\ UNCHANGED <<call, pc, gen, done, cmd, at, run, term, inputs>>

Send(t) ==
    /\ pending[t] # <<>>
    /\ down' = Deliver(down, Head(pending[t]))
    /\ pending' = [pending EXCEPT ![t] = Tail(@)]
    /\ UNCHANGED <<callVars, call, pc, gen, done, cmd, at, up, run, term, inputs>>

\* checkExpired tells the two parties of each call in order.
BatchSends(order, n) ==
    [i \in 1 .. 2 * n |->
        LET c == order[(i + 1) \div 2]
        IN  Tell(IF i % 2 = 1 THEN sessions[c].callerId ELSE sessions[c].calleeId,
                 "call.failed", c)]

checkExpired ==
    /\ pending[Timer] = <<>>
    /\ Overdue # {}
    /\ expireRinging
    /\ LET n == Cardinality(Overdue)
       IN  \E order \in Bijection(1 .. n, Overdue) : Queue(Timer, BatchSends(order, n))
    /\ UNCHANGED <<call, pc, gen, done, cmd, at, up, run, term, inputs>>

\* No handler is halfway through its sends.
NoneSending == \A t \in Thread : pending[t] = <<>>

\* A tick is much longer than the sends of a handler take.
Clock ==
    /\ NoneSending
    /\ Tick
    /\ UNCHANGED <<pending, clientVars>>

SystemNext ==
    \/ \E u \in User : Client_(u) \/ Route(u)
    \/ checkExpired
    \/ \E t \in Thread : Send(t)
    \/ Clock

SystemSpec == SystemInit /\ [][SystemNext]_vars

----------------------------------------------------------------------------

(* Type invariant of the composition; a client has no peer connection but
   the last it made, and none while initRtc is about to make the next
   (main.cpp:83-93). *)
SystemTypeOK == CallTypeOK /\ ClientTypeOK

\* Nothing is on its way from or to u, and none of his threads is halfway.
Quiet(u) ==
    /\ run[u] = "running" /\ cmd[u] = "prompt" /\ at[u] = Out
    /\ up[u] = <<>> /\ down[u] = <<>>
    /\ \A t \in Thread : \A i \in DOMAIN pending[t] : pending[t][i].to # u

\* What the notice of an end may miss: it went to a lost connection, or the
\* connection of an earlier call failed into this one, so that onFailed hangs
\* this one up while its cleanupCall finds call_cleanup_done set, or sets it
\* between initRtc's store(false) and the new connection (main.cpp:72, 84).
Misled(u) == <<"close", u>> \in term \/ (<<"Failed", u>> \in term /\ gen[u] > 1)

(* A client that rings shows a call that exists: whoever ended it, and
   however the notices crossed, the client that is left ringing hears of it
   (message_handler.cpp:45-75 with router.cpp:142-178, 204-221). *)
RingingIsReal ==
    \A u \in User : Quiet(u) /\ call[u].state = "Ringing" /\ ~Misled(u) =>
        /\ call[u].callId \in Calls
        /\ sessions[call[u].callId].calleeId = u

(* No client is stuck with a call that is over: whatever it still names when
   all is still, as caller or callee, calling, ringing or talking, is a call
   of the backend that it is a party of, although call.created arrives after
   the call began, notices of one call arrive during the next, commands send
   before they assign and clean-ups of two threads and two connections
   overlap (commands.cpp:53-107, message_handler.cpp:45-75, main.cpp:71-106). *)
NamedCallsExist ==
    \A u \in User : Quiet(u) /\ call[u].callId # NoCall /\ ~Misled(u) =>
        /\ call[u].callId \in Calls
        /\ u \in Parties(sessions[call[u].callId])

----------------------------------------------------------------------------

(* documentation.docx, 10.9: the backend answers a call that it refuses with
   an error and the client resets its state to Idle.  So a client that is
   calling when all is still has a call.  cleanupCall, which the error leads
   to, does nothing once call_cleanup_done is set, and only initRtc resets it
   (main.cpp:72, 84, 184-188): the first call after one that rang out, or the
   second that is refused, leaves the client Calling. *)
RefusedCallersIdle ==
    \A u \in User : Quiet(u) /\ call[u].state = "Calling" =>
        \E c \in Calls : sessions[c].callerId = u

(* documentation.docx, 10.9: when the media fails the client sends
   call.hangup by itself and returns to Idle.  So two clients that are Idle
   again are not held in an active call. *)
IdleClientsAreFree ==
    \A c \in Calls : sessions[c].state = "Active" =>
        \E u \in Parties(sessions[c]) : ~Quiet(u) \/ call[u] # CallContext
=============================================================================
