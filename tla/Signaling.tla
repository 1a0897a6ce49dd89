----------------------------- MODULE Signaling -----------------------------
(***************************************************************************)
(* The signalling half of the backend: Router (backend/signaling/          *)
(* router.cpp), WsServer and WsSession (ws_server.cpp) and the expire      *)
(* timer (backend/main.cpp), around the call table of CallManager.         *)
(*                                                                         *)
(* Any thread of the pool may run any handler, but a connection reads its  *)
(* next message only when the handler of the last one has returned, and    *)
(* the timer is re-armed only when checkExpired has returned.  So there is *)
(* one logical thread per connection and one for the timer.  A handler is  *)
(* its table operation (atomic, under CallManager::mutex_) followed by its *)
(* sends, each of which takes WsServer::sessions_mutex_ by itself:         *)
(* pending[t] holds the sends that thread t still has to make, and other   *)
(* threads run between them.                                               *)
(***************************************************************************)
EXTENDS CallManager, Sequences

CONSTANTS
    Conn,       \* WebSocket connections, each used once
    Timer,      \* the logical thread of the expire timer
    NoConn,     \* no session registered
    NoCall,     \* the callId of a message that has none
    MaxWriteErr \* bound: failed writes of one connection that can be
                \* outstanding at a time; further ones coincide with the last

ASSUME SignalingAssumption == NoConn \notin Conn /\ MaxWriteErr \in Nat

VARIABLES
    conn,       \* conn[k]: whose connection, and how far it is
    reg,        \* WsServer::sessions_: user -> connection or NoConn
    pending,    \* pending[t]: messages thread t has yet to send
    werr,       \* werr[k]: failed writes whose completion has not run yet
    knows,      \* <<k, c>>: the id of call c has arrived on connection k
    sent,       \* history: call messages handed to WsServer::send
    over        \* history: how each finished call ended

sigVars == <<conn, reg, pending, werr, knows, sent, over>>
vars == <<sessions, issued, conn, reg, pending, werr, knows, sent, over>>

Thread == Conn \cup {Timer}

ConnState == {"unused", "handshake", "open", "broken", "closed"}

MsgType == {"call.created", "call.incoming", "rtc.config", "call.ended",
            "call.failed", "webrtc", "error"}

Msg(type, to, call) == [type |-> type, to |-> to, call |-> call]

Terminal == {"call.ended", "call.failed"}

SigInit ==
    /\ CallInit
    /\ conn = [k \in Conn |-> [user |-> NoCall, st |-> "unused"]]
    /\ reg = [u \in User |-> NoConn]
    /\ pending = [t \in Thread |-> <<>>]
    /\ werr = [k \in Conn |-> 0]
    /\ knows = {}
    /\ sent = {}
    /\ over = [c \in {} |-> {}]

----------------------------------------------------------------------------
(* Connections: WsServer::accept, WsSession::run, read, and on_close.       *)

\* WsServer::accept with a valid token: the session is registered, and
\* replaces any other of the user, before the handshake is answered.
\* Without a valid token it returns and nothing changes.
Connect(k, u) ==
    /\ conn[k].st = "unused"
    /\ conn' = [conn EXCEPT ![k] = [user |-> u, st |-> "handshake"]]
    /\ reg' = [reg EXCEPT ![u] = k]
    /\ UNCHANGED <<sessions, issued, pending, werr, knows, sent, over>>

\* async_accept completes without error and the first read is armed.
HandshakeDone(k) ==
    /\ conn[k].st = "handshake"
    /\ conn' = [conn EXCEPT ![k].st = "open"]
    /\ UNCHANGED <<sessions, issued, reg, pending, werr, knows, sent, over>>

\* The peer or the network goes away; the server has not noticed yet.
Break(k) ==
    /\ conn[k].st \in {"handshake", "open"}
    /\ conn' = [conn EXCEPT ![k].st = "broken"]
    /\ UNCHANGED <<sessions, issued, reg, pending, werr, knows, sent, over>>

\* removeSession erases whatever session the user has by now.
removeSession(u) == reg' = [reg EXCEPT ![u] = NoConn]

\* The outstanding read (or accept) fails: on_close_(userId_), no new read.
OnClose(k) ==
    /\ conn[k].st = "broken"
    /\ pending[k] = <<>>
    /\ conn' = [conn EXCEPT ![k].st = "closed"]
    /\ removeSession(conn[k].user)
    /\ UNCHANGED <<sessions, issued, pending, werr, knows, sent, over>>

\* do_send's completion with an error: on_close_(userId_) once more.
WriteFailed(k) ==
    /\ werr[k] > 0
    /\ werr' = [werr EXCEPT ![k] = @ - 1]
    /\ removeSession(conn[k].user)
    /\ UNCHANGED <<sessions, issued, conn, pending, knows, sent, over>>

----------------------------------------------------------------------------
(* WsServer::send, one message of a handler at a time.                      *)

Remember(m) == sent' = sent \cup (IF m.type \in {"webrtc", "error"} THEN {} ELSE {m})

\* What becomes of a write to connection k.  A stream that is not open
\* reports an error; a broken one may also swallow the message.  There is
\* no write queue: on an open stream a write that starts while another is
\* in flight is undefined in Beast, so the message arrives or is lost.
WriteOutcome(k, m) ==
    LET st == IF k = NoConn THEN "absent" ELSE conn[k].st
    IN  \/ /\ st = "open"
           /\ knows' = IF m.type \in {"call.created", "call.incoming"}
                       THEN knows \cup {<<k, m.call>>} ELSE knows
           /\ UNCHANGED werr
        \/ /\ st \in {"absent", "open", "broken"}
           /\ UNCHANGED <<knows, werr>>
        \/ /\ st \in {"handshake", "broken"}
           /\ werr' = [werr EXCEPT ![k] = IF @ < MaxWriteErr THEN @ + 1 ELSE @]
           /\ UNCHANGED knows

Send(t) ==
    /\ pending[t] # <<>>
    /\ LET m == Head(pending[t])
       IN  Remember(m) /\ WriteOutcome(reg[m.to], m)
    /\ pending' = [pending EXCEPT ![t] = Tail(@)]
    /\ UNCHANGED <<sessions, issued, conn, reg, over>>

----------------------------------------------------------------------------
(* Router: one action per message type.                                     *)

\* Thread k can deliver a message of its user to Router::handle.
Reads(k) == conn[k].st \in {"open", "broken"} /\ pending[k] = <<>>

\* Call ids a client can name: those it was sent (a UUID is not guessed).
Known(u) == {c \in CallId : \E k \in Conn : conn[k].user = u /\ <<k, c>> \in knows}

Queue(t, msgs) ==
    /\ pending' = [pending EXCEPT ![t] = msgs]
    /\ UNCHANGED <<conn, reg, werr, knows, sent>>

\* sendError, the only effect of a refused message.
Refuse(k) ==
    /\ Queue(k, <<Msg("error", conn[k].user, NoCall)>>)
    /\ UNCHANGED <<callVars, over>>

\* Invalid JSON, no type, unknown type, a missing field, an unknown callId.
BadMessage(k) == Reads(k) /\ Refuse(k)

\* Mutant of CreateSends: the callee first.
CreateSendsSwapped(u, v, c) ==
    <<Msg("call.incoming", v, c), Msg("call.created", u, c)>>

\* onCallCreate tells the caller first and the callee second.
CreateSends(u, v, c) ==
    <<Msg("call.created", u, c), Msg("call.incoming", v, c)>>

onCallCreate(k, v) ==
    /\ Reads(k)
    /\ LET u == conn[k].user
       IN  \/ /\ createError(u, v) # "none"
              /\ Refuse(k)
           \/ \E c \in CallId :
                /\ create(u, v, c)
                /\ Queue(k, CreateSends(u, v, c))
                /\ UNCHANGED over

onCallAccept(k, c) ==
    /\ Reads(k)
    /\ c \in Known(conn[k].user)
    /\ LET u == conn[k].user
       IN  \/ /\ ringingError(c, u) # "none"
              /\ Refuse(k)
           \/ /\ accept(c, u)
              /\ Queue(k, <<Msg("rtc.config", sessions[c].callerId, c),
                            Msg("rtc.config", sessions[c].calleeId, c)>>)
              /\ UNCHANGED over

\* The history entry of a call that ended; by is a user or the timer.
Ended(s, by) == [callerId |-> s.callerId, calleeId |-> s.calleeId, by |-> by]

onCallReject(k, c) ==
    /\ Reads(k)
    /\ c \in Known(conn[k].user)
    /\ LET u == conn[k].user
       IN  \/ /\ ringingError(c, u) # "none"
              /\ Refuse(k)
           \/ /\ reject(c, u)
              /\ Queue(k, <<Msg("call.ended", sessions[c].callerId, c)>>)
              /\ over' = Put(over, c, Ended(sessions[c], u))

\* Mutant of onCallHangup: tells the other party and the caller, who may be
\* the same.
onCallHangupTwice(k, c) ==
    /\ Reads(k)
    /\ c \in Known(conn[k].user)
    /\ LET u == conn[k].user
       IN  \/ /\ hangupError(c, u) # "none"
              /\ Refuse(k)
           \/ /\ hangup(c, u)
              /\ Queue(k, <<Msg("call.ended", Other(sessions[c], u), c),
                            Msg("call.ended", sessions[c].callerId, c)>>)
              /\ over' = Put(over, c, Ended(sessions[c], u))

onCallHangup(k, c) ==
    /\ Reads(k)
    /\ c \in Known(conn[k].user)
    /\ LET u == conn[k].user
       IN  \/ /\ hangupError(c, u) # "none"
              /\ Refuse(k)
           \/ /\ hangup(c, u)
              /\ Queue(k, <<Msg("call.ended", Other(sessions[c], u), c)>>)
              /\ over' = Put(over, c, Ended(sessions[c], u))

\* find, then the message goes on to the other party; the table and the
\* sender's part in the call are not looked at again.
onWebrtcRelay(k, c) ==
    /\ Reads(k)
    /\ c \in Known(conn[k].user)
    /\ \/ /\ c \notin Calls
          /\ Refuse(k)
       \/ /\ c \in Calls
          /\ Queue(k, <<Msg("webrtc", Other(sessions[c], conn[k].user), c)>>)
          /\ UNCHANGED <<callVars, over>>

\* Mutants of ExpirySends: one of the parties is told twice.
ExpirySendsCaller(s, c) ==
    <<Msg("call.failed", s.callerId, c), Msg("call.failed", s.callerId, c)>>

ExpirySendsCallee(s, c) ==
    <<Msg("call.failed", s.calleeId, c), Msg("call.failed", s.calleeId, c)>>

\* checkExpired tells both parties of each expired call.
ExpirySends(s, c) ==
    <<Msg("call.failed", s.callerId, c), Msg("call.failed", s.calleeId, c)>>

\* The two sends of the first call in order, then those of the second, ...
BatchSends(order, n) ==
    [i \in 1 .. 2 * n |->
        LET c == order[(i + 1) \div 2] IN ExpirySends(sessions[c], c)[2 - (i % 2)]]

\* The timer's run: the batch is taken from the table in one step, in the
\* order of an unordered_map, and then told call by call.
checkExpired ==
    /\ pending[Timer] = <<>>
    /\ Overdue # {}
    /\ expireRinging
    /\ LET n == Cardinality(Overdue)
       IN  \E order \in Bijection(1 .. n, Overdue) : Queue(Timer, BatchSends(order, n))
    /\ over' = [c \in DOMAIN over \cup Overdue |->
                   IF c \in Overdue THEN Ended(sessions[c], Timer) ELSE over[c]]

Clock == Tick /\ UNCHANGED sigVars

----------------------------------------------------------------------------

Network(k) ==
    \/ \E u \in User : Connect(k, u)
    \/ HandshakeDone(k)
    \/ Break(k)
    \/ OnClose(k)
    \/ WriteFailed(k)

Handler(k) ==
    \/ BadMessage(k)
    \/ \E v \in User : onCallCreate(k, v)
    \/ \E c \in CallId : onCallAccept(k, c) \/ onCallReject(k, c)
                         \/ onCallHangup(k, c) \/ onWebrtcRelay(k, c)

SigNext ==
    \/ \E k \in Conn : Network(k) \/ Handler(k)
    \/ \E t \in Thread : Send(t)
    \/ checkExpired
    \/ Clock

SigSpec == SigInit /\ [][SigNext]_vars

(* The pool's threads finish what they started, completions run, the timer
   is re-armed, and time passes; users and the network owe nothing. *)
SigFairness ==
    /\ \A t \in Thread : WF_vars(Send(t))
    /\ \A k \in Conn : WF_vars(OnClose(k)) /\ WF_vars(WriteFailed(k))
    /\ WF_vars(checkExpired)
    /\ WF_vars(Clock)

SigFairSpec == SigSpec /\ SigFairness

----------------------------------------------------------------------------

(* Type invariant of the connections and of what threads have to send; an
   issued call is live or over, never both (router.cpp, ws_server.cpp). *)
SigTypeOK ==
    /\ CallTypeOK
    /\ conn \in [Conn -> [user : User \cup {NoCall}, st : ConnState]]
    /\ reg \in [User -> Conn \cup {NoConn}]
    /\ \A t \in Thread : \A i \in DOMAIN pending[t] :
          pending[t][i] \in [type : MsgType, to : User, call : CallId \cup {NoCall}]
    /\ \A k \in Conn : werr[k] \in 0 .. MaxWriteErr
    /\ knows \subseteq Conn \X issued
    /\ DOMAIN over = issued \ Calls

\* The messages of a given kind to u about c that threads still have to send.
Outstanding(types, u, c) ==
    {ti \in UNION {{t} \X DOMAIN pending[t] : t \in Thread} :
        LET m == pending[ti[1]][ti[2]]
        IN  m.type \in types /\ m.to = u /\ m.call = c}

WasSent(types, u, c) == \E m \in sent : m.type \in types /\ m.to = u /\ m.call = c

(* Whoever ends a call, and whichever handlers race for it, every party who
   did not end it himself has been sent call.ended or call.failed, or a
   thread is about to (router.cpp:142-146, 170-178, 204-221). *)
EndNoticeOwed ==
    \A c \in DOMAIN over :
        \A u \in {over[c].callerId, over[c].calleeId} \ {over[c].by} :
            WasSent(Terminal, u, c) \/ Outstanding(Terminal, u, c) # {}

(* A hangup, a reject and the timer may race for the same call, but a party
   is told once that it is over, and a live call's parties not at all
   (the erase under the lock, call_manager.cpp:84, 102, 126). *)
TerminalNoticeOnce ==
    \A c \in issued, u \in User :
        LET n == Cardinality(Outstanding(Terminal, u, c))
                 + (IF WasSent(Terminal, u, c) THEN 1 ELSE 0)
        IN  /\ c \in Calls => n = 0
            /\ c \in DOMAIN over /\ over[c].callerId # over[c].calleeId => n <= 1

(* rtc.config starts the media set-up of a client that must know the call:
   it is never sent to a user before call.created or call.incoming of that
   call was (the order of the sends in router.cpp:78-79 and 117-118). *)
ConfigAfterAnnouncement ==
    \A m \in sent : m.type = "rtc.config" =>
        WasSent({"call.created", "call.incoming"}, m.to, m.call)

(* The caller of every call learns how it went: he is sent rtc.config, or
   call.ended or call.failed, unless he hangs up himself, even when his
   connection and the callee's come and go (router.cpp, main.cpp:116-127). *)
CallerLearnsOutcome ==
    \A c \in CallId, u \in User :
        (c \in Calls /\ sessions[c].callerId = u)
            ~> \/ WasSent(Terminal \cup {"rtc.config"}, u, c)
               \/ c \in DOMAIN over /\ over[c].by = u

----------------------------------------------------------------------------

(* tests/test_backend.cpp:483 expects a user who is still connected to be
   reachable through WsServer::send after another session was removed. *)
StillConnectedReachable ==
    \A k \in Conn : conn[k].st = "open" => reg[conn[k].user] # NoConn
============================================================================
