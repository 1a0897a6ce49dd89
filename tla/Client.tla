------------------------------- MODULE Client -------------------------------
(***************************************************************************)
(* The call logic of the CLI client (client_cli/src): Commands, the        *)
(* MessageHandler, the callbacks main.cpp wires together, PeerConnection,  *)
(* SdpHandler and IceHandler, for every user at once.                      *)
(*                                                                         *)
(* Three threads of a client share session.call, pc and the handlers       *)
(* without a lock: the REPL thread, the WebSocket reader and the thread    *)
(* that libdatachannel runs callbacks on.  A step is what one of them does *)
(* between two points where it may be overtaken: a command and onFailed    *)
(* are cut at their send, cleanupCall at its stopAudio, which joins the    *)
(* audio threads, and initRtc at the close of the old peer connection;     *)
(* Audio has cleanupCall and initRtc line by line.  libdatachannel is      *)
(* external: a peer connection is a record that says whose description was *)
(* applied to it and what state it last reported.                          *)
(***************************************************************************)
EXTENDS CallManager, Sequences, FiniteSets   \* CallManager for User and CallId

CONSTANTS
    NoCall,     \* the empty callId
    MaxPc,      \* bound: peer connections one client creates
    MaxInputs,  \* bound: commands, candidates and lost connections in all
    MaxTerm     \* bound: different failures of media or connection in all

ASSUME ClientAssumption == /\ NoCall \notin CallId
                           /\ MaxPc \in Nat /\ MaxInputs \in Nat /\ MaxTerm \in Nat

VARIABLES
    call,       \* session.call: callId, state, is_caller
    pc,         \* the PeerConnection that pc points to, or NoPc
    gen,        \* how many peer connections the client has created
    done,       \* call_cleanup_done
    cmd,        \* what the REPL thread still has to do
    at,         \* where the reader and libdatachannel's thread are: see Stage
    up,         \* messages to the backend, in order
    down,       \* messages from the backend, in order
    run,        \* the process: "running", "offline", "quit" or "crashed"
    term,       \* <<kind, user>> of the failures of media or connection so far
    inputs      \* how many commands, candidates and lost connections so far

clientVars == <<call, pc, gen, done, cmd, at, up, down, run, term, inputs>>

AppState == {"Idle", "Calling", "Ringing", "InCall"}

CallContext == [callId |-> NoCall, state |-> "Idle", is_caller |-> FALSE]

Callback == {"ws", "rtc"}

\* Outside a callback; in cleanupCall, before the audio has stopped; in
\* initRtc, before the new connection; in onFailed, before cleanupCall.
Stage == {"out", "cleanup", "init", "failed"}

Out == [thread \in Callback |-> "out"]

isInCall(u) == call[u].state # "Idle"

NoId == <<NoCall, 0>>

NoPc == [id |-> NoId, remote |-> NoId, todo |-> {}, st |-> "none"]

Message(type, callId, arg) == [type |-> type, call |-> callId, arg |-> arg]

ClientInit ==
    /\ call = [u \in User |-> CallContext]
    /\ pc = [u \in User |-> NoPc]
    /\ gen = [u \in User |-> 0]
    /\ done = [u \in User |-> FALSE]
    /\ cmd = [u \in User |-> "prompt"]
    /\ at = [u \in User |-> Out]
    /\ up = [u \in User |-> <<>>]
    /\ down = [u \in User |-> <<>>]
    /\ run = [u \in User |-> "running"]
    /\ term = {}
    /\ inputs = 0

\* WsClient::send: without a connection the message is dropped.
Written(u, m) == IF run[u] = "running" THEN [up EXCEPT ![u] = Append(@, m)] ELSE up

ws_send(u, m) == up' = Written(u, m)

Alive(u) == run[u] \in {"running", "offline"}

\* A thread of a live client is at a certain stage; it is free between callbacks.
Stands(u, thread, stage) == Alive(u) /\ at[u][thread] = stage

Free(u, thread) == Stands(u, thread, "out")

Fail(kind, u) ==
    /\ Cardinality(term) < MaxTerm
    /\ term' = term \cup {<<kind, u>>}

----------------------------------------------------------------------------
(* cleanupCall (main.cpp:71-81).                                            *)

\* call_cleanup_done.exchange(true) lets no second thread in until initRtc
\* resets it.
cleanupCall(u, thread) ==
    /\ done' = [done EXCEPT ![u] = TRUE]
    /\ at' = [at EXCEPT ![u][thread] = IF done[u] THEN "out" ELSE "cleanup"]

\* The audio threads are joined.  Whatever pc is by now is closed and reset,
\* and the call of the session, whichever it is by now, forgotten.
CleanupEnd(u, thread) ==
    /\ Stands(u, thread, "cleanup")
    /\ at' = [at EXCEPT ![u][thread] = "out"]
    /\ pc' = [pc EXCEPT ![u] = NoPc]
    /\ call' = [call EXCEPT ![u] = CallContext]
    /\ UNCHANGED <<gen, done, cmd, up, down, run, term>>

----------------------------------------------------------------------------
(* The REPL thread: Commands.                                               *)

Prompt(u) == Alive(u) /\ cmd[u] = "prompt"

\* Commands::call for a user who is logged in; refused while in a call.
Call(u) ==
    /\ Prompt(u)
    /\ ~isInCall(u)
    /\ call' = [call EXCEPT ![u].state = "Calling", ![u].is_caller = TRUE]
    /\ cmd' = [cmd EXCEPT ![u] = "create"]
    /\ UNCHANGED <<pc, gen, done, at, up, down, run, term>>

\* It sends last.  Whom the user calls matters only now.
Create(u, v) ==
    /\ Alive(u)
    /\ cmd[u] = "create"
    /\ v # u
    /\ ws_send(u, Message("call.create", NoCall, v))
    /\ cmd' = [cmd EXCEPT ![u] = "prompt"]
    /\ UNCHANGED <<call, pc, gen, done, at, down, run, term>>

\* A command that names the call to the backend and assigns afterwards.
Command(u, type, next) ==
    /\ Prompt(u)
    /\ ws_send(u, Message(type, call[u].callId, NoCall))
    /\ cmd' = [cmd EXCEPT ![u] = next]
    /\ UNCHANGED <<call, pc, gen, done, at, down, run, term>>

Accept(u) == call[u].state = "Ringing" /\ Command(u, "call.accept", "InCall")

Reject(u) == call[u].state = "Ringing" /\ Command(u, "call.reject", "Idle")

Hangup(u) == isInCall(u) /\ Command(u, "call.hangup", "Idle")

\* What accept (to InCall), reject and hangup (to Idle) assign once the
\* message is sent.  None of them touches pc or the audio.
Assign(u) ==
    /\ Alive(u)
    /\ cmd[u] \in {"InCall", "Idle"}
    /\ call' = [call EXCEPT ![u] = IF cmd[u] = "Idle" THEN CallContext
                                   ELSE [@ EXCEPT !.state = "InCall"]]
    /\ cmd' = [cmd EXCEPT ![u] = "prompt"]
    /\ UNCHANGED <<pc, gen, done, at, up, down, run, term>>

\* Commands::quit: hang up if in a call, then the process ends and its
\* peer connection with it.
Quit(u) ==
    /\ Prompt(u)
    /\ up' = IF isInCall(u)
             THEN Written(u, Message("call.hangup", call[u].callId, NoCall)) ELSE up
    /\ call' = [call EXCEPT ![u] = CallContext]
    /\ pc' = [pc EXCEPT ![u] = NoPc]
    /\ run' = [run EXCEPT ![u] = "quit"]
    /\ UNCHANGED <<gen, done, cmd, at, down, term>>

----------------------------------------------------------------------------
(* The WebSocket reader: the callback of main.cpp:180-209 and, inside it,   *)
(* MessageHandler::handle.  One operator per message type.                  *)

handleCallIncoming(u, m) ==
    /\ call' = [call EXCEPT ![u] = [callId |-> m.call, state |-> "Ringing",
                                    is_caller |-> FALSE]]
    /\ UNCHANGED <<pc, gen, done, at, run>>

handleCallCreated(u, m) ==
    /\ call' = [call EXCEPT ![u].callId = m.call]
    /\ UNCHANGED <<pc, gen, done, at, run>>

\* call.ended and call.failed, whatever call they name.
handleCallEnded(u) ==
    /\ call' = [call EXCEPT ![u] = CallContext]
    /\ cleanupCall(u, "ws")
    /\ UNCHANGED <<pc, gen, run>>

\* An error is printed; only a client that is calling gives its call up.
handleError(u) ==
    /\ IF call[u].state = "Calling" THEN cleanupCall(u, "ws")
                                    ELSE UNCHANGED <<done, at>>
    /\ UNCHANGED <<call, pc, gen, run>>

\* Mutant of handleRtcConfig: the old connection is closed, not reset.
handleRtcConfigKeepsPc(u) ==
    /\ gen[u] < MaxPc
    /\ done' = [done EXCEPT ![u] = FALSE]
    /\ at' = [at EXCEPT ![u]["ws"] = "init"]
    /\ UNCHANGED <<call, pc, gen, run>>

\* initRtc begins: the flag is reset, the old connection closed and reset.
handleRtcConfig(u) ==
    /\ gen[u] < MaxPc
    /\ done' = [done EXCEPT ![u] = FALSE]
    /\ pc' = [pc EXCEPT ![u] = NoPc]
    /\ at' = [at EXCEPT ![u]["ws"] = "init"]
    /\ UNCHANGED <<call, gen, run>>

Ignore == UNCHANGED <<call, pc, gen, done, at, run>>

\* A description or a candidate for a handler that cleanupCall has reset:
\* the callback registered by initRtc follows a null pointer.
Apply(u, newpc) ==
    /\ \/ /\ gen[u] = 0     \* no callback registered yet: a warning
          /\ UNCHANGED <<pc, run>>
       \/ /\ gen[u] > 0 /\ pc[u] = NoPc
          /\ run' = [run EXCEPT ![u] = "crashed"]
          /\ UNCHANGED pc
       \/ /\ gen[u] > 0 /\ pc[u] # NoPc
          /\ pc' = [pc EXCEPT ![u] = newpc]
          /\ UNCHANGED run
    /\ UNCHANGED <<call, gen, done, at>>

\* The first offer applied is answered; a caller ignores offers.
handleWebrtcOffer(u, m) ==
    IF call[u].is_caller THEN Ignore
    ELSE Apply(u, IF pc[u].remote = NoId
                  THEN [pc[u] EXCEPT !.remote = m.arg, !.todo = @ \cup {"webrtc.answer"}]
                  ELSE pc[u])

handleWebrtcAnswer(u, m) ==
    IF ~call[u].is_caller THEN Ignore
    ELSE Apply(u, IF pc[u].remote = NoId THEN [pc[u] EXCEPT !.remote = m.arg] ELSE pc[u])

handleWebrtcIce(u) == Apply(u, pc[u])

handle(u) ==
    /\ Free(u, "ws") /\ run[u] = "running"
    /\ down[u] # <<>>
    /\ down' = [down EXCEPT ![u] = Tail(@)]
    /\ LET m == Head(down[u])
       IN  \/ m.type = "call.incoming" /\ handleCallIncoming(u, m)
           \/ m.type = "call.created" /\ handleCallCreated(u, m)
           \/ m.type \in {"call.ended", "call.failed"} /\ handleCallEnded(u)
           \/ m.type = "error" /\ handleError(u)
           \/ m.type = "rtc.config" /\ handleRtcConfig(u)
           \/ m.type = "webrtc.offer" /\ handleWebrtcOffer(u, m)
           \/ m.type = "webrtc.answer" /\ handleWebrtcAnswer(u, m)
           \/ m.type = "webrtc.ice" /\ handleWebrtcIce(u)
    /\ UNCHANGED <<cmd, up, term>>

\* The new connection is made and set up; a caller's makes an offer.
initRtc(u) ==
    /\ Stands(u, "ws", "init")
    /\ gen' = [gen EXCEPT ![u] = @ + 1]
    /\ pc' = [pc EXCEPT ![u] =
                [id |-> <<u, gen[u] + 1>>, remote |-> NoId, st |-> "new",
                 todo |-> IF call[u].state = "Calling" THEN {"webrtc.offer"} ELSE {}]]
    /\ at' = [at EXCEPT ![u]["ws"] = "out"]
    /\ UNCHANGED <<call, done, cmd, up, down, run, term>>

\* The connection is lost, with what was on its way; the call is given up.
onClose(u) ==
    /\ Free(u, "ws") /\ run[u] = "running"
    /\ Fail("close", u)
    /\ run' = [run EXCEPT ![u] = "offline"]
    /\ down' = [down EXCEPT ![u] = <<>>]
    /\ \E n \in 0 .. Len(up[u]) : up' = [up EXCEPT ![u] = SubSeq(@, 1, n)]
    /\ IF isInCall(u) THEN cleanupCall(u, "ws") ELSE UNCHANGED <<done, at>>
    /\ UNCHANGED <<call, pc, gen, cmd>>

\* reconnectLoop, once onClose has returned: see WsClient.
Reconnected(u) ==
    /\ Free(u, "ws") /\ run[u] = "offline"
    /\ run' = [run EXCEPT ![u] = "running"]
    /\ UNCHANGED <<call, pc, gen, done, cmd, at, up, down, term>>

----------------------------------------------------------------------------
(* libdatachannel's thread: callbacks of the peer connection that exists.   *)

\* SdpHandler and IceHandler read session.call.callId when the callback runs.
Announce(u, type, next) ==
    /\ Free(u, "rtc")
    /\ type \in pc[u].todo
    /\ ws_send(u, Message(type, call[u].callId, pc[u].id))
    /\ pc' = [pc EXCEPT ![u].todo = (@ \ {type}) \cup next]
    /\ UNCHANGED <<call, gen, done, cmd, at, down, run, term>>

LocalDescription(u) ==
    \E type \in {"webrtc.offer", "webrtc.answer"} : Announce(u, type, {"webrtc.ice"})

\* One candidate stands for all.
LocalCandidate(u) == Announce(u, "webrtc.ice", {})

\* The two ends have applied each other's descriptions.
Paired(u) == \E v \in User : /\ pc[u].remote # NoId
                             /\ pc[v].id = pc[u].remote
                             /\ pc[v].remote = pc[u].id

Connected(u) ==
    /\ Free(u, "rtc")
    /\ pc[u].st = "new"
    /\ Paired(u)
    /\ pc' = [pc EXCEPT ![u].st = "connected"]
    /\ call' = [call EXCEPT ![u].state = "InCall"]
    /\ UNCHANGED <<gen, done, cmd, at, up, down, run, term>>

\* The transport failed.  onFailed tells the backend of the call of the
\* session, whichever it is by now ...
Failed(u) ==
    /\ Free(u, "rtc")
    /\ pc[u].st \in {"new", "connected", "disconnected"}
    /\ pc[u].remote # NoId
    /\ Fail("Failed", u)
    /\ pc' = [pc EXCEPT ![u].st = "failed"]
    /\ up' = IF call[u].callId # NoCall
             THEN Written(u, Message("call.hangup", call[u].callId, NoCall)) ELSE up
    /\ at' = [at EXCEPT ![u]["rtc"] = "failed"]
    /\ UNCHANGED <<call, gen, done, cmd, down, run>>

\* ... and cleans up.
onFailed(u) ==
    /\ Stands(u, "rtc", "failed")
    /\ cleanupCall(u, "rtc")
    /\ UNCHANGED <<call, pc, gen, cmd, up, down, run, term>>

\* The other end is gone or unreachable.  The call is forgotten, pc stays.
Disconnected(u) ==
    /\ Free(u, "rtc")
    /\ pc[u].st = "connected"
    /\ Fail("Disconnected", u)
    /\ pc' = [pc EXCEPT ![u].st = "disconnected"]
    /\ call' = [call EXCEPT ![u] = CallContext]
    /\ UNCHANGED <<gen, done, cmd, at, up, down, run>>

handleStateChange(u) == Connected(u) \/ Failed(u) \/ Disconnected(u)

\* What comes from outside: the user, the network, and ICE.
Outside(u) ==
    \/ Call(u) \/ Accept(u) \/ Reject(u) \/ Hangup(u) \/ Quit(u)
    \/ onClose(u)
    \/ LocalCandidate(u)

Inside(u) ==
    \/ \E v \in User : Create(u, v)
    \/ Assign(u)
    \/ handle(u) \/ initRtc(u) \/ Reconnected(u)
    \/ LocalDescription(u) \/ handleStateChange(u) \/ onFailed(u)
    \/ \E thread \in Callback : CleanupEnd(u, thread)

ClientNext(u) ==
    \/ Outside(u) /\ inputs < MaxInputs /\ inputs' = inputs + 1
    \/ Inside(u) /\ UNCHANGED inputs

ClientTypeOK ==
    /\ call \in [User -> [callId : CallId \cup {NoCall}, state : AppState,
                          is_caller : BOOLEAN]]
    /\ \A u \in User : /\ gen[u] \in 0 .. MaxPc
                       /\ pc[u] = NoPc \/ pc[u].id = <<u, gen[u]>>
                       /\ at[u]["ws"] = "init" => pc[u] = NoPc
    /\ at \in [User -> [Callback -> Stage]]
    /\ cmd \in [User -> {"prompt", "create", "InCall", "Idle"}]
    /\ run \in [User -> {"running", "offline", "quit", "crashed"}]
============================================================================
