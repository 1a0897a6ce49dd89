------------------------------ MODULE WsClient ------------------------------
(***************************************************************************)
(* signaling::WsClient (client_cli/src/signaling/ws_client.cpp): the life  *)
(* of the client's WebSocket connection and of the threads that keep it.   *)
(* read_thread_ and reconnect_thread_ are std::thread objects shared by    *)
(* the REPL thread, the reader and the reconnector without a lock: joining *)
(* a thread that another one has joined meanwhile, and assigning to or     *)
(* destroying a joinable object, end the program (std::terminate or worse).*)
(***************************************************************************)
EXTENDS Naturals, FiniteSets

CONSTANTS
    Id,             \* thread identities
    NoThread,       \* an object that is not joinable
    Repl,           \* the thread that runs the commands and main
    kMaxRetries,    \* attempts of one reconnectLoop
    MaxLogins       \* bound: login commands from the first that connects on

ASSUME WsAssumption == /\ kMaxRetries \in Nat \ {0} /\ MaxLogins \in Nat
                       /\ NoThread \notin Id /\ Repl \notin Id

VARIABLES
    at,             \* at[t]: where thread t is
    joining,        \* joining[t]: the thread t waits for, or NoThread
    attempt,        \* attempt[t]: attempts made by reconnector t
    read_thread_,
    reconnect_thread_,
    ws_,            \* "none", "open" or "lost"
    connected_,
    stop_,
    logins,         \* login commands, from the first that connected on
    terminated      \* the program died of misusing a thread object

wsVars == <<at, joining, attempt, read_thread_, reconnect_thread_, ws_, connected_,
            stop_, logins, terminated>>

Thread == Id \cup {Repl}

Finished == {"done", "gaveUp"}

Quitting == {"close", "joinRead", "dropWs", "joinReconnect", "destroy"}

Place == {"unused", "prompt", "exited", "loop", "read", "lost", "rejoin", "respawn",
          "sleep", "joinReader", "reset", "connect"} \cup Finished \cup Quitting

WsInit ==
    /\ at = [t \in Thread |-> IF t = Repl THEN "prompt" ELSE "unused"]
    /\ joining = [t \in Thread |-> NoThread]
    /\ attempt = [t \in Id |-> 0]
    /\ read_thread_ = NoThread
    /\ reconnect_thread_ = NoThread
    /\ ws_ = "none"
    /\ connected_ = FALSE
    /\ stop_ = FALSE
    /\ logins = 0
    /\ terminated = FALSE

----------------------------------------------------------------------------
(* std::thread.                                                             *)

Runs(t, place) == ~terminated /\ joining[t] = NoThread /\ at[t] = place

\* An identity that no object, and no thread in a join, refers to.
Fresh == {t \in Id : /\ at[t] \in Finished \cup {"unused"}
                     /\ t \notin {read_thread_, reconnect_thread_}
                     /\ \A s \in Thread : joining[s] # t}

\* if (object.joinable()) object.join(): t goes on once the join returns.
Join(t, object, next) ==
    /\ joining' = [joining EXCEPT ![t] = object]
    /\ at' = [at EXCEPT ![t] = next]
    /\ UNCHANGED <<attempt, read_thread_, reconnect_thread_, ws_, connected_,
                   stop_, logins, terminated>>

\* join returns and the object is no longer joinable; if another thread's
\* join has got there first, this one is undefined.
Joined(t) ==
    /\ ~terminated
    /\ joining[t] # NoThread
    /\ at[joining[t]] \in Finished
    /\ read_thread_' = IF read_thread_ = joining[t] THEN NoThread ELSE read_thread_
    /\ reconnect_thread_' = IF reconnect_thread_ = joining[t] THEN NoThread
                            ELSE reconnect_thread_
    /\ terminated' = (joining[t] \notin {read_thread_, reconnect_thread_})
    /\ joining' = [joining EXCEPT ![t] = NoThread]
    /\ UNCHANGED <<at, attempt, ws_, connected_, stop_, logins>>

----------------------------------------------------------------------------
(* connect, on the REPL thread or on the reconnector.                       *)

\* The handshakes succeed; assigning to a joinable read_thread_ terminates.
ConnectOk(t, next) ==
    /\ ws_' = "open"
    /\ connected_' = TRUE
    /\ \E n \in Fresh : /\ read_thread_' = n
                        /\ at' = [at EXCEPT ![t] = next, ![n] = "loop"]
    /\ terminated' = (read_thread_ # NoThread)
    /\ UNCHANGED <<joining, reconnect_thread_, stop_>>

\* It throws, with ws_ untouched or a stream whose handshake failed.
ConnectFails(t, next) ==
    /\ ws_' \in {ws_, "lost"}
    /\ at' = [at EXCEPT ![t] = next]
    /\ UNCHANGED <<joining, read_thread_, reconnect_thread_, connected_, stop_, terminated>>

\* setOnLogin's callback after a login command.
Login ==
    /\ Runs(Repl, "prompt")
    /\ logins < MaxLogins
    /\ \/ ConnectOk(Repl, "prompt") /\ logins' = logins + 1
       \/ /\ ConnectFails(Repl, "prompt")
          /\ logins' = IF logins = 0 THEN 0 ELSE logins + 1
    /\ UNCHANGED attempt

\* The peer or the network closes the stream.
Lose ==
    /\ ~terminated
    /\ ws_ = "open"
    /\ ws_' = "lost"
    /\ UNCHANGED <<at, joining, attempt, read_thread_, reconnect_thread_, connected_,
                   stop_, logins, terminated>>

----------------------------------------------------------------------------

Goto(t, next) == at' = [at EXCEPT ![t] = next]

Others == UNCHANGED <<joining, read_thread_, reconnect_thread_, stop_, logins, terminated>>

\* A message arrives and on_message_ runs.  Nobody owes the client one.
Receive(t) ==
    /\ Runs(t, "read") /\ ws_ = "open"
    /\ Goto(t, "loop")
    /\ UNCHANGED <<ws_, connected_, attempt>> /\ Others

\* readLoop: the head of the loop, and an error.
readLoop(t) ==
    \/ /\ Runs(t, "loop")
       /\ Goto(t, IF stop_ \/ ws_ = "none" THEN "done" ELSE "read")
       /\ UNCHANGED <<ws_, connected_, attempt>> /\ Others
    \/ /\ Runs(t, "read") /\ ws_ # "open"
       /\ Goto(t, "lost")
       /\ connected_' = FALSE
       /\ UNCHANGED <<ws_, attempt>> /\ Others
    \/ /\ Runs(t, "lost")     \* on_close_ runs here, unless stopping
       /\ Goto(t, IF stop_ THEN "done" ELSE "rejoin")
       /\ UNCHANGED <<ws_, connected_, attempt>> /\ Others

\* Mutant of Respawn: waits for the reconnector it starts, not the old one.
RespawnWaits(t) ==
    \/ /\ Runs(t, "rejoin")
       /\ \E n \in Fresh : /\ reconnect_thread_' = n
                           /\ at' = [at EXCEPT ![t] = "respawn", ![n] = "sleep"]
                           /\ attempt' = [attempt EXCEPT ![n] = 0]
       /\ UNCHANGED <<joining, read_thread_, ws_, connected_, stop_, logins, terminated>>
    \/ Runs(t, "respawn") /\ Join(t, reconnect_thread_, "done")

\* The old reconnector is joined, a new one is started, the reader ends.
Respawn(t) ==
    \/ Runs(t, "rejoin") /\ Join(t, reconnect_thread_, "respawn")
    \/ /\ Runs(t, "respawn")
       /\ \E n \in Fresh : /\ reconnect_thread_' = n
                           /\ at' = [at EXCEPT ![t] = "done", ![n] = "sleep"]
                           /\ attempt' = [attempt EXCEPT ![n] = 0]
       /\ terminated' = (reconnect_thread_ # NoThread)
       /\ UNCHANGED <<joining, read_thread_, ws_, connected_, stop_, logins>>

\* Mutant of JoinReader: connects without joining the reader.
JoinReaderSkipped(t) == Runs(t, "joinReader") /\ Join(t, NoThread, "reset")

\* reconnectLoop joins the reader that started it before it connects.
JoinReader(t) == Runs(t, "joinReader") /\ Join(t, read_thread_, "reset")

\* Mutant of MayRetry: one attempt too many.
MayRetryLate(t) == attempt[t] <= kMaxRetries

\* The loop of reconnectLoop has attempts left.
MayRetry(t) == attempt[t] < kMaxRetries

reconnectLoop(t) ==
    \/ /\ Runs(t, "sleep")
       /\ Goto(t, IF stop_ THEN "done" ELSE "joinReader")
       /\ attempt' = [attempt EXCEPT ![t] = IF stop_ THEN @ ELSE @ + 1]
       /\ UNCHANGED <<ws_, connected_>> /\ Others
    \/ JoinReader(t)
    \/ /\ Runs(t, "reset")
       /\ ws_' = "none"
       /\ Goto(t, "connect")
       /\ UNCHANGED <<connected_, attempt>> /\ Others
    \/ /\ Runs(t, "connect")
       /\ \/ ConnectOk(t, "done")
          \/ ConnectFails(t, IF MayRetry(t) THEN "sleep" ELSE "gaveUp")
       /\ UNCHANGED <<logins, attempt>>

----------------------------------------------------------------------------
(* quit: the REPL thread returns from main and ~WsClient calls disconnect.  *)

Quit ==
    /\ Runs(Repl, "prompt")
    /\ stop_' = TRUE
    /\ connected_' = FALSE
    /\ Goto(Repl, "close")
    /\ UNCHANGED <<joining, attempt, read_thread_, reconnect_thread_, ws_, logins, terminated>>

\* Mutant of CloseStream: the stream is left open.
CloseStreamNot == UNCHANGED ws_

\* ws_->close ends a read that is under way.
CloseStream == ws_' = IF ws_ = "open" THEN "lost" ELSE ws_

\* The rest of disconnect, then the destructors of the thread objects.
disconnect ==
    \/ /\ Runs(Repl, "close")
       /\ CloseStream
       /\ Goto(Repl, "joinRead")
       /\ UNCHANGED <<connected_, attempt>> /\ Others
    \/ Runs(Repl, "joinRead") /\ Join(Repl, read_thread_, "dropWs")
    \/ /\ Runs(Repl, "dropWs")
       /\ ws_' = "none"
       /\ Goto(Repl, "joinReconnect")
       /\ UNCHANGED <<connected_, attempt>> /\ Others
    \/ Runs(Repl, "joinReconnect") /\ Join(Repl, reconnect_thread_, "destroy")
    \/ /\ Runs(Repl, "destroy")
       /\ terminated' = ({read_thread_, reconnect_thread_} # {NoThread})
       /\ Goto(Repl, "exited")
       /\ UNCHANGED <<joining, attempt, read_thread_, reconnect_thread_, ws_, connected_,
                      stop_, logins>>

Step(t) == readLoop(t) \/ Respawn(t) \/ reconnectLoop(t) \/ Joined(t)

WsNext ==
    \/ Login \/ Lose \/ Quit \/ disconnect \/ Joined(Repl)
    \/ \E t \in Id : Step(t) \/ Receive(t)

WsSpec == WsInit /\ [][WsNext]_wsVars

(* Threads that can run do; logging in, receiving a message, losing the connection and quitting
   are up to the user and the network. *)
WsFairSpec ==
    /\ WsSpec
    /\ \A t \in Id : WF_wsVars(Step(t))
    /\ WF_wsVars(disconnect \/ Joined(Repl))

----------------------------------------------------------------------------

(* Type invariant of WsClient; no reconnector makes more than kMaxRetries
   attempts (ws_client.cpp:109, ws_client.hpp). *)
WsTypeOK ==
    /\ at \in [Thread -> Place]
    /\ joining \in [Thread -> Id \cup {NoThread}]
    /\ attempt \in [Id -> 0 .. kMaxRetries]
    /\ {read_thread_, reconnect_thread_} \subseteq Id \cup {NoThread}
    /\ ws_ \in {"none", "open", "lost"}
    /\ logins \in 0 .. MaxLogins

(* However often the connection goes and comes back, the reader and the
   reconnector, which start one another, join each other in an order that
   never misuses a thread object, as long as the user neither quits nor
   logs in again once connected (ws_client.cpp:67-68, 90-96, 118-128). *)
ThreadsWellUsed == ~stop_ /\ logins <= 1 => ~terminated

(* A client that has lost its connection is connected again or has made its
   last attempt; reader and reconnector never wait for each other for ever
   (ws_client.cpp:71-138); unless a second login ends the program. *)
Recovers ==
    (ws_ = "lost" /\ connected_)
        ~> (ws_ = "open" \/ stop_ \/ logins > 1 \/ \E t \in Id : at[t] = "gaveUp")

(* quit gets past every join of disconnect: no reader, and no reconnector
   in the middle of an attempt, makes it wait for ever, whatever else
   becomes of the program (ws_client.cpp:152-175); again unless the user
   has logged in twice: the readers of two connections can then leave a
   reader and a reconnector to wait for each other. *)
QuitEnds == at[Repl] \in Quitting ~> at[Repl] = "exited" \/ terminated \/ logins > 1
============================================================================
