--------------------------- MODULE WsClientProofs ---------------------------
(***************************************************************************)
(* WsClient for every number of attempts and every set of thread           *)
(* identities.  WsInv is inductive.  Roles says what makes the joins safe: *)
(* of the reader and the reconnector at most one is at work, and the other *)
(* has ended, so that whoever joins waits for the thread that the object   *)
(* it looks at holds.                                                      *)
(***************************************************************************)
EXTENDS WsClient, TLAPS

ReaderPlace == {"loop", "read", "lost", "rejoin", "respawn"}

ReconnectorPlace == {"sleep", "joinReader", "reset", "connect"}

Ended(object) == object = NoThread \/ at[object] \in Finished

\* A reader that has begun to join waits for the old reconnector, or no more.
ReaderAt(t) ==
    /\ at[t] \in ReaderPlace
    /\ Ended(reconnect_thread_)
    /\ joining[t] = IF at[t] = "respawn" THEN reconnect_thread_ ELSE NoThread

ReconnectorAt(t) ==
    /\ at[t] \in ReconnectorPlace
    /\ Ended(read_thread_)
    /\ joining[t] = IF at[t] = "reset" THEN read_thread_ ELSE NoThread
    /\ at[t] = "connect" => read_thread_ = NoThread

Roles ==
    /\ at[Repl] = "prompt" /\ joining[Repl] = NoThread
    /\ read_thread_ = reconnect_thread_ => read_thread_ = NoThread
    /\ logins = 0 => read_thread_ = NoThread /\ reconnect_thread_ = NoThread
    /\ \A t \in Id :
          \/ at[t] \in Finished \cup {"unused"} /\ joining[t] = NoThread
          \/ t = read_thread_ /\ ReaderAt(t)
          \/ t = reconnect_thread_ /\ ReconnectorAt(t)

SleepOK == \A t \in Id : at[t] = "sleep" => attempt[t] < kMaxRetries

Typed == WsTypeOK /\ SleepOK

Sound == ~terminated /\ Roles

\* Nobody has quit or logged in again.
Undisturbed == ~stop_ /\ logins <= 1

WsInv == Typed /\ (Undisturbed => Sound)

----------------------------------------------------------------------------
(* The type invariant and the count of attempts.                            *)

\* A step that moves threads in M to places of P and counts no attempt.
Moves(M, P) ==
    /\ at' \in [Thread -> Place]
    /\ \A s \in Thread \ M : at'[s] = at[s]
    /\ \A s \in M : at'[s] \in P
    /\ attempt' = attempt

LEMMA MovesTyped ==
    ASSUME Typed, NEW M, NEW P, Moves(M, P), "sleep" \notin P,
           joining' \in [Thread -> Id \cup {NoThread}],
           {read_thread_', reconnect_thread_'} \subseteq Id \cup {NoThread},
           ws_' \in {"none", "open", "lost"}, logins' \in 0 .. MaxLogins
    PROVE  Typed'
<1>1. \A t \in Id : t \in Thread
  BY DEF Thread
<1> QED BY <1>1 DEF Typed, WsTypeOK, SleepOK, Moves

LEMMA GotoMoves ==
    ASSUME WsTypeOK, NEW t \in Thread, NEW next \in Place, Goto(t, next), attempt' = attempt
    PROVE  Moves({t}, {next})
BY DEF WsTypeOK, Goto, Moves

LEMMA JoinTyped ==
    ASSUME Typed, NEW t \in Thread, NEW object \in Id \cup {NoThread}, NEW next \in Place,
           next # "sleep", Join(t, object, next)
    PROVE  Typed'
<1>1. Moves({t}, {next})
  BY DEF Typed, WsTypeOK, Join, Moves
<1>2. joining' \in [Thread -> Id \cup {NoThread}]
  BY DEF Typed, WsTypeOK, Join
<1> QED BY <1>1, <1>2, MovesTyped DEF Typed, WsTypeOK, Join

LEMMA JoinedTyped ==
    ASSUME Typed, NEW t \in Thread, Joined(t)
    PROVE  Typed'
<1>1. Moves({}, {})
  BY DEF Typed, WsTypeOK, Joined, Moves
<1>2. joining' \in [Thread -> Id \cup {NoThread}]
  BY DEF Typed, WsTypeOK, Joined
<1>3. {read_thread_', reconnect_thread_'} \subseteq Id \cup {NoThread}
  BY DEF Typed, WsTypeOK, Joined
<1> QED BY <1>1, <1>2, <1>3, MovesTyped DEF Typed, WsTypeOK, Joined

LEMMA ConnectTyped ==
    ASSUME Typed, NEW t \in Thread, NEW next \in Place, next # "sleep",
           ConnectOk(t, next) \/ ConnectFails(t, next),
           attempt' = attempt, logins' \in 0 .. MaxLogins
    PROVE  Typed'
<1>1. CASE ConnectFails(t, next)
  <2>1. Moves({t}, {next})
    BY <1>1 DEF Typed, WsTypeOK, ConnectFails, Moves
  <2> QED BY <1>1, <2>1, MovesTyped DEF Typed, WsTypeOK, ConnectFails
<1>2. CASE ConnectOk(t, next)
  <2>1. PICK n \in Fresh : read_thread_' = n /\ at' = [at EXCEPT ![t] = next, ![n] = "loop"]
    BY <1>2 DEF ConnectOk
  <2>2. n \in Id /\ n \in Thread /\ "loop" \in Place
    BY DEF Fresh, Thread, Place
  <2>3. Moves({t, n}, {next, "loop"})
    BY <2>1, <2>2 DEF Typed, WsTypeOK, Moves
  <2> QED BY <1>2, <2>1, <2>2, <2>3, MovesTyped DEF Typed, WsTypeOK, ConnectOk
<1> QED BY <1>1, <1>2

LEMMA LoginTyped ==
    ASSUME Typed, Login
    PROVE  Typed'
<1>1. Repl \in Thread /\ "prompt" \in Place
  BY DEF Thread, Place
<1>2. logins' \in 0 .. MaxLogins /\ attempt' = attempt
  BY WsAssumption DEF Login, Typed, WsTypeOK
<1>3. ConnectOk(Repl, "prompt") \/ ConnectFails(Repl, "prompt")
  BY DEF Login
<1> QED BY <1>1, <1>2, <1>3, ConnectTyped

LEMMA ReadTyped ==
    ASSUME Typed, NEW t \in Id, readLoop(t) \/ Receive(t)
    PROVE  Typed'
<1>1. PICK next \in {"loop", "read", "done", "lost", "rejoin"} : Goto(t, next)
  BY DEF readLoop, Receive
<1>2. /\ t \in Thread /\ next \in Place /\ next # "sleep"
      /\ attempt' = attempt
  BY DEF readLoop, Receive, Thread, Place, Finished
<1>3. Moves({t}, {next})
  BY <1>1, <1>2, GotoMoves DEF Typed
<1>4. UNCHANGED <<joining, read_thread_, reconnect_thread_, ws_, logins>>
  BY DEF readLoop, Receive, Others
<1> QED BY <1>2, <1>3, <1>4, MovesTyped DEF Typed, WsTypeOK

LEMMA RespawnTyped ==
    ASSUME Typed, NEW t \in Id, Respawn(t)
    PROVE  Typed'
<1>1. t \in Thread /\ "respawn" \in Place /\ "done" \in Place /\ "sleep" \in Place
  BY DEF Thread, Place, Finished
<1>2. CASE Join(t, reconnect_thread_, "respawn")
  BY <1>1, <1>2, JoinTyped DEF Typed, WsTypeOK
<1>3. ASSUME NEW n \in Fresh, reconnect_thread_' = n,
             at' = [at EXCEPT ![t] = "done", ![n] = "sleep"],
             attempt' = [attempt EXCEPT ![n] = 0],
             UNCHANGED <<joining, read_thread_, ws_, connected_, stop_, logins>>
      PROVE  Typed'
  <2>1. n \in Id /\ n \in Thread
    BY DEF Fresh, Thread
  <2>2. at' \in [Thread -> Place] /\ attempt' \in [Id -> 0 .. kMaxRetries]
    BY <1>1, <1>3, <2>1, WsAssumption DEF Typed, WsTypeOK
  <2>3. WsTypeOK'
    BY <1>3, <2>1, <2>2 DEF Typed, WsTypeOK
  <2>4. SleepOK'
    BY <1>1, <1>3, <2>1, WsAssumption DEF Typed, WsTypeOK, SleepOK, Thread
  <2> QED BY <2>3, <2>4 DEF Typed
<1> QED BY <1>2, <1>3 DEF Respawn

LEMMA ReconnectTyped ==
    ASSUME Typed, NEW t \in Id, reconnectLoop(t)
    PROVE  Typed'
<1>1. /\ t \in Thread
      /\ \A p \in {"done", "gaveUp", "sleep", "joinReader", "reset", "connect"} : p \in Place
  BY DEF Thread, Place, Finished
<1>2. CASE /\ Runs(t, "sleep")
           /\ Goto(t, IF stop_ THEN "done" ELSE "joinReader")
           /\ attempt' = [attempt EXCEPT ![t] = IF stop_ THEN @ ELSE @ + 1]
           /\ UNCHANGED <<ws_, connected_>> /\ Others
  <2>1. attempt[t] \in 0 .. kMaxRetries /\ attempt[t] < kMaxRetries
    BY <1>2 DEF Typed, WsTypeOK, SleepOK, Runs
  <2>2. attempt' \in [Id -> 0 .. kMaxRetries]
    BY <1>2, <2>1, WsAssumption DEF Typed, WsTypeOK
  <2>3. at' \in [Thread -> Place] /\ at'[t] # "sleep" /\ \A s \in Thread \ {t} : at'[s] = at[s]
    BY <1>1, <1>2 DEF Typed, WsTypeOK, Goto
  <2>4. WsTypeOK'
    BY <1>2, <2>2, <2>3 DEF Typed, WsTypeOK, Others
  <2>5. \A s \in Id \ {t} : attempt'[s] = attempt[s] /\ s \in Thread
    BY <1>2 DEF Typed, WsTypeOK, Thread
  <2>6. SleepOK'
    BY <2>3, <2>5 DEF Typed, SleepOK
  <2> QED BY <2>4, <2>6 DEF Typed
<1>3. CASE JoinReader(t)
  BY <1>1, <1>3, JoinTyped DEF JoinReader, Typed, WsTypeOK
<1>4. CASE Goto(t, "connect") /\ ws_' = "none" /\ UNCHANGED <<connected_, attempt>> /\ Others
  <2>1. Moves({t}, {"connect"})
    BY <1>1, <1>4, GotoMoves DEF Typed
  <2> QED BY <1>4, <2>1, MovesTyped DEF Typed, WsTypeOK, Others
<1>5. CASE ConnectOk(t, "done") /\ UNCHANGED <<logins, attempt>>
  BY <1>1, <1>5, ConnectTyped DEF Typed, WsTypeOK
<1>6. CASE /\ ConnectFails(t, IF MayRetry(t) THEN "sleep" ELSE "gaveUp")
           /\ UNCHANGED <<logins, attempt>>
  <2>1. CASE ~MayRetry(t)
    BY <1>1, <1>6, <2>1, ConnectTyped DEF Typed, WsTypeOK
  <2>2. CASE MayRetry(t)
    <3>1. at' = [at EXCEPT ![t] = "sleep"]
      BY <1>6, <2>2 DEF ConnectFails
    <3>2. WsTypeOK'
      BY <1>1, <1>6, <3>1 DEF Typed, WsTypeOK, ConnectFails
    <3>3. SleepOK'
      BY <1>1, <1>6, <2>2, <3>1 DEF Typed, WsTypeOK, SleepOK, MayRetry, Thread
    <3> QED BY <3>2, <3>3 DEF Typed
  <2> QED BY <2>1, <2>2
<1> QED BY <1>2, <1>3, <1>4, <1>5, <1>6 DEF reconnectLoop

LEMMA QuitTyped ==
    ASSUME Typed, Quit \/ disconnect
    PROVE  Typed'
<1>1. /\ Repl \in Thread
      /\ \A p \in Quitting \cup {"exited"} : p \in Place /\ p # "sleep"
  BY DEF Thread, Place, Quitting
<1>2. ASSUME NEW p \in Quitting \cup {"exited"}, Goto(Repl, p), ws_' \in {"none", "open", "lost"},
             UNCHANGED <<joining, read_thread_, reconnect_thread_, logins, attempt>>
      PROVE  Typed'
  <2>1. Moves({Repl}, {p})
    BY <1>1, <1>2, GotoMoves DEF Typed
  <2> QED BY <1>1, <1>2, <2>1, MovesTyped DEF Typed, WsTypeOK
<1>3. ASSUME NEW p \in Quitting, Join(Repl, read_thread_, p) \/ Join(Repl, reconnect_thread_, p)
      PROVE  Typed'
  <2>1. p \in Place /\ p # "sleep" /\ Repl \in Thread
    BY <1>1
  <2>2. read_thread_ \in Id \cup {NoThread} /\ reconnect_thread_ \in Id \cup {NoThread}
    BY DEF Typed, WsTypeOK
  <2> QED BY <1>3, <2>1, <2>2, JoinTyped
<1>4. ws_ \in {"none", "open", "lost"}
  BY DEF Typed, WsTypeOK
<1>5. CASE Quit
  BY <1>2, <1>4, <1>5 DEF Quit, Quitting
<1>6. CASE disconnect
  <2>1. CASE Runs(Repl, "close") /\ CloseStream /\ Goto(Repl, "joinRead")
             /\ UNCHANGED <<connected_, attempt>> /\ Others
    BY <1>2, <1>4, <2>1 DEF CloseStream, Others, Quitting
  <2>2. CASE Join(Repl, read_thread_, "dropWs")
    BY <1>3, <2>2 DEF Quitting
  <2>3. CASE ws_' = "none" /\ Goto(Repl, "joinReconnect")
             /\ UNCHANGED <<connected_, attempt>> /\ Others
    BY <1>2, <2>3 DEF Others, Quitting
  <2>4. CASE Join(Repl, reconnect_thread_, "destroy")
    BY <1>3, <2>4 DEF Quitting
  <2>5. CASE Goto(Repl, "exited")
             /\ UNCHANGED <<joining, attempt, read_thread_, reconnect_thread_, ws_, connected_,
                            stop_, logins>>
    BY <1>2, <1>4, <2>5
  <2> QED BY <1>6, <2>1, <2>2, <2>3, <2>4, <2>5 DEF disconnect
<1> QED BY <1>5, <1>6

LEMMA TypedStep ==
    ASSUME Typed, [WsNext]_wsVars
    PROVE  Typed'
<1>1. CASE Lose \/ UNCHANGED wsVars
  BY <1>1 DEF Lose, wsVars, Typed, WsTypeOK, SleepOK
<1>2. CASE Login
  BY <1>2, LoginTyped
<1>3. CASE Quit \/ disconnect
  BY <1>3, QuitTyped
<1>4. CASE Joined(Repl)
  BY <1>4, JoinedTyped DEF Thread
<1>5. ASSUME NEW t \in Id, Step(t) \/ Receive(t)
      PROVE  Typed'
  <2>1. t \in Thread
    BY DEF Thread
  <2> QED BY <1>5, <2>1, ReadTyped, RespawnTyped, ReconnectTyped, JoinedTyped DEF Step
<1> QED BY <1>1, <1>2, <1>3, <1>4, <1>5 DEF WsNext

----------------------------------------------------------------------------
(* The roles.                                                               *)

(* A thread at work is the reader or the reconnector of its place. *)
LEMMA AtWork ==
    ASSUME Typed, Sound, NEW t \in Id
    PROVE  /\ at[t] \in ReaderPlace => t = read_thread_ /\ ReaderAt(t)
           /\ at[t] \in ReconnectorPlace => t = reconnect_thread_ /\ ReconnectorAt(t)
           /\ at[t] \in Finished \cup {"unused"} => joining[t] = NoThread
BY DEF Sound, Roles, ReaderAt, ReconnectorAt, ReaderPlace, ReconnectorPlace, Finished

\* Nothing changes but the place of thread t.
Goes(t, next) ==
    /\ at' = [at EXCEPT ![t] = next]
    /\ UNCHANGED <<joining, read_thread_, reconnect_thread_>>
    /\ logins' = logins /\ terminated' = terminated

(* A thread of the client goes on to its next place. *)
LEMMA GoesKeeps ==
    ASSUME Typed, Sound, NEW t \in Id, NEW next, Goes(t, next), joining[t] = NoThread,
           \/ at[t] \in ReaderPlace /\ next \in (ReaderPlace \ {"respawn"}) \cup {"done"}
           \/ /\ at[t] \in ReconnectorPlace
              /\ next \in {"sleep", "joinReader", "connect"} \cup Finished
              /\ next = "connect" => read_thread_ = NoThread
    PROVE  Sound'
<1>1. /\ t \in Thread /\ t # Repl /\ Repl \in Thread
      /\ \A s \in Id : s \in Thread
  BY WsAssumption DEF Thread
<1>2. at'[t] = next /\ \A s \in Thread \ {t} : at'[s] = at[s]
  BY <1>1 DEF Goes, Typed, WsTypeOK
<1>3. {read_thread_, reconnect_thread_} \subseteq Id \cup {NoThread} /\ NoThread \notin Id
  BY WsAssumption DEF Typed, WsTypeOK
<1>4. \A o \in Id \cup {NoThread} : o # t /\ Ended(o) => Ended(o)'
  BY <1>1, <1>2 DEF Ended
<1>5. ASSUME NEW s \in Id
      PROVE  \/ at'[s] \in Finished \cup {"unused"} /\ joining'[s] = NoThread
             \/ s = read_thread_' /\ ReaderAt(s)'
             \/ s = reconnect_thread_' /\ ReconnectorAt(s)'
  <2>1. CASE s = t /\ at[t] \in ReaderPlace
    <3>1. t = read_thread_ /\ ReaderAt(t) /\ t # reconnect_thread_
      BY <1>3, <2>1, AtWork DEF Sound, Roles
    <3>2. Ended(reconnect_thread_)'
      BY <1>3, <1>4, <3>1 DEF ReaderAt, Goes, Ended
    <3>3. next \in (ReaderPlace \ {"respawn"}) \cup {"done"}
      BY <2>1 DEF ReaderPlace, ReconnectorPlace
    <3> QED BY <1>2, <2>1, <3>1, <3>2, <3>3 DEF ReaderAt, Goes, Finished, ReaderPlace
  <2>2. CASE s = t /\ at[t] \in ReconnectorPlace
    <3>1. t = reconnect_thread_ /\ ReconnectorAt(t) /\ t # read_thread_
      BY <1>3, <2>2, AtWork DEF Sound, Roles
    <3>2. Ended(read_thread_)'
      BY <1>3, <1>4, <3>1 DEF ReconnectorAt, Goes, Ended
    <3>3. /\ next \in {"sleep", "joinReader", "connect"} \cup Finished
          /\ next = "connect" => read_thread_ = NoThread
      BY <2>2 DEF ReaderPlace, ReconnectorPlace
    <3> QED BY <1>2, <2>2, <3>1, <3>2, <3>3 DEF ReconnectorAt, Goes, Finished, ReconnectorPlace
  <2>3. CASE s # t
    <3>1. at'[s] = at[s] /\ joining'[s] = joining[s]
      BY <1>1, <1>2, <2>3 DEF Goes
    <3>2. CASE at[s] \in Finished \cup {"unused"} /\ joining[s] = NoThread
      BY <3>1, <3>2
    <3>3. CASE s = read_thread_ /\ ReaderAt(s)
      <4>1. t # read_thread_ /\ at[t] \in ReconnectorPlace
        BY <2>3, <3>3, AtWork
      <4>2. t = reconnect_thread_ /\ at[t] \notin Finished
        BY <4>1, AtWork DEF ReconnectorPlace, Finished
      <4> QED BY <1>3, <3>3, <4>2 DEF ReaderAt, Ended
    <3>4. CASE s = reconnect_thread_ /\ ReconnectorAt(s)
      <4>1. t # reconnect_thread_ /\ at[t] \in ReaderPlace
        BY <2>3, <3>4, AtWork
      <4>2. t = read_thread_ /\ at[t] \notin Finished
        BY <4>1, AtWork DEF ReaderPlace, Finished
      <4> QED BY <1>3, <3>4, <4>2 DEF ReconnectorAt, Ended
    <3> QED BY <3>2, <3>3, <3>4 DEF Sound, Roles
  <2> QED BY <2>1, <2>2, <2>3
<1>6. at'[Repl] = "prompt" /\ joining'[Repl] = NoThread
  BY <1>1, <1>2 DEF Goes, Sound, Roles
<1>7. ~terminated'
  BY DEF Goes, Sound
<1> QED BY <1>5, <1>6, <1>7 DEF Sound, Roles, Goes

(* The reader begins to wait for the old reconnector, or the reconnector for *)
(* the reader that started it.                                               *)
LEMMA JoinKeeps ==
    ASSUME Typed, Sound, NEW t \in Id,
           \/ Runs(t, "rejoin") /\ Join(t, reconnect_thread_, "respawn")
           \/ JoinReader(t)
    PROVE  Sound'
<1>1. /\ t \in Thread /\ t # Repl /\ Repl \in Thread
      /\ \A s \in Id : s \in Thread
  BY WsAssumption DEF Thread
<1>2. /\ UNCHANGED <<read_thread_, reconnect_thread_, logins, terminated>>
      /\ \A s \in Thread \ {t} : at'[s] = at[s] /\ joining'[s] = joining[s]
      /\ at[t] \notin Finished
      /\ \/ /\ at[t] = "rejoin" /\ at'[t] = "respawn" /\ joining'[t] = reconnect_thread_
         \/ /\ at[t] = "joinReader" /\ at'[t] = "reset" /\ joining'[t] = read_thread_
  BY <1>1 DEF Join, JoinReader, Runs, Typed, WsTypeOK, Finished
<1>3. {read_thread_, reconnect_thread_} \subseteq Id \cup {NoThread} /\ NoThread \notin Id
  BY WsAssumption DEF Typed, WsTypeOK
<1>4. \A o \in Id \cup {NoThread} : Ended(o) => Ended(o)'
  BY <1>1, <1>2, <1>3 DEF Ended
<1>5. Ended(read_thread_) => Ended(read_thread_)'
  BY <1>2, <1>3, <1>4 DEF Ended
<1>6. Ended(reconnect_thread_) => Ended(reconnect_thread_)'
  BY <1>2, <1>3, <1>4 DEF Ended
<1>7. ASSUME NEW s \in Id
      PROVE  \/ at'[s] \in Finished \cup {"unused"} /\ joining'[s] = NoThread
             \/ s = read_thread_' /\ ReaderAt(s)'
             \/ s = reconnect_thread_' /\ ReconnectorAt(s)'
  <2>1. CASE s = t /\ at[t] = "rejoin"
    <3>1. t = read_thread_ /\ ReaderAt(t)
      BY <2>1, AtWork DEF ReaderPlace
    <3> QED BY <1>2, <1>6, <2>1, <3>1 DEF ReaderAt, ReaderPlace
  <2>2. CASE s = t /\ at[t] = "joinReader"
    <3>1. t = reconnect_thread_ /\ ReconnectorAt(t)
      BY <2>2, AtWork DEF ReconnectorPlace
    <3> QED BY <1>2, <1>5, <2>2, <3>1 DEF ReconnectorAt, ReconnectorPlace
  <2>3. CASE s # t
    <3>1. at'[s] = at[s] /\ joining'[s] = joining[s]
      BY <1>1, <1>2, <2>3
    <3> QED BY <1>2, <1>5, <1>6, <3>1 DEF Sound, Roles, ReaderAt, ReconnectorAt
  <2> QED BY <1>2, <2>1, <2>2, <2>3
<1>8. at'[Repl] = "prompt" /\ joining'[Repl] = NoThread
  BY <1>1, <1>2 DEF Sound, Roles
<1> QED BY <1>2, <1>7, <1>8 DEF Sound, Roles

(* A join returns: the object still holds the thread that was waited for. *)
LEMMA JoinedKeeps ==
    ASSUME Typed, Sound, NEW t \in Thread, Joined(t)
    PROVE  Sound'
<1>1. /\ Repl \in Thread /\ NoThread \notin Id /\ \A s \in Id : s \in Thread
      /\ {read_thread_, reconnect_thread_} \subseteq Id \cup {NoThread}
  BY WsAssumption DEF Thread, Typed, WsTypeOK
<1>2. t \in Id /\ joining[t] # NoThread
  BY DEF Joined, Sound, Roles, Thread
<1>3. /\ at' = at /\ logins' = logins
      /\ joining'[t] = NoThread /\ \A s \in Thread \ {t} : joining'[s] = joining[s]
  BY DEF Joined, Typed, WsTypeOK
<1>4. \/ /\ t = read_thread_ /\ ReaderAt(t) /\ at[t] = "respawn"
         /\ joining[t] = reconnect_thread_
      \/ /\ t = reconnect_thread_ /\ ReconnectorAt(t) /\ at[t] = "reset"
         /\ joining[t] = read_thread_
  BY <1>2 DEF Sound, Roles, ReaderAt, ReconnectorAt
<1>5. ~terminated'
  BY <1>4 DEF Joined
<1>6. read_thread_ # reconnect_thread_
  BY <1>2, <1>4 DEF Sound, Roles
<1>7. CASE t = read_thread_ /\ ReaderAt(t) /\ at[t] = "respawn" /\ joining[t] = reconnect_thread_
  <2>1. reconnect_thread_' = NoThread /\ read_thread_' = t
    BY <1>6, <1>7 DEF Joined
  <2>2. ASSUME NEW s \in Id
        PROVE  \/ at'[s] \in Finished \cup {"unused"} /\ joining'[s] = NoThread
               \/ s = read_thread_' /\ ReaderAt(s)'
    <3>1. CASE s = t
      BY <1>3, <1>7, <2>1, <3>1 DEF ReaderAt, Ended
    <3>2. CASE s # t
      <4>1. ~(s = reconnect_thread_ /\ ReconnectorAt(s))
        BY <1>2, <1>7 DEF ReaderAt, ReconnectorAt, Ended, ReconnectorPlace, Finished
      <4> QED BY <1>1, <1>3, <1>7, <3>2, <4>1 DEF Sound, Roles
    <3> QED BY <3>1, <3>2
  <2> QED BY <1>1, <1>2, <1>3, <1>5, <2>1, <2>2, <1>7 DEF Sound, Roles
<1>8. CASE /\ t = reconnect_thread_ /\ ReconnectorAt(t) /\ at[t] = "reset"
           /\ joining[t] = read_thread_
  <2>1. read_thread_' = NoThread /\ reconnect_thread_' = t
    BY <1>6, <1>8 DEF Joined
  <2>2. ASSUME NEW s \in Id
        PROVE  \/ at'[s] \in Finished \cup {"unused"} /\ joining'[s] = NoThread
               \/ s = reconnect_thread_' /\ ReconnectorAt(s)'
    <3>1. CASE s = t
      BY <1>3, <1>8, <2>1, <3>1 DEF ReconnectorAt, Ended
    <3>2. CASE s # t
      <4>1. ~(s = read_thread_ /\ ReaderAt(s))
        BY <1>2, <1>8 DEF ReaderAt, ReconnectorAt, Ended, ReaderPlace, Finished
      <4> QED BY <1>1, <1>3, <1>8, <3>2, <4>1 DEF Sound, Roles
    <3> QED BY <3>1, <3>2
  <2> QED BY <1>1, <1>2, <1>3, <1>5, <2>1, <2>2, <1>8 DEF Sound, Roles
<1> QED BY <1>4, <1>7, <1>8

(* The reader, having joined the old reconnector, starts a new one and ends. *)
LEMMA SpawnKeeps ==
    ASSUME Typed, Sound, NEW t \in Id, Runs(t, "respawn"), NEW n \in Fresh,
           reconnect_thread_' = n, at' = [at EXCEPT ![t] = "done", ![n] = "sleep"],
           terminated' = (reconnect_thread_ # NoThread),
           UNCHANGED <<joining, read_thread_, logins>>
    PROVE  Sound'
<1>1. /\ Repl \in Thread /\ t # Repl /\ \A s \in Id : s \in Thread /\ s # Repl
      /\ n \in Id /\ n # read_thread_ /\ NoThread \notin Id
  BY WsAssumption DEF Thread, Fresh
<1>2. t = read_thread_ /\ ReaderAt(t) /\ joining[t] = NoThread
  BY AtWork DEF Runs, ReaderPlace
<1>3. reconnect_thread_ = NoThread
  BY <1>2 DEF ReaderAt, Runs
<1>4. /\ at'[n] = "sleep" /\ at'[t] = "done"
      /\ \A s \in Thread \ {t, n} : at'[s] = at[s]
  BY <1>1, <1>2 DEF Typed, WsTypeOK
<1>5. joining[n] = NoThread
  BY <1>1, AtWork DEF Fresh
<1>6. ASSUME NEW s \in Id
      PROVE  \/ at'[s] \in Finished \cup {"unused"} /\ joining'[s] = NoThread
             \/ s = reconnect_thread_' /\ ReconnectorAt(s)'
  <2>1. CASE s = t
    BY <1>2, <1>4, <2>1 DEF Finished
  <2>2. CASE s = n
    BY <1>2, <1>4, <1>5, <2>2 DEF ReconnectorAt, ReconnectorPlace, Ended, Finished
  <2>3. CASE s # t /\ s # n
    <3>1. at[s] \in Finished \cup {"unused"} /\ joining[s] = NoThread
      BY <1>1, <1>2, <1>3, <2>3 DEF Sound, Roles
    <3> QED BY <1>1, <1>4, <2>3, <3>1
  <2> QED BY <2>1, <2>2, <2>3
<1>7. at'[Repl] = "prompt" /\ joining'[Repl] = NoThread
  BY <1>1, <1>4 DEF Sound, Roles
<1>8. logins' # 0
  BY <1>1, <1>2 DEF Sound, Roles
<1>9. ~terminated'
  BY <1>3
<1> QED BY <1>1, <1>6, <1>7, <1>8, <1>9 DEF Sound, Roles

(* connect starts a reader, the first or after the old one was joined. *)
LEMMA ConnectKeeps ==
    ASSUME Typed, Sound, NEW t \in Thread, NEW next, ConnectOk(t, next), logins' # 0,
           \/ t = Repl /\ next = "prompt" /\ logins = 0
           \/ t \in Id /\ at[t] = "connect" /\ next = "done"
    PROVE  Sound'
<1>1. /\ Repl \in Thread /\ NoThread \notin Id /\ \A s \in Id : s \in Thread /\ s # Repl
  BY WsAssumption DEF Thread
<1>2. PICK n \in Fresh : read_thread_' = n /\ at' = [at EXCEPT ![t] = next, ![n] = "loop"]
  BY DEF ConnectOk
<1>3. n \in Id /\ n # reconnect_thread_ /\ at[n] \in Finished \cup {"unused"}
  BY DEF Fresh
<1>4. t # n /\ joining[n] = NoThread
  BY <1>1, <1>3, AtWork DEF Finished
<1>5. /\ at'[n] = "loop" /\ at'[t] = next
      /\ \A s \in Thread \ {t, n} : at'[s] = at[s]
  BY <1>1, <1>2, <1>3, <1>4 DEF Typed, WsTypeOK
<1>6. /\ read_thread_ = NoThread
      /\ t = Repl => reconnect_thread_ = NoThread
      /\ t \in Id => t = reconnect_thread_ /\ joining[t] = NoThread
  <2>1. CASE t = Repl /\ logins = 0
    BY <1>1, <2>1 DEF Sound, Roles
  <2>2. CASE t \in Id /\ at[t] = "connect"
    BY <1>1, <2>2, AtWork DEF ReconnectorAt, ReconnectorPlace
  <2> QED BY <1>1, <2>1, <2>2
<1>7. /\ UNCHANGED <<joining, reconnect_thread_>> /\ ~terminated'
  BY <1>6 DEF ConnectOk
<1>8. Ended(reconnect_thread_)'
  BY <1>1, <1>5, <1>6, <1>7 DEF Ended, Finished
<1>9. ASSUME NEW s \in Id
      PROVE  \/ at'[s] \in Finished \cup {"unused"} /\ joining'[s] = NoThread
             \/ s = read_thread_' /\ ReaderAt(s)'
  <2>1. CASE s = n
    BY <1>2, <1>4, <1>5, <1>7, <1>8, <2>1 DEF ReaderAt, ReaderPlace
  <2>2. CASE s = t
    BY <1>1, <1>5, <1>6, <1>7, <2>2 DEF Finished
  <2>3. CASE s # n /\ s # t
    <3>1. at[s] \in Finished \cup {"unused"} /\ joining[s] = NoThread
      BY <1>1, <1>6, <2>3 DEF Sound, Roles, Thread
    <3> QED BY <1>1, <1>5, <1>7, <2>3, <3>1
  <2> QED BY <2>1, <2>2, <2>3
<1>10. at'[Repl] = "prompt" /\ joining'[Repl] = NoThread
  BY <1>1, <1>3, <1>5, <1>7 DEF Sound, Roles
<1> QED BY <1>2, <1>3, <1>7, <1>9, <1>10 DEF Sound, Roles

LEMMA UndisturbedStep ==
    ASSUME Typed, WsNext, Undisturbed'
    PROVE  Undisturbed /\ ~Quit
<1>1. logins \in Nat /\ MaxLogins \in Nat
  BY WsAssumption DEF Typed, WsTypeOK
<1>2. CASE Login
  BY <1>1, <1>2 DEF Login, ConnectOk, ConnectFails, Undisturbed, Quit
<1>3. CASE Lose
  BY <1>3 DEF Lose, Undisturbed, Quit
<1>4. ASSUME NEW t \in Thread, Joined(t) PROVE Undisturbed /\ stop_' = stop_
  BY <1>4 DEF Joined, Undisturbed
<1>5. ASSUME NEW t \in Id, readLoop(t) \/ Receive(t) PROVE Undisturbed /\ stop_' = stop_
  BY <1>5 DEF readLoop, Receive, Others, Undisturbed
<1>6. ASSUME NEW t \in Id, Respawn(t) PROVE Undisturbed /\ stop_' = stop_
  BY <1>6 DEF Respawn, Join, Undisturbed
<1>7. ASSUME NEW t \in Id, reconnectLoop(t) PROVE Undisturbed /\ stop_' = stop_
  BY <1>7 DEF reconnectLoop, JoinReader, Join, ConnectOk, ConnectFails, Others, Undisturbed
<1>8. CASE disconnect
  BY <1>8 DEF disconnect, Join, Others, Undisturbed, Quit
<1>9. ~Quit
  BY DEF Quit, Undisturbed
<1>10. Repl \in Thread /\ \A t \in Id : t \in Thread
  BY DEF Thread
<1> QED BY <1>2, <1>3, <1>4, <1>5, <1>6, <1>7, <1>8, <1>9, <1>10 DEF WsNext, Step

LEMMA ReadKeeps ==
    ASSUME Typed, Sound, NEW t \in Id, readLoop(t) \/ Receive(t)
    PROVE  Sound'
<1>1. /\ joining[t] = NoThread /\ at[t] \in {"loop", "read", "lost"}
      /\ \E next \in {"loop", "read", "done", "lost", "rejoin"} : Goes(t, next)
  BY DEF readLoop, Receive, Runs, Goto, Others, Goes
<1> QED BY <1>1, GoesKeeps DEF ReaderPlace

LEMMA ReconnectKeeps ==
    ASSUME Typed, Sound, NEW t \in Id, reconnectLoop(t)
    PROVE  Sound'
<1>1. CASE JoinReader(t)
  BY <1>1, JoinKeeps
<1>2. CASE Runs(t, "sleep") /\ Goto(t, IF stop_ THEN "done" ELSE "joinReader") /\ Others
  <2>1. /\ joining[t] = NoThread /\ at[t] \in ReconnectorPlace
        /\ \E next \in {"done", "joinReader"} : Goes(t, next)
    BY <1>2 DEF Runs, Goto, Others, Goes, ReconnectorPlace
  <2> QED BY <2>1, GoesKeeps DEF Finished
<1>3. CASE Runs(t, "reset") /\ Goto(t, "connect") /\ Others
  <2>1. /\ joining[t] = NoThread /\ at[t] = "reset" /\ at[t] \in ReconnectorPlace
        /\ Goes(t, "connect")
    BY <1>3 DEF Runs, Goto, Others, Goes, ReconnectorPlace
  <2>2. read_thread_ = NoThread
    BY <2>1, AtWork DEF ReconnectorAt
  <2> QED BY <2>1, <2>2, GoesKeeps
<1>4. CASE Runs(t, "connect") /\ ConnectOk(t, "done") /\ logins' = logins
  <2>1. at[t] = "connect" /\ t \in Thread
    BY <1>4 DEF Runs, Thread
  <2>2. logins # 0
    BY <2>1, AtWork, WsAssumption DEF ReconnectorPlace, Sound, Roles
  <2> QED BY <1>4, <2>1, <2>2, ConnectKeeps
<1>5. CASE /\ Runs(t, "connect") /\ logins' = logins
           /\ ConnectFails(t, IF MayRetry(t) THEN "sleep" ELSE "gaveUp")
  <2>1. /\ joining[t] = NoThread /\ at[t] \in ReconnectorPlace
        /\ \E next \in {"sleep", "gaveUp"} : Goes(t, next)
    BY <1>5 DEF Runs, ConnectFails, Goes, ReconnectorPlace
  <2> QED BY <2>1, GoesKeeps DEF Finished
<1> QED BY <1>1, <1>2, <1>3, <1>4, <1>5 DEF reconnectLoop

LEMMA LoginKeeps ==
    ASSUME Typed, Sound, Login, Undisturbed'
    PROVE  Sound'
<1>1. Repl \in Thread /\ logins \in Nat
  BY WsAssumption DEF Thread, Typed, WsTypeOK
<1>2. CASE ConnectOk(Repl, "prompt") /\ logins' = logins + 1
  <2>1. logins = 0 /\ logins' # 0
    BY <1>1, <1>2 DEF Undisturbed
  <2> QED BY <1>1, <1>2, <2>1, ConnectKeeps
<1>3. CASE ConnectFails(Repl, "prompt") /\ logins' = IF logins = 0 THEN 0 ELSE logins + 1
  <2>1. at' = at
    BY <1>1, <1>3 DEF ConnectFails, Sound, Roles, Typed, WsTypeOK
  <2>2. UNCHANGED <<joining, read_thread_, reconnect_thread_, terminated>>
    BY <1>3 DEF ConnectFails
  <2>3. logins' = 0 => logins = 0
    BY <1>1, <1>3
  <2> QED BY <2>1, <2>2, <2>3 DEF Sound, Roles, ReaderAt, ReconnectorAt, Ended
<1> QED BY <1>2, <1>3 DEF Login

LEMMA SoundStep ==
    ASSUME Typed, Sound, WsNext, ~Quit, Undisturbed'
    PROVE  Sound'
<1>1. CASE Lose
  BY <1>1 DEF Lose, Sound, Roles, ReaderAt, ReconnectorAt, Ended
<1>2. CASE Login
  BY <1>2, LoginKeeps
<1>3. CASE disconnect
  BY <1>3 DEF disconnect, Runs, Sound, Roles
<1>4. ASSUME NEW t \in Thread, Joined(t) PROVE Sound'
  BY <1>4, JoinedKeeps
<1>5. ASSUME NEW t \in Id, Respawn(t) PROVE Sound'
  BY <1>5, JoinKeeps, SpawnKeeps DEF Respawn
<1>6. Repl \in Thread /\ \A t \in Id : t \in Thread
  BY DEF Thread
<1> QED BY <1>1, <1>2, <1>3, <1>4, <1>5, <1>6, ReadKeeps, ReconnectKeeps DEF WsNext, Step

LEMMA WsInvInductive == WsInv /\ [WsNext]_wsVars => WsInv'
<1> SUFFICES ASSUME WsInv, [WsNext]_wsVars PROVE WsInv'
  OBVIOUS
<1>1. Typed /\ Typed'
  BY TypedStep DEF WsInv
<1>2. CASE WsNext
  <2>1. ASSUME Undisturbed' PROVE Sound'
    <3>1. Undisturbed /\ ~Quit
      BY <1>1, <1>2, <2>1, UndisturbedStep
    <3> QED BY <1>1, <1>2, <2>1, <3>1, SoundStep DEF WsInv
  <2> QED BY <1>1, <2>1 DEF WsInv
<1>3. CASE UNCHANGED wsVars
  BY <1>1, <1>3 DEF WsInv, wsVars, Undisturbed, Sound, Roles, ReaderAt, ReconnectorAt, Ended
<1> QED BY <1>2, <1>3

LEMMA WsInvInitially == WsInit => WsInv
<1> SUFFICES ASSUME WsInit PROVE WsInv
  OBVIOUS
<1>1. Repl \in Thread /\ Repl \notin Id /\ \A t \in Id : t \in Thread
  BY WsAssumption DEF Thread
<1>2. Typed
  BY <1>1, WsAssumption DEF WsInit, Typed, WsTypeOK, SleepOK, Place
<1>3. Sound
  BY <1>1 DEF WsInit, Sound, Roles
<1> QED BY <1>2, <1>3 DEF WsInv

LEMMA WsInvAlways == WsSpec => []WsInv
BY WsInvInitially, WsInvInductive, PTL DEF WsSpec

(* The state of WsClient is well formed and no reconnector makes more than
   kMaxRetries attempts (ws_client.cpp:109), whatever the user, the network
   and the threads do. *)
THEOREM WsTypeCorrect == WsSpec => []WsTypeOK
<1>1. WsInv => WsTypeOK
  BY DEF WsInv, Typed
<1> QED BY <1>1, WsInvAlways, PTL

(* Reader and reconnector never misuse a std::thread object, however often
   the connection goes and comes back, until the user quits or logs in
   again (ws_client.cpp:67-68, 90-96, 118-128). *)
THEOREM ThreadObjectsWellUsed == WsSpec => []ThreadsWellUsed
<1>1. WsInv => ThreadsWellUsed
  BY DEF WsInv, Undisturbed, Sound, ThreadsWellUsed
<1> QED BY <1>1, WsInvAlways, PTL
=============================================================================
