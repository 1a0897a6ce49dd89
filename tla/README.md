# A TLA+ model of the call system

The repository is a voice-call system: a signalling **backend** (HTTPS/WSS),
a **TURN server** that relays all media, and a **command-line client** built
on libdatachannel. This directory holds TLA+ modules that model its core
logic, TLC configurations that check them on small instances, and TLAPS
proofs, for instances of every size, of most of what the runs check. `PROJECT.json`
lists the runs, the source lines behind each definition, the findings and the
hazards the properties are aimed at.

Check a run with `tlc -config <cfg> <module>`, a proof with `tlapm <module>.tla`.

## 1. Inventory

| Component (source) | State | Operations | What is hard | What makes it correct |
|---|---|---|---|---|
| `calls::CallManager` (`backend/calls`) | table of call sessions | create, accept, reject, hangup, expireRinging, isBusy | races between pool threads for one call | a user is in one call at most; a call leaves the table however it ends |
| `Router`, `WsServer`, `WsSession`, expire timer (`backend/signaling`, `backend/main.cpp`) | map user → connection, timer | one handler per message type, accept, close, send | sends happen after the unlock; connections are replaced and closed late; failed writes | everyone is told, once, how a call ended; messages about a call come in a usable order; a connected user is reachable |
| `AllocationManager`, `Allocation`, permission table (`turn_server/src/allocation`) | allocations, two indexes, port table, permissions and channels with expiry | Allocate, Refresh, CreatePermission, ChannelBind, Send, peer data | long sequences of requests; expiry; partial failure of a request | tables agree; quotas; one channel per peer; no way into denied ranges |
| `TurnDispatcher`, `LongTermCred`, `NonceManager` (`turn_server/src/core`, `auth`) | nonces, current transport | onPacket: authenticate, dispatch, channel data | expiring nonces and credentials; four transports | only the owner changes an allocation; data arrives under the right channel and on the right transport |
| Client call logic (`client_cli/src/main.cpp`, `cli/commands.cpp`, `signaling/message_handler.cpp`, `rtc/`) | session.call, the peer connection, the clean-up flag | commands, messages, callbacks | three threads without a lock; notices cross commands | client and backend agree on calls; nobody is left in a call that is over |
| `WsClient` (`client_cli/src/signaling/ws_client.cpp`) | stream, two threads, flags | connect, readLoop, reconnectLoop, disconnect | threads that start and join one another | no misuse of a thread object; no deadlock; the client recovers or gives up |
| `JitterBuffer` (`client_cli/src/audio`) | ring of samples | write, read, clear | wrap-around with blocks of any length | a bounded queue that drops the newest and pads with silence |
| `Capture`, `Playback`, WAV files, and the lambdas of `client_cli/src/main.cpp` that make and unmake them | two threads, two devices, recording buffer | start, stop, record, mute, sendfile; set-up and clean-up of a call | five threads and two small mutexes; a new call's set-up against the old one's clean-up | no thread object misused, no endless join, recordings without gaps |
| TURN transports (`turn_server/src/transport`) | sockets, sessions by endpoint, partial frames, DTLS locks | accept, handshake, framed reads, send, removal | partial reads, padding, 16-bit lengths; late completions; one thread for all | messages come out as they went in; a live session is reachable |
| STUN codec (`turn_server/src/message`) | none | build, parse, ChannelData | lengths and padding | parsing undoes building |
| `HttpServer`, routes, `AuthService`, `Jwt`, `UserStore` (`backend/api`, `backend/auth`), `HttpClient` | users in SQLite, connections, pool of workers | register, login, credentials, upgrade | lookup and insertion in two statements; handlers that wait for clients | one account per name; no access without a login; every request is answered |
| REPL and parser, crypto, config, log | | | | not modelled |

**Interaction.** A client logs in over HTTPS and opens a WebSocket. A message
on it runs a `Router` handler on a thread of the backend's pool, which calls
`CallManager` (under its mutex) and then `WsServer::send` for each recipient
(each under another mutex). After `call.accept` both clients get `rtc.config`
and negotiate through `webrtc.*` messages that the router relays; the media
goes through TURN allocations made with credentials from that `rtc.config`.
The backend and the TURN server share no state but the secret of the credentials.

## 2. Modules

| Module | Models | Composed of |
|---|---|---|
| `CallManager` | the call table | |
| `CallLines` | *abstract:* one telephone line per user | refined by `CallManager` |
| `Signaling` | Router, WebSocket sessions, timer | extends `CallManager` |
| `AllocationManager` | TURN allocations | |
| `TurnDispatcher` | credentials, nonces, dispatch, channel data | extends `AllocationManager` |
| `Client` | the call logic of every user's client | extends `CallManager` for its constants |
| `CallSystem` | clients and backend together | extends `Client`, and `CallManager` through it |
| `WsClient` | the client's connection threads | |
| `JitterBuffer` | the sample ring | |
| `SampleQueue` | *abstract:* bounded queue of samples | refined by `JitterBuffer` |
| `Audio` | Capture, Playback, set-up and clean-up of a call in one client | extends `JitterBuffer` |
| `StunCodec` | the byte formats, built and parsed | |
| `XorCodec` | masked addresses | extends `StunCodec` |
| `Transports` | TCP, TLS and DTLS sessions | extends `StunCodec` |
| `Accounts` | HTTP server, routes, user store, tokens, TURN credentials | |
| `AccountRegister` | *abstract:* accounts as a linearizable register | refined by `Accounts` |
| `CallManagerProofs`, `AccountsProofs`, `WsClientProofs`, `TransportsProofs` | theorems | extend the module they are about |
| `SignalingProofs`, `CallSystemProofs` | theorems | extend their module and `CallManagerProofs` |
| `TurnDispatcherProofs` | theorems, those of AllocationManager included | extends `TurnDispatcher` |
| `AudioProofs` | theorems, those of JitterBuffer included | extends `Audio` |
| `MC*` | instances for TLC | extend the module they check |

How state and steps correspond to the code:

- **CallManager.** `sessions` is `sessions_`; every public operation runs under
  `mutex_` and is one action. An exception is an `...Error` operator that the
  callers read. `createdAt` is the field `age`, which saturates one tick past
  the timeout, all that its only reader distinguishes. `Ended` sessions never
  survive the lock and do not appear.
- **Signaling.** A connection reads its next message only when the handler of
  the last has returned, so there is one logical thread per connection and one
  for the timer, whichever pool thread runs it. A handler is its table operation
  followed by `pending` sends, each a step of its own. `reg` is
  `WsServer::sessions_`; `Connect` registers before the handshake is answered,
  as `accept` does; `removeSession` erases by user name, as the code does. A
  write to a stream that is not open completes with an error later
  (`WriteFailed`) and removes the session. Two `async_write` calls on one
  stream may overlap in the code, which Beast leaves undefined: a message
  on an open stream arrives or is lost. `sent`, `over` and `knows` are history.
- **AllocationManager.** Allocations are indexed by `next_id_`; `by_client` and
  `by_relay` are the two maps, 0 for no entry. `out` is what the handler
  returned or sent. Time left replaces time points. The lifetime of an
  allocation is absent: `isExpired` has no caller, so allocations live until a
  Refresh with lifetime 0. Addresses carry only the range they lie in.
- **TurnDispatcher.** One io thread, so `onPacket` is one step. A request says
  which credentials it bears and whether its integrity attribute verifies.
  `last` is history: the last packet and whose credentials it bore. Packets are
  the same whichever transport they come from.
- **Client.** REPL thread, WebSocket reader and libdatachannel's thread share
  `session.call`, `pc` and `call_cleanup_done` without a lock. A step is what one
  of them does between two points where it may be overtaken. `call` assigns, then
  sends (`Call`, `Create`); the other commands send, then assign (`Command`,
  `Assign`). `at` says where the reader and libdatachannel's thread are: inside
  `cleanupCall` after the exchange of the flag, while `stopAudio` joins threads, so
  that `CleanupEnd` closes whatever `pc` is by then and forgets whatever call the
  session has by then; inside `initRtc` between the close of the old connection
  (`handleRtcConfig`) and the new one (`initRtc`); or in `onFailed` between its
  hangup (`Failed`) and its clean-up (`onFailed`). libdatachannel
  is external: a peer connection records whose description was applied and the
  state it last reported. A description for a handler that has been reset
  follows a null pointer (`run = "crashed"`).
- **CallSystem.** Client and the router's handlers over ordered channels
  `up`/`down`. A handler is its table operation, which leaves its messages in
  `pending`, from which `Send` takes one at a time; every other thread of the
  backend and of the clients may run in between. Only a tick of the clock waits
  until no handler is halfway (`NoneSending`).
- **WsClient.** `std::thread` objects are variables that hold a thread identity;
  `Join` and `Joined` are the two halves of `join()`. Assigning to, destroying or
  joining an object in a state the standard forbids sets `terminated`. `logins`
  counts the login commands from the first that connects on.
- **JitterBuffer.** Each operation holds `mutex_`; its loop is written as the
  function it leaves behind.
- **Audio.** The capture thread's loop is one step per shared access: the test
  of `running_`, the read, the test of `recording_`, the insertion under
  `record_mutex_`, the callback's test of the peer connection and its use.
  `cleanupCall` and `initRtc` are lists of steps (`CleanupSteps`, `InitSteps`)
  that the WebSocket or the rtc thread works off, a join being a step that waits.
  `fate` names what two threads did to each other: lambdas that overlap without a
  lock, a peer connection destroyed under the capture callback, an assignment
  to a joinable `std::thread`; a behaviour ends there. Frames are numbers, so that
  a recording shows which it has; `record.from` and `record.id` are history. A
  device works, fails at any read or write, or is absent. A WAV file is the
  samples in it. libdatachannel calls back one callback at a time.
- **StunCodec, XorCodec.** Sequences of bytes. The two bytes of a length are
  digits in base `LenRadix`, 256 in the code, so that a model reaches the largest
  length; nothing else depends on it. Addresses are masked bit by bit, with
  `Bitwise`, which the prover does not know: they have a module of their own and
  reach `Transports` as the bytes of an attribute.
- **Transports.** TCP and TLS differ in the handshake and share their actions. A
  session is the read it waits for (`phase`), what it has read of the message
  (`buf`) and the bytes under way (`wire`); a read completes when all its
  bytes are there. Handing a packet to the dispatcher may send one packet on the
  same transport. A `std::mutex` locked twice by the io thread blocks it
  (`io`), an exception that nothing catches ends it, and so may a read past the
  buffer of a ChannelData whose padded length wrapped (`OverRead`), which otherwise
  hands on what lies there.
- **Accounts.** A connection carries one request and is where its handler is:
  `request`, `insert` (between the two statements of `addUser`), `verified` (between
  the check of a token and the dating of the credential, which read the clock
  apart), `writing`, `shutdown`, `ws` (it has become a WebSocket, on which
  `generateRtcConfig` may bring a credential at any time), `done`. A worker is held
  in `insert`, `verified` and `shutdown`, which waits for the client. Any statement
  may fail. A token is its user and its time of expiry; clients present tokens that
  a login gave out, or bad ones. `madeAt`, when a request with a token was made, is
  history.

## 3. Runs

| Run | Checks | Shows |
|---|---|---|
| `call_table` | `CallTypeOK`, `OneCallPerUser`, `ImplementsLines`, `RingingEnds` | the table; each operation (expiry in batches too) is one step on users' lines; unanswered calls stop ringing |
| `call_notices` | `SigTypeOK`, `EndNoticeOwed`, `TerminalNoticeOnce`, `ConfigAfterAnnouncement` | hangup, reject and timer race while a user reconnects; each party is told once; `rtc.config` never overtakes the announcement of its call |
| `caller_learns` | `CallerLearnsOutcome` | the caller is told in the end, through broken connections |
| `turn_dispatch` | `AllocTypeOK`, `IndexesAgree`, `QuotaHolds`, `ChannelsInjective`, `DeniedNeverPermitted`, `ReverseChannelNamesSender`, `OwnerOnly` | the three tables agree; quota; permissions and channels through renewal, expiry and refused requests; only the owner's credentials change an allocation; relayed channel data bears the receiver's number for the sender |
| `system_calls` | `SystemTypeOK`, `RingingIsReal`, `NamedCallsExist` | two calls in a row, the threads of clients and backend interleaving at every send and inside clean-up and set-up, with ICE candidates, a media path or a connection lost, and clients quitting, at any point: a client left ringing rings for a call that it was called in, and the call that a client names once all is still is one of the backend's that it takes part in |
| `ws_threads` | `WsTypeOK`, `ThreadsWellUsed`, `Recovers`, `QuitEnds` | losing and re-establishing the connection, and quitting at any point of it |
| `audio` | `JitterTypeOK`, `ImplementsQueue`, `OnlyNewCallsCollide`, `PlaybackThreadJoined`, `JoinsStoppedThreads`, `RecordingsWhole` | the ring is a bounded queue; teardowns never collide with one another, only with the set-up of a new call; joins end except when a remote track comes in the midst of one; recordings are whole |
| `transports` | `FramesIntact`, `SessionsReachable` | parsing what was framed undoes building, up to the lengths that overflow `padded`; who loses his session |
| `accounts` | `ImplementsRegister`, `AccessNeedsLogin`, `RequestsAnswered` | registrations and logins are linearizable through errors; a credential or a WebSocket goes back to a login with the account's password, made use of in time; nobody waits for ever behind lazy clients |

Three runs expect a violation: they state what a document or a test says and TLC
shows the code doing otherwise. They are described under *findings* in
`PROJECT.json`:

| Run | What TLC shows |
|---|---|
| `still_connected` | the late close of an old connection makes a reconnected user unreachable |
| `system_refused` | a caller is refused after an earlier clean-up, `cleanupCall` does nothing and the client stays Calling: TLC has two users call each other at once, so that the clean-up of the one who is refused sets the flag; his next call, while the other's still rings, is refused in vain |
| `system_media_loss` | after Disconnected both clients are Idle and both users busy |

**Bounds, and why they are enough.** Two users are the parties of a call; the
fourth user and third call of `call_table` let two calls coexist while a third
follows on an ended one. In Signaling one call has all the races for it, and
three connections let a user reconnect while the other stays. `RingTimeout` 0
or 1 has a call that is not yet, just and long overdue. Two clients and two
usernames with a quota of one exceed it, and share two ports; `MaxId` 3
re-uses a port while the other is in use. Two peers in one CreatePermission put
a permitted one before and after a denied one. TTLs of 1 and 2 let a
permission expire before its channel does. In `turn_dispatch` one tick makes
a nonce, a credential, permissions and channels expire, and the second nonce
and the second user carry on. Two calls in `system_calls` let an old peer
connection and old notices meet the next call, and `MaxPc` 2 an old connection the
new one. `MaxInputs` counts what comes from outside: commands, candidates and lost
connections; four are a call, its answer and two more of either user, enough
for a hangup that crosses a reject, a second call, or a quit. `MaxTerm` counts media
and connection failures: one at any point of a behaviour in `system_calls`, one on
each side in `system_media_loss`. Four thread identities are
re-used, so the number of reconnects is unbounded. A ring of two places with
blocks of up to two, written and read, wraps at both offsets, overfills by a part
of a block and runs dry in the middle of one. Two calls are an old and a new one
in `audio`, two frames a run of frames and a late one; `RingOrMicrophone` follows
the samples in the ring and the frames of the microphone, which share no
variable, one at a time. With
`LenRadix` 6 lengths are 0 to 35; payloads of 1 and 33 bytes are padded and
overflow, attributes of 8, 1 and 0 bytes are padded and not; two connections of
one endpoint are an old and a new one, and a client may be gone with its last
byte missing. In `accounts` three connections are two registrations that race and
a login, or a registration, a login and a use of its token; `TokenTTL` 0 and one tick
are the last second of a token and the one after it, and the tick may fall between the
request, the check, the dating and the credentials that follow on a WebSocket. `CHECK_DEADLOCK FALSE` appears
where identifiers, connections, logins or ticks run out, or where the program
has exited.

Restrictions a reader should know. `RingingIsReal` and `NamedCallsExist` leave out
two kinds of client (`Misled`): one that has lost its connection, and a notice with
it; and one whose earlier connection failed into a later call, so that `onFailed` hangs
that call up while its clean-up finds the flag set, or sets it just before the new
connection is there (section 5). Both speak of a client when all is still (`Quiet`):
on the way there it may name a call that is over. They do not say that every live
call is known to its parties: a late notice of an old call makes a client drop the
next one, since `message_handler.cpp:65-75` ignores the call id, and a caller may
hang up before `call.created` has come. `Clock` waits for the sends of a handler,
which take far less than a tick of `RingTimeout`. `FramesIntact` exempts a stream from
its first overlong message on, and `SessionsReachable` an endpoint that has carried
another connection. `ThreadsWellUsed`,
`Recovers` and `QuitEnds` speak of one login (the run has a second one too, which
assigns to a joinable thread object while connected), the first also of the time before
quit; and `TurnDispatcher` does not exhaust nonces in a real system's sense, its
store is cut by the set `Nonce`.

**Fairness.** `CallFairSpec`: the clock moves, and the timer, re-armed after each
run (`main.cpp:116-127`), runs. `SigFairness`: a handler that has started makes
its sends, completions of failed reads and writes run, since the pool's threads
never block for ever; users, the network and new connections owe nothing.
`WsFairSpec`: threads that can run do; nobody owes the client a message, a lost
connection or a quit, and `connect` returns or throws. `AccountsFairSpec`: the
pool's queue is first in, first out, so a handler whose turn comes again and
again whenever a worker is free gets it (strong fairness of a connection's
server step); the client program shuts its connection down after every response
(`http_client.cpp:66-69, 100-103`), which the model demands of all connections
but those in `Lazy`, and there are fewer of those than workers. With as many,
`RequestsAnswered` fails: each holds a worker (`http_server.cpp:97`).

## 4. Proofs

TLAPS proves the theorems below for every value of the constants that satisfies
the named assumptions, which TLC evaluates on the runs' instances:
`RingTimeoutAssumption`, `AllocAssumption`, `DispatcherAssumption`,
`JitterAssumption`, `AudioAssumption`, `WsAssumption`, `ClientAssumption`,
`SignalingAssumption`, `AccountsAssumption`,
`LenRadixAssumption`, `TransportAssumption` and `PacketsAssumption`. They give the
bounds their types and keep the model's markers (`NoConn`, `NoThread`, `NoCall`,
`None`, "error") apart from real values; the proofs of Accounts use neither
`Workers` nor `Lazy`. `PacketsAssumption` says more: a TURN message is one that
`parse` reads back from what `build` wrote. For lists of attributes of every length
that takes an induction over data, which the prover does not have; TLC evaluates it
on the messages of the run.
Each invariant was a run of TLC before it was proved.

| Theorem | Statement | Argument |
|---|---|---|
| `CallTypeCorrect` | `CallSpec => []CallTypeOK` | inductive as it stands; `Calls \subseteq issued` is what makes a fresh id fresh for the table |
| `UsersHaveOneCall` | `CallSpec => []OneCallPerUser` | inductive together with the type invariant: only `create` adds a session, and `createError` = "none" says that neither party is in one |
| `TableIsLines` | `CallSpec => ImplementsLines` | with one call per user the line of a user is determined by his session; one lemma per operation says whose lines change, and expiry frees the lines of a whole batch in one step |
| `ServerDrivesTable` | `SigSpec => CallSpec` | each handler calls one operation of the table or none, so all that is proved of the table holds behind the router |
| `SigTypeCorrect`, `EndNoticesOwed`, `TerminalNoticesOnce`, `ConfigsAfterAnnouncement` | the properties of Signaling | `SigInv`, below |
| `AllocTypeCorrect`, `TablesAgree` | the tables are typed and agree | inductive together: a deletion clears the entries it should only because the indexes agreed before it, and a fresh id is unused because ids stay below `next_id` |
| `QuotaIsKept` | `AllocSpec => []QuotaHolds` | needs table agreement, so that a new allocation adds exactly one client to `UserAllocs`, and finiteness of that set, which is bounded by the ids issued |
| `NumbersAreUnique`, `DeniedStaysDenied` | `[]ChannelsInjective`, `[]DeniedNeverPermitted` | stated per allocation and shown for each way an allocation changes (new, permitted, bound, aged) |
| `TurnServerSound` | the five invariants above, of `TurnSpec` | a step of the dispatcher changes the manager's state by one of its actions or not at all |
| `OwnersOnly` | `TurnSpec => OwnerOnly` | an action property. `authenticate` = "Ok" says that the request bears the username of the allocation looked up by its sender; the handlers touch no other, because the indexes agree |
| `ChannelsNameSenders` | `TurnSpec => []ReverseChannelNamesSender` | the relayed data is the last thing done, so it is true of the state it was sent from; later steps that keep `out` keep the tables |
| `SystemTypeCorrect`, `RingingCallsAreReal`, `NamedCallsAreReal` | the properties of CallSystem | `SystemInv`, below |
| `WsTypeCorrect`, `ThreadObjectsWellUsed` | the safety properties of WsClient | `WsInv`, below |
| `AccessAlwaysNeedsLogin` | `AccountsSpec => []AccessNeedsLogin` | `AccountsInv`: a token that is presented was issued by a login whose answer stands, the password of an account never changes, a request is made no later than it is checked, and what is handed out afterwards names the user of the token that was checked |
| `AccountsAreRegistered` | `AccountsSpec => ImplementsRegister` | under the mapping of `Accounts`, the answer to an account's request is its linearization point; the insertion that loses the race, or fails, maps to a refusal, and every step before an answer to a stutter |
| `RingAgrees` | `JitterSpec => []JitterTypeOK` | lemmas on `%` for sums below twice the capacity; then `write`, `read` and `clear` keep `write_pos_` = `read_pos_` + `available_` modulo the capacity |
| `RingIsQueue` | `JitterSpec => ImplementsQueue` | the queue is the ring read from `read_pos_` on; the two pieces of a block that wraps are compared place by place |
| `BufferInUse`, `LoudspeakerIsQueue` | `AudioSpec => JitterSpec`, `AudioSpec => ImplementsQueue` | the client's threads touch the ring only through its operations |
| `NewCallsCollide`, `StartsJoinedThreads`, `JoinsEnd`, `SavedRecordings` | the properties of Audio, `RecordingsWhole` as an action property | `AudioInv`, below |
| `SessionsFound` | `TransportSpec => []SessionsReachable` | inductive with the types: a session enters the map when its connection is up, and leaves it when it ends, unless the entry is another's |
| `FramesKept` | `TransportSpec => []FramesIntact` | `Frame`, below |

**`SigInv`.** The properties are about messages that were sent or that a thread
still has to send, so the invariant follows each message from the moment a
handler puts it into `pending`. A terminal notice, pending or sent, is of a call
that has left the table (`MsgOK`), and the erase under the lock makes one handler
put it there (`OnceOK`, `OwedOK`). `ConfigAfterAnnouncement` needs a detour: only
the callee's accept makes an `rtc.config`, the callee can name the call only if he
`knows` it from a `call.incoming` that was sent (`KnowsOK`), and the same handler
sent `call.created` before it (`OrderOK`).

**`SystemInv`.** A client rings, or names a call, on what it was told some time
ago, and forgets it on what it will be told. Of one client and its threads the
invariant says what the flag is worth (`TeardownOK`): up to the first peer connection
a set flag without a clean-up under way means that there is no connection, and none
is there between the halves of `initRtc`; from the second on it means nothing, which is
where `Misled` comes from. Of the news of a call: whoever has not been told of it cannot
name it (`NamesOK`), so that no accept or hangup overtakes the announcement, and the
announcements still in `pending` are of fresh calls (`PendingOK`), so that the timer
cannot have taken them. A `call.incoming` or `call.created` under way is of a
call in the table or is followed, in the same queue or in the sends of some handler, by
a message that makes the client drop it (`DownOK`, `NewsOK`, `EndComes`). A client that
rings for a call or names one is a party of it in the table, or such a message comes, or
one of its own threads is about to forget the call (`RingOK`, `CalledOK`, `Forgets`);
and a client that has asked for the end of the call it names is about to forget it
(`AskedOK`). When all is still, nothing comes and nothing is about to be forgotten,
which leaves the table.

**`WsInv`.** `Roles`: of the reader and the reconnector at most one is at work, the
object of the other holds a thread that has ended or none, and whoever joins
waits for the thread that the object holds. It is kept as long as the user neither
quits nor logs in again, and no longer: both break it.

**`AudioInv`.** While nothing has gone wrong (`fate` "fine"), `Flow` says where a
thread is in the list of steps of its lambda and what is true there: after which
step the capture or the playback thread is told to stop, joined, let go; that two
clean-ups are never at work (`Sole`); and that a playback thread nobody joined
belongs to the `stop` that waits for it (`UnjoinedOK`). `RecordOK` says that the buffer
covers the frames since the recording began, up to the one in the capture
thread's hand. When two threads have collided (`EndOK`) the three safety properties
hold of the collision, and nothing happens after it.

**`Frame`.** A connection's bytes are those of its messages one after the
other; `Layout` gives each message its place in the whole stream. While a session is in
step, its buffer and the bytes under way are the stream from the end of the last
message handed on (`Ahead`), so the length it reads is the length that was written. The
first message whose padded length overflows is the last of which anything is known. The
lemmas underneath are about bytes: digits of a length, the first byte that tells a TURN
message from ChannelData, `Padded` below the overflow.

Only model-checked:

- liveness under fairness, which is out of the prover's reach: `RingingEnds`,
  `CallerLearnsOutcome`, `Recovers`, `QuitEnds`, `RequestsAnswered`;
- that `parse` undoes `build` for every list of attributes (induction over data, see
  `PacketsAssumption`).

`handlePeerData` has no caller in the server, so no run fires it; the theorems of
AllocationManager cover it.

## 5. Not modelled, and the plan

Not modelled: JSON and HTTP syntax, hashes, signatures and the inside of SQLite,
OpenSSL and libdatachannel; the layout of WAV headers; the line editor and the
parser of the command line; configuration and logging; delays between reconnect
attempts. The transports and the dispatcher are checked apart: a dispatcher with
one session table per transport is past what a run can explore. The UDP transport
has no state beside its socket. The allocations that nobody refreshes, the nonces
nobody cleans up and the DTLS sessions nobody removes stay for ever in the code
and in the models.

Behaviour of the code that the models have, that no property forbids, and that
a maintainer may want to know of:

- a user who loses his connection in an accepted call and reconnects stays busy
  until the other party hangs up, as a close ends no call (`ws_server.cpp:95`);
- the allocation quota is per username, `<expiry>:<userId>`, so a user with two
  credentials has two quotas (`allocation_manager.cpp:107`), and 508 may be
  answered while a port is free (`allocation_manager.cpp:36`);
- `call_cleanup_done` is set by the first clean-up and reset by `initRtc` only, so a
  later clean-up may do nothing: a refused caller stays Calling (`system_refused`,
  `client_cli/src/main.cpp:72, 184-188`);
- a clean-up that waits in `stopAudio` while the reader runs `initRtc` for the next
  call closes the new connection and forgets the new call; and one that sets the flag
  between `initRtc`'s reset and its new connection leaves a live connection that
  the next clean-up will not close (`main.cpp:71-93`). Both are reached within the bounds
  of `system_calls`. The documentation speaks in 10.9 of a flag that excludes a double
  reset («исключающий двойной сброс состояния»): it does for one connection, not
  across two;
- the callbacks of an old connection read and write the call of the session, whichever
  it is by then: its failure hangs the next call up, and its offer or answer may go
  out under the next call's id, so that connections of two calls are paired
  (`main.cpp:96-105`, `sdp_handler.cpp:18-36`);
- `call.ended` and `call.failed` reset the call whatever call they name
  (`message_handler.cpp:65-75`), so that a late notice of an old call drops the next
  one for the party that it reaches, while the backend keeps both users busy;
- a caller who hangs up before `call.created` has arrived names no call, and the
  callee rings until the timer fires (`commands.cpp:103`), or accepts, and may then
  be in an active call that its caller has forgotten and only he can end;
- `hangup` leaves the peer connection running, and its state changes rewrite the
  call that comes after (`commands.cpp:107`, `peer_connection.cpp:72`);
- `quit` while a reconnector is at work joins `read_thread_` from two threads, or
  destroys a joinable thread object (`ws_client.cpp:118, 163`);
- a second `login` while connected assigns to a joinable `read_thread_`; one that
  comes while a reconnector is at work starts a reader which, losing its connection,
  joins the reconnector that is about to join it (`ws_client.cpp:67, 93, 118`);
- a DTLS client that is sent an answer to its own packet, as every request is,
  stops the TURN server: `feed` holds the session's mutex that `send` takes
  (`dtls_transport.cpp:49, 86`); relaying between two DTLS clients does not. The
  documentation lists DTLS among the transports (1.3);
- a connection reset before it is accepted ends the TURN server
  (`tcp_transport.cpp:15`, `tls_transport.cpp:18`), and a ChannelData length above
  65532 shifts the framing of its connection and has the dispatcher read past a buffer
  of a few bytes (`tcp_transport.cpp:82, 89, 100`);
- relayed data leaves on the transport of the packet in hand
  (`turn_dispatcher.cpp:22`), so between clients of different transports it is
  dropped, as `send` finds no session;
- a local `hangup` leaves the capture thread running, so that the next call's
  `initRtc` may destroy the peer connection under it (`main.cpp:86-88, 125-133`);
- a remote track that arrives in the midst of `Playback::stop` ends the program
  or makes the join endless (`playback.cpp:79-90`); whether teardown always ends is
  therefore stated as `JoinsStoppedThreads` and not as liveness;
- `mute` sets a flag of the session that nothing in the audio path reads, as
  `Capture::setMuted` has no caller; `sendfile` writes into the local
  loudspeaker's buffer; only `createOffer` sets `audio_track_`, so the callee's
  capture callback sends nothing (`commands.cpp:116`, `main.cpp:127, 170`,
  `peer_connection.cpp:105`);
- a registration whose reply was lost is refused when it is repeated, and so is one
  that met an error of the store (`routes.cpp:128`);
- a WebSocket that was opened with a token stays open after the token's end, and every
  `rtc.config` on it brings a fresh TURN credential without a look at the token
  (`routes.cpp:22-42`, `router.cpp:106-118`), so that a login gives access to the relay
  for as long as the connection is kept.

Order of the further work, the most important behaviour first:

1. *Composition:* the dispatcher over the session tables of two transports, for
   the data that leaves on the wrong one.
2. *Audio in the system:* the audio objects beside both clients of CallSystem, so
   that a hangup on one side meets the set-up on the other.
