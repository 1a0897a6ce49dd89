------------------------------ MODULE Accounts ------------------------------
(***************************************************************************)
(* The HTTPS side of the backend: HttpServer and its sessions (backend/    *)
(* api/), the routes, AuthService, UserStore and Jwt (backend/auth/), the  *)
(* TURN credentials that go out on WebSockets, and the clients that use    *)
(* all this (client_cli/src/http/).  A connection carries one request or   *)
(* becomes a WebSocket.  The handlers of all connections are run by a pool *)
(* of worker threads; a worker is held while a handler runs, and the       *)
(* handler of a finished write waits in shutdown() for the client's own.   *)
(***************************************************************************)
EXTENDS Integers, FiniteSets

CONSTANTS
    Conn,       \* connections
    Name, Password,
    None,       \* no value
    Workers,    \* threads in ioc.run(), at least 2
    Lazy,       \* connections whose client never closes by itself
    TokenTTL,   \* token_ttl_seconds
    TurnTTL,    \* TurnConfig::ttl
    MaxTime     \* bound: the clock

ASSUME AccountsAssumption ==
    /\ Workers \in Nat /\ Workers >= 2
    /\ Lazy \subseteq Conn /\ Cardinality(Lazy) < Workers
    /\ TokenTTL \in Nat /\ TurnTTL \in Nat /\ MaxTime \in Nat
    /\ None \notin Password /\ "error" \notin Password
    /\ None \notin [op : {"register", "login"}, user : Name, password : Password]

VARIABLES
    users,      \* the table users: the password whose hash a name has
    conn,       \* each connection: where its handler is, request and response
    now,        \* the clock, in seconds
    madeAt      \* history: when a request with a token was made

accountsVars == <<users, conn, now, madeAt>>

NewConn == [phase |-> "none", request |-> None, status |-> 0, result |-> None]

AccountsInit ==
    /\ users = [n \in Name |-> None]
    /\ conn = [c \in Conn |-> NewConn]
    /\ now = 0
    /\ madeAt = [c \in Conn |-> 0]

LoggedIn == {c \in Conn : conn[c].status = 200 /\ conn[c].request.op = "login"}

Tokens == {conn[c].result : c \in LoggedIn}

\* A client that presents a token has it from a login, or has a bad one.
Requests ==
    [op : {"register", "login"}, user : Name, password : Password]
        \cup [op : {"credentials", "upgrade"}, token : Tokens \cup {None}]
        \cup [op : {"other"}]

----------------------------------------------------------------------------
(* Clients: HttpClient::post and get.                                       *)

\* Connection, handshake and request; the server has read the request.
ClientSends(c) ==
    /\ conn[c].phase = "none"
    /\ \E r \in Requests :
          /\ conn' = [conn EXCEPT ![c] = [phase |-> "request", request |-> r,
                                          status |-> @.status, result |-> @.result]]
          /\ madeAt' = IF "token" \in DOMAIN r THEN [madeAt EXCEPT ![c] = now] ELSE madeAt
    /\ UNCHANGED <<users, now>>

\* The client has the response and shuts the connection down, or is gone
\* with or without it, and the worker's shutdown() returns.  A client whose
\* response is lost may send its request again, on another connection.  Or
\* the WebSocket ends, in whatever way.
ClientCloses(c) ==
    /\ conn[c].phase \in {"shutdown", "ws"}
    /\ conn' = [conn EXCEPT ![c].phase = "done"]
    /\ UNCHANGED <<users, now, madeAt>>

----------------------------------------------------------------------------
(* Worker threads: http_server.cpp and the routes.                          *)

Held == {c \in Conn : conn[c].phase \in {"insert", "verified", "shutdown", "died"}}

WorkerFree == Cardinality(Held) < Workers

\* The handler returns, and the response is being written.
Respond(c, status, result) ==
    conn' = [conn EXCEPT ![c] = [phase |-> "writing", request |-> @.request,
                                 status |-> status, result |-> result]]

\* Mutant of Raise: nothing catches what a handler throws.
RaiseUncaught(c) == conn' = [conn EXCEPT ![c].phase = "died"]

\* handle_request catches what a handler throws.
Raise(c) == Respond(c, 500, None)

\* Mutant of verify: the time of expiry is not looked at.
verifyForever(token) == token # None

\* Jwt::verify; a token that login did not sign is not accepted.
verify(token) == token # None /\ now <= token.exp

sign(user) == [user |-> user, exp |-> now + TokenTTL]

\* What findUser may give: the row; no row, also when the step fails; or an
\* exception.
findUser(user) == {users[user], None, "error"}

\* addUser looks the name up first; every error of the store is a 409.
register_(c) ==
    /\ conn[c].request.op = "register"
    /\ \E found \in findUser(conn[c].request.user) :
          \/ found = None /\ conn' = [conn EXCEPT ![c].phase = "insert"]
          \/ found # None /\ Respond(c, 409, None)

\* Only LoginError is a 401.
login(c) ==
    /\ conn[c].request.op = "login"
    /\ \E found \in findUser(conn[c].request.user) :
          \/ found = "error" /\ Raise(c)
          \/ found = conn[c].request.password
                /\ Respond(c, 200, sign(conn[c].request.user))
          \/ found \notin {"error", conn[c].request.password} /\ Respond(c, 401, None)

\* The route of TURN credentials verifies the token first ...
credentials(c) ==
    /\ conn[c].request.op = "credentials"
    /\ \/ verify(conn[c].request.token) /\ conn' = [conn EXCEPT ![c].phase = "verified"]
       \/ ~verify(conn[c].request.token) /\ Respond(c, 401, None)

\* The stream goes to WsServer::accept, which drops it without an answer
\* when the token does not verify, and never looks at the token again.
upgrade(c) ==
    /\ conn[c].request.op = "upgrade"
    /\ conn' = [conn EXCEPT ![c] = LET ok == verify(@.request.token) IN
                    [phase |-> IF ok THEN "ws" ELSE "done", request |-> @.request,
                     status |-> IF ok THEN 101 ELSE 0, result |-> @.result]]

\* An unknown route, or a body without the fields: 404 or 400.
other(c) == conn[c].request.op = "other" /\ Respond(c, 404, None)

handle_request(c) ==
    /\ conn[c].phase = "request" /\ WorkerFree
    /\ register_(c) \/ login(c) \/ credentials(c) \/ upgrade(c) \/ other(c)
    /\ UNCHANGED <<users, now, madeAt>>

Credential(user) == [user |-> user, expiry |-> now + TurnTTL]

\* ... and then reads the clock again to date the credential.
issue(c) ==
    /\ conn[c].phase = "verified"
    /\ Respond(c, 200, Credential(conn[c].request.token.user))
    /\ UNCHANGED <<users, now, madeAt>>

\* onCallAccept makes a credential for each party of a call, and it goes out
\* on the party's WebSocket (which one, when there are several: Signaling).
generateRtcConfig(c) ==
    /\ conn[c].phase = "ws" /\ WorkerFree
    /\ conn' = [conn EXCEPT ![c].result = Credential(conn[c].request.token.user)]
    /\ UNCHANGED <<users, now, madeAt>>

\* Mutant of Inserted: the row is replaced.
InsertedAnyway(r) == users' = [users EXCEPT ![r.user] = r.password]

\* The INSERT goes through only when the primary key is not there.
Inserted(r) == users[r.user] = None /\ users' = [users EXCEPT ![r.user] = r.password]

\* addUser's second statement, after any number of steps of other workers.
Insert(c) ==
    /\ conn[c].phase = "insert"
    /\ \/ Inserted(conn[c].request) /\ Respond(c, 200, None)
       \/ UNCHANGED users /\ Respond(c, 409, None)
    /\ UNCHANGED <<now, madeAt>>

\* The write has completed or failed; its handler calls shutdown().
Written(c) ==
    /\ conn[c].phase = "writing" /\ WorkerFree
    /\ conn' = [conn EXCEPT ![c].phase = "shutdown"]
    /\ UNCHANGED <<users, now, madeAt>>

ServerStep(c) == handle_request(c) \/ Insert(c) \/ issue(c) \/ Written(c)

Tick ==
    /\ now < MaxTime
    /\ now' = now + 1
    /\ UNCHANGED <<users, conn, madeAt>>

AccountsNext ==
    \/ \E c \in Conn :
          ClientSends(c) \/ ClientCloses(c) \/ ServerStep(c) \/ generateRtcConfig(c)
    \/ Tick

AccountsSpec == AccountsInit /\ [][AccountsNext]_accountsVars

\* A worker takes the oldest ready handler, so every handler gets its turn
\* while workers come free now and then; HttpClient always shuts down.
AccountsFairSpec ==
    /\ AccountsSpec
    /\ \A c \in Conn : SF_accountsVars(ServerStep(c))
    /\ \A c \in Conn \ Lazy : WF_accountsVars(ClientCloses(c))

----------------------------------------------------------------------------

AccountRequest(c) ==
    conn[c].request # None /\ conn[c].request.op \in {"register", "login"}

Register == INSTANCE AccountRegister WITH
    Client <- Conn,
    account <- users,
    asked <- [c \in Conn |-> IF AccountRequest(c) THEN conn[c].request ELSE None],
    answer <- [c \in Conn |-> IF ~AccountRequest(c) \/ conn[c].status = 0 THEN "none"
                              ELSE IF conn[c].status = 200 THEN "granted" ELSE "refused"]

(* Concurrent registrations and logins, whose lookup and INSERT are separate
   statements (user_store.cpp:57-77) that other workers come between and
   that may fail, look like single steps: one registration of a name is
   granted, ever, and its password is the one that logs in. *)
ImplementsRegister == Register!RegisterSpec

\* A token got a client past a check.
LetIn(c) ==
    /\ conn[c].status \in {101, 200}
    /\ conn[c].request.op \in {"credentials", "upgrade"}

(* Nobody is let in without the password, or on a login that is too old:
   who gets a TURN credential by the route (routes.cpp:75-111) or has a
   WebSocket (ws_server.cpp:79-113) is a user who logged in with the
   password of the account, and his request was made before the token of
   that login expired; and the credentials that rtc.config messages bring
   later on the WebSocket, when the token may have expired long ago
   (routes.cpp:22-42, router.cpp:106-118), are his too. *)
AccessNeedsLogin ==
    \A c \in Conn : LetIn(c) =>
        \E d \in LoggedIn :
            /\ conn[d].request.password = users[conn[d].request.user]
            /\ madeAt[c] <= conn[d].result.exp
            /\ conn[c].result # None => conn[c].result.user = conn[d].request.user

(* Every request gets its answer, or its WebSocket, although
   workers wait in shutdown() for clients (http_server.cpp:93-98), as long
   as fewer clients than workers keep their connections open. *)
RequestsAnswered ==
    \A c \in Conn : conn[c].phase = "request" ~> conn[c].phase \in {"shutdown", "ws", "done"}
============================================================================
