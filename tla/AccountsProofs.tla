--------------------------- MODULE AccountsProofs ---------------------------
(***************************************************************************)
(* Proofs about Accounts, for every number of connections, names,          *)
(* passwords and workers.  AccountsInv is inductive: PhaseOK says what the *)
(* request and the status of a connection have to do with its phase,       *)
(* GrantOK that a login shows the password, and TokenOK that whoever a     *)
(* token let in asked before it expired.                                   *)
(***************************************************************************)
EXTENDS Accounts, TLAPS

Phase == {"none", "request", "insert", "verified", "writing", "shutdown", "ws", "done"}

Token == [user : Name, exp : Nat]

AccountRequests == [op : {"register", "login"}, user : Name, password : Password]

TokenRequests == [op : {"credentials", "upgrade"}, token : Token \cup {None}]

Asked == AccountRequests \cup TokenRequests \cup [op : {"other"}]

ConnType == [phase : Phase, request : Asked \cup {None}, status : Nat,
             result : {None} \cup Token \cup [user : Name, expiry : Nat]]

AccountsTypeOK ==
    /\ users \in [Name -> Password \cup {None}]
    /\ conn \in [Conn -> ConnType]
    /\ now \in Nat
    /\ madeAt \in [Conn -> Nat]

\* A request is there from the first phase on, an answer after the last
\* step of the handler; addUser and the route of credentials have two steps.
PhaseOK(r) ==
    /\ r.phase = "none" => r.request = None
    /\ r.phase # "none" => r.request \in Asked
    /\ r.phase \in {"none", "request", "insert", "verified"} => r.status = 0
    /\ r.phase = "insert" => r.request.op = "register"
    /\ r.phase = "verified" => r.request.op = "credentials"
    /\ r.phase = "ws" => r.request.op = "upgrade" /\ r.status = 101
    /\ r.status = 0 => r.result = None

\* A granted login shows the password of the account, for good.
GrantOK(r, accounts) ==
    r.phase # "none" /\ r.status = 200 /\ r.request.op = "login" =>
        /\ r.result \in Token
        /\ r.result.user = r.request.user
        /\ accounts[r.request.user] = r.request.password

\* A token that is presented was issued; a request that it let in was made
\* before it expired, and what is handed out is its user's.
TokenOK(r, tokens, made) ==
    r.phase # "none" /\ r.request.op \in {"credentials", "upgrade"} =>
        /\ r.request.token \in tokens \cup {None}
        /\ r.phase = "verified" \/ r.status \in {101, 200} =>
              /\ r.request.token # None /\ made <= r.request.token.exp
              /\ r.result # None => r.result.user = r.request.token.user

AccountsInv ==
    /\ AccountsTypeOK
    /\ \A c \in Conn : /\ PhaseOK(conn[c])
                       /\ GrantOK(conn[c], users)
                       /\ TokenOK(conn[c], Tokens, madeAt[c])
                       /\ madeAt[c] <= now

(* A step of one connection keeps the invariant when the new record of the
   connection is in order, an answer that was given stays, and no account
   that there is changes. *)
LEMMA StepKeeps ==
    ASSUME AccountsInv, NEW c \in Conn, NEW r \in ConnType,
           conn' = [conn EXCEPT ![c] = r], now' = now,
           users' \in [Name -> Password \cup {None}],
           \A n \in Name : users[n] # None => users'[n] = users[n],
           conn[c].status = 200 =>
               r.status = 200 /\ r.request = conn[c].request /\ r.result = conn[c].result,
           madeAt' \in [Conn -> Nat], madeAt'[c] <= now,
           \A d \in Conn \ {c} : madeAt'[d] = madeAt[d],
           PhaseOK(r), GrantOK(r, users'), TokenOK(r, Tokens, madeAt'[c])
    PROVE  AccountsInv'
<1>1. /\ conn \in [Conn -> ConnType] /\ now \in Nat
      /\ users \in [Name -> Password \cup {None}]
  BY DEF AccountsInv, AccountsTypeOK
<1>2. AccountsTypeOK'
  BY <1>1 DEF AccountsTypeOK
<1>3. /\ conn'[c] = r
      /\ \A d \in Conn \ {c} : conn'[d] = conn[d]
  BY <1>1
<1>4. Tokens \subseteq Tokens'
  <2> SUFFICES ASSUME NEW d \in Conn, conn[d].status = 200, conn[d].request.op = "login"
               PROVE  conn[d].result \in Tokens'
    BY DEF Tokens, LoggedIn
  <2>1. /\ conn'[d].status = 200 /\ conn'[d].request.op = "login"
        /\ conn'[d].result = conn[d].result
    BY <1>3
  <2> QED BY <2>1 DEF Tokens, LoggedIn
<1>5. ASSUME NEW d \in Conn
      PROVE  PhaseOK(conn'[d]) /\ GrantOK(conn'[d], users') /\ TokenOK(conn'[d], Tokens', madeAt'[d])
  <2>1. CASE d = c
    BY <1>3, <1>4, <2>1 DEF TokenOK
  <2>2. CASE d # c
    <3>1. conn'[d] = conn[d] /\ conn[d] \in ConnType /\ madeAt'[d] = madeAt[d]
      BY <1>1, <1>3, <2>2
    <3>2. PhaseOK(conn[d]) /\ GrantOK(conn[d], users) /\ TokenOK(conn[d], Tokens, madeAt[d])
      BY DEF AccountsInv
    <3>3. TokenOK(conn[d], Tokens', madeAt'[d])
      BY <1>4, <3>1, <3>2 DEF TokenOK
    <3>4. GrantOK(conn[d], users')
      <4> SUFFICES ASSUME conn[d].phase # "none", conn[d].status = 200,
                          conn[d].request.op = "login"
                   PROVE  /\ conn[d].result \in Token
                          /\ conn[d].result.user = conn[d].request.user
                          /\ users'[conn[d].request.user] = conn[d].request.password
        BY <3>1 DEF GrantOK
      <4>1. conn[d].request \in AccountRequests
        BY <3>2 DEF PhaseOK, Asked, TokenRequests, AccountRequests
      <4>2. /\ conn[d].request.user \in Name
            /\ conn[d].request.password # None
        BY <4>1, AccountsAssumption DEF AccountRequests
      <4> QED BY <3>2, <4>2 DEF GrantOK
    <3> QED BY <3>1, <3>2, <3>3, <3>4
  <2> QED BY <2>1, <2>2
<1>6. \A d \in Conn : madeAt'[d] <= now'
  BY DEF AccountsInv
<1> QED BY <1>2, <1>5, <1>6 DEF AccountsInv, PhaseOK

LEMMA SameTime ==
    ASSUME AccountsInv, NEW c \in Conn, madeAt' = madeAt
    PROVE  /\ madeAt' \in [Conn -> Nat] /\ madeAt'[c] <= now
           /\ \A d \in Conn \ {c} : madeAt'[d] = madeAt[d]
BY DEF AccountsInv, AccountsTypeOK

(* The step of a handler that touches neither the table nor the times. *)
LEMMA HandlerKeeps ==
    ASSUME AccountsInv, NEW c \in Conn, NEW r \in ConnType,
           conn' = [conn EXCEPT ![c] = r], UNCHANGED <<users, now, madeAt>>,
           conn[c].status # 200,
           PhaseOK(r), GrantOK(r, users'), TokenOK(r, Tokens, madeAt'[c])
    PROVE  AccountsInv'
<1>1. users' \in [Name -> Password \cup {None}]
  BY DEF AccountsInv, AccountsTypeOK
<1>2. /\ madeAt' \in [Conn -> Nat] /\ madeAt'[c] <= now
      /\ \A d \in Conn \ {c} : madeAt'[d] = madeAt[d]
  BY SameTime
<1> QED BY <1>1, <1>2, StepKeeps

(* A refused request of any kind. *)
LEMMA RefusalKeeps ==
    ASSUME AccountsInv, NEW c \in Conn, NEW status \in Nat \ {200},
           conn[c].phase \in {"request", "insert"},
           Respond(c, status, None), UNCHANGED <<users, now, madeAt>>, status \notin {0, 101}
    PROVE  AccountsInv'
<1> DEFINE r == [phase |-> "writing", request |-> conn[c].request,
                 status |-> status, result |-> None]
<1>1. conn' = [conn EXCEPT ![c] = r] /\ users' = users /\ now' = now /\ madeAt' = madeAt
  BY DEF Respond
<1>2. conn[c] \in ConnType /\ PhaseOK(conn[c]) /\ TokenOK(conn[c], Tokens, madeAt[c])
  BY DEF AccountsInv, AccountsTypeOK
<1>3. r \in ConnType
  BY <1>2 DEF ConnType, Phase
<1>4. PhaseOK(r) /\ TokenOK(r, Tokens, madeAt'[c])
  BY <1>2 DEF PhaseOK, TokenOK
<1>5. GrantOK(r, users')
  BY DEF GrantOK
<1>6. conn[c].status # 200
  BY <1>2 DEF PhaseOK
<1>7. users' \in [Name -> Password \cup {None}]
  BY DEF AccountsInv, AccountsTypeOK
<1> HIDE DEF r
<1> QED BY <1>1, <1>3, <1>4, <1>5, <1>6, <1>7, SameTime, StepKeeps

(* A step that moves a connection on without an answer. *)
LEMMA MoveKeeps ==
    ASSUME AccountsInv, NEW c \in Conn, NEW p \in Phase \ {"none"},
           conn[c].phase # "none",
           p \in {"insert", "shutdown", "done"},
           p = "insert" => conn[c].status = 0 /\ conn[c].request.op = "register",
           conn' = [conn EXCEPT ![c].phase = p], UNCHANGED <<users, now, madeAt>>
    PROVE  AccountsInv'
<1> DEFINE r == [conn[c] EXCEPT !.phase = p]
<1>1. conn[c] \in ConnType /\ PhaseOK(conn[c]) /\ GrantOK(conn[c], users) /\ TokenOK(conn[c], Tokens, madeAt[c])
  BY DEF AccountsInv, AccountsTypeOK
<1>2. /\ r \in ConnType /\ r.phase = p /\ r.request = conn[c].request
      /\ r.status = conn[c].status /\ r.result = conn[c].result
  BY <1>1 DEF ConnType
<1>3. conn' = [conn EXCEPT ![c] = r] /\ users' = users /\ now' = now /\ madeAt' = madeAt
  OBVIOUS
<1> HIDE DEF r
<1>4. PhaseOK(r)
  BY <1>1, <1>2 DEF PhaseOK
<1>5. GrantOK(r, users')
  BY <1>1, <1>2 DEF GrantOK
<1>6. TokenOK(r, Tokens, madeAt'[c])
  BY <1>1, <1>2 DEF TokenOK
<1>7. users' \in [Name -> Password \cup {None}]
  BY DEF AccountsInv, AccountsTypeOK
<1> QED BY <1>2, <1>3, <1>4, <1>5, <1>6, <1>7, SameTime, StepKeeps

(* The requests a client can make; a token in one has been issued. *)
LEMMA RequestsTyped ==
    ASSUME AccountsInv, NEW r \in Requests
    PROVE  /\ r \in Asked
           /\ r.op \in {"credentials", "upgrade"} => r.token \in Tokens \cup {None}
<1>1. CASE r \in [op : {"register", "login"}, user : Name, password : Password]
  BY <1>1 DEF Asked, AccountRequests
<1>2. CASE r \in [op : {"credentials", "upgrade"}, token : Tokens \cup {None}]
  <2>1. Tokens \subseteq Token
    <3> SUFFICES ASSUME NEW d \in Conn, conn[d].status = 200, conn[d].request.op = "login"
                 PROVE  conn[d].result \in Token
      BY DEF Tokens, LoggedIn
    <3>1. PhaseOK(conn[d]) /\ GrantOK(conn[d], users)
      BY DEF AccountsInv
    <3> QED BY <3>1 DEF PhaseOK, GrantOK
  <2> QED BY <1>2, <2>1 DEF Asked, TokenRequests
<1>3. CASE r \in [op : {"other"}]
  BY <1>3 DEF Asked
<1> QED BY <1>1, <1>2, <1>3 DEF Requests

LEMMA ClientSendsKeeps ==
    ASSUME AccountsInv, NEW c \in Conn, ClientSends(c)
    PROVE  AccountsInv'
<1>1. PICK q \in Requests :
          conn' = [conn EXCEPT ![c] = [phase |-> "request", request |-> q,
                                       status |-> conn[c].status,
                                       result |-> conn[c].result]]
  BY DEF ClientSends
<1> DEFINE r == [phase |-> "request", request |-> q,
                 status |-> conn[c].status, result |-> conn[c].result]
<1>2. /\ users' = users /\ now' = now /\ conn[c].phase = "none"
      /\ madeAt' = madeAt \/ madeAt' = [madeAt EXCEPT ![c] = now]
  BY DEF ClientSends
<1>3. conn[c] \in ConnType /\ PhaseOK(conn[c]) /\ users \in [Name -> Password \cup {None}]
  BY DEF AccountsInv, AccountsTypeOK
<1>4. conn[c].status = 0 /\ conn[c].status # 200 /\ conn[c].result = None
  BY <1>2, <1>3 DEF PhaseOK
<1>5. /\ q \in Asked
      /\ q.op \in {"credentials", "upgrade"} => q.token \in Tokens \cup {None}
  BY RequestsTyped
<1>6. r \in ConnType
  BY <1>3, <1>5 DEF ConnType, Phase
<1>7. PhaseOK(r)
  BY <1>4, <1>5 DEF PhaseOK
<1>8. GrantOK(r, users') /\ TokenOK(r, Tokens, madeAt'[c])
  BY <1>4, <1>5 DEF GrantOK, TokenOK
<1> HIDE DEF r
<1>9. conn' = [conn EXCEPT ![c] = r]
  BY <1>1 DEF r
<1>10. /\ madeAt' \in [Conn -> Nat] /\ madeAt'[c] <= now
       /\ \A d \in Conn \ {c} : madeAt'[d] = madeAt[d]
  <2>1. madeAt \in [Conn -> Nat] /\ now \in Nat
    BY DEF AccountsInv, AccountsTypeOK
  <2>2. CASE madeAt' = madeAt
    BY <2>2, SameTime
  <2>3. CASE madeAt' = [madeAt EXCEPT ![c] = now]
    BY <2>1, <2>3
  <2> QED BY <1>2, <2>2, <2>3
<1> QED BY <1>2, <1>3, <1>4, <1>6, <1>7, <1>8, <1>9, <1>10, StepKeeps

(* A login is granted on the password of the account. *)
LEMMA LoginKeeps ==
    ASSUME AccountsInv, NEW c \in Conn, conn[c].phase = "request", login(c),
           UNCHANGED <<users, now, madeAt>>
    PROVE  AccountsInv'
<1>0. conn[c] \in ConnType /\ PhaseOK(conn[c]) /\ users \in [Name -> Password \cup {None}]
      /\ now \in Nat
  BY DEF AccountsInv, AccountsTypeOK
<1>1. conn[c].request.op = "login" /\ conn[c].request \in AccountRequests
  BY <1>0 DEF login, PhaseOK, Asked, AccountRequests, TokenRequests
<1> DEFINE q == conn[c].request
<1>2. PICK found \in findUser(q.user) :
          \/ found = "error" /\ Raise(c)
          \/ found = q.password /\ Respond(c, 200, sign(q.user))
          \/ found \notin {"error", q.password} /\ Respond(c, 401, None)
  BY DEF login
<1>3. CASE Raise(c)
  BY <1>3, RefusalKeeps DEF Raise
<1>4. CASE Respond(c, 401, None)
  BY <1>4, RefusalKeeps
<1>5. CASE found = q.password /\ Respond(c, 200, sign(q.user))
  <2> DEFINE r == [phase |-> "writing", request |-> q, status |-> 200,
                   result |-> sign(q.user)]
  <2>1. q.user \in Name /\ q.password \in Password /\ q \in Asked
    BY <1>1 DEF AccountRequests, Asked
  <2>2. users[q.user] = q.password
    BY <1>5, <2>1, AccountsAssumption DEF findUser
  <2>3. sign(q.user) \in Token /\ sign(q.user).user = q.user
    BY <1>0, <2>1, AccountsAssumption DEF sign, Token
  <2>4. r \in ConnType
    BY <2>1, <2>3 DEF ConnType, Phase
  <2>5. PhaseOK(r) /\ GrantOK(r, users') /\ TokenOK(r, Tokens, madeAt'[c])
    BY <1>1, <2>1, <2>2, <2>3 DEF PhaseOK, GrantOK, TokenOK
  <2>6. conn[c].status # 200
    BY <1>0 DEF PhaseOK
  <2>7. conn' = [conn EXCEPT ![c] = r] /\ users' = users /\ now' = now /\ madeAt' = madeAt
    BY <1>5 DEF Respond
  <2> HIDE DEF r
  <2> QED BY <2>4, <2>5, <2>6, <2>7, HandlerKeeps
<1> QED BY <1>2, <1>3, <1>4, <1>5

(* A token lets a request in that was made before it expired. *)
LEMMA CredentialsKeeps ==
    ASSUME AccountsInv, NEW c \in Conn, conn[c].phase = "request", credentials(c),
           UNCHANGED <<users, now, madeAt>>
    PROVE  AccountsInv'
<1> DEFINE q == conn[c].request
<1>0. /\ conn[c] \in ConnType /\ PhaseOK(conn[c]) /\ TokenOK(conn[c], Tokens, madeAt[c])
      /\ users \in [Name -> Password \cup {None}] /\ now \in Nat
      /\ madeAt[c] \in Nat /\ madeAt[c] <= now
  BY DEF AccountsInv, AccountsTypeOK
<1>1. q.op = "credentials" /\ q \in TokenRequests
  BY <1>0 DEF credentials, PhaseOK, Asked, AccountRequests, TokenRequests
<1>2. CASE ~verify(q.token) /\ Respond(c, 401, None)
  BY <1>2, RefusalKeeps
<1>3. CASE verify(q.token) /\ conn' = [conn EXCEPT ![c].phase = "verified"]
  <2> DEFINE r == [conn[c] EXCEPT !.phase = "verified"]
  <2>1. q.token \in Token /\ q.token # None /\ now <= q.token.exp
    BY <1>1, <1>3 DEF verify, TokenRequests
  <2>2. madeAt[c] <= q.token.exp
    BY <1>0, <2>1 DEF Token
  <2>3. /\ r \in ConnType /\ r.phase = "verified" /\ r.request = q
        /\ r.status = conn[c].status /\ r.result = conn[c].result
    BY <1>0 DEF ConnType, Phase
  <2>4. conn' = [conn EXCEPT ![c] = r] /\ users' = users /\ now' = now /\ madeAt' = madeAt
    BY <1>3
  <2> HIDE DEF r
  <2>5. conn[c].status = 0 /\ conn[c].result = None
    BY <1>0 DEF PhaseOK
  <2>6. PhaseOK(r) /\ GrantOK(r, users') /\ TokenOK(r, Tokens, madeAt'[c])
    BY <1>0, <1>1, <2>1, <2>2, <2>3, <2>4, <2>5 DEF PhaseOK, GrantOK, TokenOK, Asked
  <2>7. r \in ConnType /\ conn[c].status # 200
    BY <2>3, <2>5
  <2> HIDE DEF q
  <2> QED BY <2>4, <2>6, <2>7, HandlerKeeps
<1> QED BY <1>2, <1>3 DEF credentials

LEMMA UpgradeKeeps ==
    ASSUME AccountsInv, NEW c \in Conn, conn[c].phase = "request", upgrade(c),
           UNCHANGED <<users, now, madeAt>>
    PROVE  AccountsInv'
<1> DEFINE q == conn[c].request
           ok == verify(q.token)
           phase == IF ok THEN "ws" ELSE "done"
           code == IF ok THEN 101 ELSE 0
           r == [phase |-> phase, request |-> q, status |-> code, result |-> conn[c].result]
<1>1. /\ conn[c] \in ConnType /\ PhaseOK(conn[c]) /\ TokenOK(conn[c], Tokens, madeAt[c])
      /\ users \in [Name -> Password \cup {None}] /\ now \in Nat
      /\ madeAt[c] \in Nat /\ madeAt[c] <= now
  BY DEF AccountsInv, AccountsTypeOK
<1>2. conn' = [conn EXCEPT ![c] = r] /\ users' = users /\ now' = now /\ madeAt' = madeAt
  BY DEF upgrade
<1>3. /\ q.op = "upgrade" /\ q \in Asked /\ q \in TokenRequests
      /\ conn[c].status = 0 /\ conn[c].result = None
  BY <1>1 DEF upgrade, PhaseOK, Asked, AccountRequests, TokenRequests
<1>4. ok => q.token # None /\ madeAt[c] <= q.token.exp
  <2> SUFFICES ASSUME verify(q.token) PROVE q.token # None /\ madeAt[c] <= q.token.exp
    OBVIOUS
  <2>1. q.token \in Token /\ q.token # None /\ now <= q.token.exp
    BY <1>3 DEF verify, TokenRequests
  <2> QED BY <1>1, <2>1 DEF Token
<1>5. \/ phase = "ws" /\ code = 101 /\ ok
      \/ phase = "done" /\ code = 0
  OBVIOUS
<1> HIDE DEF ok, phase, code
<1>6. r \in ConnType
  BY <1>1, <1>3, <1>5 DEF ConnType, Phase
<1>7. PhaseOK(r) /\ GrantOK(r, users') /\ TokenOK(r, Tokens, madeAt'[c])
  BY <1>1, <1>2, <1>3, <1>4, <1>5 DEF PhaseOK, GrantOK, TokenOK
<1>8. conn[c].status # 200
  BY <1>3
<1> HIDE DEF r, q
<1> QED BY <1>2, <1>6, <1>7, <1>8, HandlerKeeps

(* What is handed out to who was let in is his. *)
LEMMA CredentialTyped ==
    ASSUME AccountsInv, NEW c \in Conn, conn[c].phase \in {"verified", "ws"}
    PROVE  /\ Credential(conn[c].request.token.user) \in [user : Name, expiry : Nat]
           /\ Credential(conn[c].request.token.user).user = conn[c].request.token.user
           /\ conn[c].request \in TokenRequests
<1>1. /\ PhaseOK(conn[c]) /\ TokenOK(conn[c], Tokens, madeAt[c]) /\ now \in Nat
  BY DEF AccountsInv, AccountsTypeOK
<1>2. conn[c].request \in TokenRequests /\ conn[c].request.token # None
  BY <1>1 DEF PhaseOK, TokenOK, Asked, AccountRequests, TokenRequests
<1>3. conn[c].request.token \in Token
  BY <1>2 DEF TokenRequests
<1>4. conn[c].request.token.user \in Name /\ now + TurnTTL \in Nat
  BY <1>1, <1>3, AccountsAssumption DEF Token
<1> QED BY <1>2, <1>4 DEF Credential

LEMMA IssueKeeps ==
    ASSUME AccountsInv, NEW c \in Conn, issue(c)
    PROVE  AccountsInv'
<1> DEFINE q == conn[c].request
           cred == Credential(q.token.user)
           r == [phase |-> "writing", request |-> q, status |-> 200, result |-> cred]
<1>1. /\ PhaseOK(conn[c]) /\ TokenOK(conn[c], Tokens, madeAt[c])
      /\ users \in [Name -> Password \cup {None}] /\ conn[c].phase = "verified"
  BY DEF AccountsInv, AccountsTypeOK, issue
<1>2. /\ cred \in [user : Name, expiry : Nat] /\ cred.user = q.token.user
      /\ q \in TokenRequests /\ q \in Asked /\ q.op = "credentials" /\ conn[c].status = 0
  BY <1>1, CredentialTyped DEF PhaseOK
<1>3. conn' = [conn EXCEPT ![c] = r] /\ users' = users /\ now' = now /\ madeAt' = madeAt
  BY DEF issue, Respond
<1> HIDE DEF cred
<1>4. r \in ConnType
  BY <1>2 DEF ConnType, Phase
<1>5. PhaseOK(r) /\ GrantOK(r, users') /\ TokenOK(r, Tokens, madeAt'[c])
  BY <1>1, <1>2, <1>3 DEF PhaseOK, GrantOK, TokenOK
<1>6. conn[c].status # 200
  BY <1>2
<1> HIDE DEF r, q
<1> QED BY <1>1, <1>3, <1>4, <1>5, <1>6, SameTime, StepKeeps

LEMMA RtcConfigKeeps ==
    ASSUME AccountsInv, NEW c \in Conn, generateRtcConfig(c)
    PROVE  AccountsInv'
<1> DEFINE q == conn[c].request
           cred == Credential(q.token.user)
           r == [conn[c] EXCEPT !.result = cred]
<1>1. /\ conn[c] \in ConnType /\ PhaseOK(conn[c]) /\ TokenOK(conn[c], Tokens, madeAt[c])
      /\ users \in [Name -> Password \cup {None}] /\ conn[c].phase = "ws"
  BY DEF AccountsInv, AccountsTypeOK, generateRtcConfig
<1>2. /\ cred \in [user : Name, expiry : Nat] /\ cred.user = q.token.user
      /\ q \in Asked /\ q.op = "upgrade" /\ conn[c].status = 101
  BY <1>1, CredentialTyped DEF PhaseOK
<1>3. conn' = [conn EXCEPT ![c] = r] /\ users' = users /\ now' = now /\ madeAt' = madeAt
  BY DEF generateRtcConfig
<1> HIDE DEF cred
<1>4. /\ r \in ConnType /\ r.phase = "ws" /\ r.request = q
      /\ r.status = 101 /\ r.result = cred
  BY <1>1, <1>2 DEF ConnType
<1> HIDE DEF r
<1>5. PhaseOK(r) /\ GrantOK(r, users') /\ TokenOK(r, Tokens, madeAt'[c])
  BY <1>1, <1>2, <1>3, <1>4 DEF PhaseOK, GrantOK, TokenOK
<1>6. conn[c].status # 200
  BY <1>2
<1>7. r \in ConnType /\ users' \in [Name -> Password \cup {None}]
  BY <1>1, <1>3, <1>4
<1>8. \A n \in Name : users[n] # None => users'[n] = users[n]
  BY <1>3
<1> HIDE DEF q
<1> QED BY <1>3, <1>5, <1>6, <1>7, <1>8, SameTime, StepKeeps

LEMMA HandleKeeps ==
    ASSUME AccountsInv, NEW c \in Conn, handle_request(c)
    PROVE  AccountsInv'
<1>1. conn[c].phase = "request" /\ users' = users /\ now' = now /\ madeAt' = madeAt
  BY DEF handle_request
<1>2. PhaseOK(conn[c])
  BY DEF AccountsInv
<1>3. CASE register_(c)
  <2>1. CASE conn' = [conn EXCEPT ![c].phase = "insert"]
    <3>1. conn[c].request.op = "register" /\ conn[c].status = 0
      BY <1>1, <1>2, <1>3 DEF register_, PhaseOK
    <3> QED BY <1>1, <2>1, <3>1, MoveKeeps DEF Phase
  <2>2. CASE Respond(c, 409, None)
    BY <1>1, <2>2, RefusalKeeps
  <2> QED BY <1>3, <2>1, <2>2 DEF register_
<1>4. CASE login(c)
  BY <1>1, <1>4, LoginKeeps
<1>5. CASE credentials(c)
  BY <1>1, <1>5, CredentialsKeeps
<1>6. CASE upgrade(c)
  BY <1>1, <1>6, UpgradeKeeps
<1>7. CASE other(c)
  BY <1>1, <1>7, RefusalKeeps DEF other
<1> QED BY <1>3, <1>4, <1>5, <1>6, <1>7 DEF handle_request

(* The INSERT makes an account where there was none. *)
LEMMA InsertKeeps ==
    ASSUME AccountsInv, NEW c \in Conn, Insert(c)
    PROVE  AccountsInv'
<1> DEFINE q == conn[c].request
           r == [phase |-> "writing", request |-> q, status |-> 200, result |-> None]
<1>1. /\ conn[c] \in ConnType /\ PhaseOK(conn[c]) /\ TokenOK(conn[c], Tokens, madeAt[c])
      /\ users \in [Name -> Password \cup {None}] /\ conn[c].phase = "insert"
      /\ now' = now /\ madeAt' = madeAt
  BY DEF AccountsInv, AccountsTypeOK, Insert
<1>2. CASE UNCHANGED users /\ Respond(c, 409, None)
  BY <1>1, <1>2, RefusalKeeps
<1>3. CASE Inserted(q) /\ Respond(c, 200, None)
  <2>1. q \in AccountRequests /\ q.op = "register"
    BY <1>1 DEF PhaseOK, Asked, AccountRequests, TokenRequests
  <2>2. q.user \in Name /\ q.password \in Password /\ q \in Asked
    BY <2>1 DEF AccountRequests, Asked
  <2>3. users[q.user] = None /\ users' = [users EXCEPT ![q.user] = q.password]
    BY <1>3 DEF Inserted
  <2>4. /\ users' \in [Name -> Password \cup {None}]
        /\ \A n \in Name : users[n] # None => users'[n] = users[n]
    BY <1>1, <2>2, <2>3
  <2>5. r \in ConnType
    BY <2>2 DEF ConnType, Phase
  <2>6. PhaseOK(r) /\ GrantOK(r, users') /\ TokenOK(r, Tokens, madeAt'[c])
    BY <2>1, <2>2 DEF PhaseOK, GrantOK, TokenOK
  <2>7. conn[c].status # 200
    BY <1>1 DEF PhaseOK
  <2>8. conn' = [conn EXCEPT ![c] = r]
    BY <1>3 DEF Respond
  <2> HIDE DEF r
  <2> QED BY <1>1, <2>4, <2>5, <2>6, <2>7, <2>8, SameTime, StepKeeps
<1> QED BY <1>2, <1>3 DEF Insert

LEMMA AccountsInvInductive == AccountsInv /\ [AccountsNext]_accountsVars => AccountsInv'
<1> SUFFICES ASSUME AccountsInv, [AccountsNext]_accountsVars PROVE AccountsInv'
  OBVIOUS
<1>1. ASSUME NEW c \in Conn, ClientSends(c) PROVE AccountsInv'
  BY <1>1, ClientSendsKeeps
<1>2. ASSUME NEW c \in Conn, ClientCloses(c) PROVE AccountsInv'
  BY <1>2, MoveKeeps DEF ClientCloses, Phase
<1>3. ASSUME NEW c \in Conn, handle_request(c) PROVE AccountsInv'
  BY <1>3, HandleKeeps
<1>4. ASSUME NEW c \in Conn, Insert(c) PROVE AccountsInv'
  BY <1>4, InsertKeeps
<1>5. ASSUME NEW c \in Conn, Written(c) PROVE AccountsInv'
  BY <1>5, MoveKeeps DEF Written, Phase
<1>6. CASE Tick
  <2>1. now \in Nat /\ madeAt \in [Conn -> Nat]
    BY DEF AccountsInv, AccountsTypeOK
  <2>2. \A c \in Conn : madeAt[c] <= now + 1
    BY <2>1 DEF AccountsInv
  <2> QED BY <1>6, <2>1, <2>2 DEF Tick, AccountsInv, AccountsTypeOK, Tokens, LoggedIn
<1>7. CASE UNCHANGED accountsVars
  BY <1>7 DEF accountsVars, AccountsInv, AccountsTypeOK, Tokens, LoggedIn
<1>8. ASSUME NEW c \in Conn, issue(c) PROVE AccountsInv'
  BY <1>8, IssueKeeps
<1>9. ASSUME NEW c \in Conn, generateRtcConfig(c) PROVE AccountsInv'
  BY <1>9, RtcConfigKeeps
<1> QED BY <1>1, <1>2, <1>3, <1>4, <1>5, <1>6, <1>7, <1>8, <1>9 DEF AccountsNext, ServerStep

LEMMA AccountsInvInitially == AccountsInit => AccountsInv
<1> SUFFICES ASSUME AccountsInit PROVE AccountsInv
  OBVIOUS
<1>1. NewConn \in ConnType
  BY DEF NewConn, ConnType, Phase
<1>2. \A T, t : PhaseOK(NewConn) /\ GrantOK(NewConn, users) /\ TokenOK(NewConn, T, t)
  BY DEF PhaseOK, GrantOK, TokenOK, NewConn
<1> HIDE DEF NewConn
<1> QED BY <1>1, <1>2 DEF AccountsInit, AccountsInv, AccountsTypeOK

LEMMA AccountsInvAlways == AccountsSpec => []AccountsInv
BY AccountsInvInitially, AccountsInvInductive, PTL DEF AccountsSpec

(* Whoever gets a TURN credential or a WebSocket logged in with the password
   of the account and asked before the token of that login expired, and
   what an rtc.config brings him later is his own (routes.cpp:22-111,
   ws_server.cpp:79-113, jwt.cpp:26-50), for every number of connections,
   users and workers and however long a handler takes. *)
THEOREM AccessAlwaysNeedsLogin == AccountsSpec => []AccessNeedsLogin
<1>1. AccountsInv => AccessNeedsLogin
  <2> SUFFICES ASSUME AccountsInv, NEW c \in Conn, LetIn(c)
               PROVE  \E d \in LoggedIn :
                        /\ conn[d].request.password = users[conn[d].request.user]
                        /\ madeAt[c] <= conn[d].result.exp
                        /\ conn[c].result # None =>
                              conn[c].result.user = conn[d].request.user
    BY DEF AccessNeedsLogin
  <2>1. PhaseOK(conn[c]) /\ TokenOK(conn[c], Tokens, madeAt[c])
    BY DEF AccountsInv
  <2>2. /\ conn[c].request.token \in Tokens
        /\ madeAt[c] <= conn[c].request.token.exp
        /\ conn[c].result # None => conn[c].result.user = conn[c].request.token.user
    BY <2>1 DEF PhaseOK, TokenOK, LetIn
  <2>3. PICK d \in LoggedIn : conn[d].result = conn[c].request.token
    BY <2>2 DEF Tokens
  <2>4. d \in Conn /\ conn[d].status = 200 /\ conn[d].request.op = "login"
    BY DEF LoggedIn
  <2>5. /\ conn[d].result.user = conn[d].request.user
        /\ users[conn[d].request.user] = conn[d].request.password
    <3>1. PhaseOK(conn[d]) /\ GrantOK(conn[d], users)
      BY <2>4 DEF AccountsInv
    <3> QED BY <2>4, <3>1 DEF PhaseOK, GrantOK
  <2> QED BY <2>2, <2>3, <2>5
<1> QED BY <1>1, AccountsInvAlways, PTL

----------------------------------------------------------------------------
(* The refinement of AccountRegister. *)

\* The request and the answer that the record of a connection stands for.
IsAccount(r) == r.request # None /\ r.request.op \in {"register", "login"}

AskedBy(r) == IF IsAccount(r) THEN r.request ELSE None

AnswerIn(r) == IF ~IsAccount(r) \/ r.status = 0 THEN "none"
               ELSE IF r.status = 200 THEN "granted" ELSE "refused"

AskedMap == [c \in Conn |-> IF AccountRequest(c) THEN conn[c].request ELSE None]

AnswerMap == [c \in Conn |-> IF ~AccountRequest(c) \/ conn[c].status = 0 THEN "none"
                             ELSE IF conn[c].status = 200 THEN "granted" ELSE "refused"]

(* A step of one connection changes one entry of each map. *)
LEMMA MapsStep ==
    ASSUME AccountsInv, NEW c \in Conn, NEW r, conn' = [conn EXCEPT ![c] = r]
    PROVE  /\ AskedMap[c] = AskedBy(conn[c]) /\ AnswerMap[c] = AnswerIn(conn[c])
           /\ AskedMap' = [AskedMap EXCEPT ![c] = AskedBy(r)]
           /\ AnswerMap' = [AnswerMap EXCEPT ![c] = AnswerIn(r)]
<1>1. /\ \A d \in Conn : conn'[d] = IF d = c THEN r ELSE conn[d]
  BY DEF AccountsInv, AccountsTypeOK
<1>2. \A d \in Conn : AskedMap[d] = AskedBy(conn[d]) /\ AnswerMap[d] = AnswerIn(conn[d])
  BY DEF AskedMap, AnswerMap, AskedBy, AnswerIn, IsAccount, AccountRequest
<1>3. /\ AskedMap' = [d \in Conn |-> AskedBy(conn'[d])]
      /\ AnswerMap' = [d \in Conn |-> AnswerIn(conn'[d])]
  BY DEF AskedMap, AnswerMap, AskedBy, AnswerIn, IsAccount, AccountRequest
<1>4. AskedMap' = [AskedMap EXCEPT ![c] = AskedBy(r)]
  <2>1. \A d \in Conn : AskedBy(conn'[d]) = [AskedMap EXCEPT ![c] = AskedBy(r)][d]
    BY <1>1, <1>2 DEF AskedMap
  <2>2. [AskedMap EXCEPT ![c] = AskedBy(r)]
           = [d \in Conn |-> [AskedMap EXCEPT ![c] = AskedBy(r)][d]]
    BY DEF AskedMap
  <2> QED BY <1>3, <2>1, <2>2
<1>5. AnswerMap' = [AnswerMap EXCEPT ![c] = AnswerIn(r)]
  <2>1. \A d \in Conn : AnswerIn(conn'[d]) = [AnswerMap EXCEPT ![c] = AnswerIn(r)][d]
    BY <1>1, <1>2 DEF AnswerMap
  <2>2. [AnswerMap EXCEPT ![c] = AnswerIn(r)]
           = [d \in Conn |-> [AnswerMap EXCEPT ![c] = AnswerIn(r)][d]]
    BY DEF AnswerMap
  <2> QED BY <1>3, <2>1, <2>2
<1> QED BY <1>2, <1>4, <1>5

(* A step that changes neither the request of a connection nor what its
   status means is none of the register. *)
LEMMA MapsStutter ==
    ASSUME AccountsInv, NEW c \in Conn, NEW r, conn' = [conn EXCEPT ![c] = r],
           AskedBy(r) = AskedBy(conn[c]), AnswerIn(r) = AnswerIn(conn[c])
    PROVE  AskedMap' = AskedMap /\ AnswerMap' = AnswerMap
<1>1. /\ AskedMap' = [AskedMap EXCEPT ![c] = AskedMap[c]]
      /\ AnswerMap' = [AnswerMap EXCEPT ![c] = AnswerMap[c]]
  <2>1. /\ AskedMap[c] = AskedBy(conn[c]) /\ AnswerMap[c] = AnswerIn(conn[c])
        /\ AskedMap' = [AskedMap EXCEPT ![c] = AskedBy(r)]
        /\ AnswerMap' = [AnswerMap EXCEPT ![c] = AnswerIn(r)]
    BY MapsStep
  <2> QED BY <2>1
<1>2. /\ AskedMap = [AskedMap EXCEPT ![c] = AskedMap[c]]
      /\ AnswerMap = [AnswerMap EXCEPT ![c] = AnswerMap[c]]
  <2>1. AskedMap = [AskedMap EXCEPT ![c] = AskedMap[c]]
    BY DEF AskedMap
  <2>2. AnswerMap = [AnswerMap EXCEPT ![c] = AnswerMap[c]]
    BY DEF AnswerMap
  <2> QED BY <2>1, <2>2
<1> QED BY <1>1, <1>2

\* A step of the register, or none.
RegisterStep == Register!RegisterNext \/ UNCHANGED <<users, AskedMap, AnswerMap>>

(* An answer that is not a grant refuses an account request, and means
   nothing to the register when the request was of another kind. *)
LEMMA RefusalRefines ==
    ASSUME AccountsInv, NEW c \in Conn, NEW status \in Nat \ {0, 200}, NEW result,
           conn[c].phase \in {"request", "insert"}, users' = users,
           Respond(c, status, result)
    PROVE  RegisterStep
<1> DEFINE r == [phase |-> "writing", request |-> conn[c].request,
                 status |-> status, result |-> result]
<1>1. /\ r.request = conn[c].request /\ r.status = status
      /\ conn[c].status = 0 /\ conn[c].request \in Asked
  BY DEF AccountsInv, PhaseOK
<1> HIDE DEF r
<1>2. conn' = [conn EXCEPT ![c] = r]
  BY DEF r, Respond
<1>3. CASE IsAccount(conn[c])
  <2>1. /\ AskedBy(r) = conn[c].request /\ AskedBy(conn[c]) = conn[c].request
        /\ AnswerIn(conn[c]) = "none" /\ AnswerIn(r) = "refused"
        /\ conn[c].request # None
    BY <1>1, <1>3 DEF AskedBy, AnswerIn, IsAccount
  <2>2. /\ AskedMap[c] # None /\ AnswerMap[c] = "none"
        /\ AnswerMap' = [AnswerMap EXCEPT ![c] = "refused"]
        /\ AskedMap' = [AskedMap EXCEPT ![c] = AskedMap[c]]
    <3>1. /\ AskedMap[c] = AskedBy(conn[c]) /\ AnswerMap[c] = AnswerIn(conn[c])
          /\ AskedMap' = [AskedMap EXCEPT ![c] = AskedBy(r)]
          /\ AnswerMap' = [AnswerMap EXCEPT ![c] = AnswerIn(r)]
      BY <1>2, MapsStep
    <3> QED BY <2>1, <3>1
  <2>3. AskedMap' = AskedMap
    BY <2>2 DEF AskedMap
  <2>4. Register!Refuse(c)
    BY <2>2, <2>3 DEF Register!Refuse, AskedMap, AnswerMap
  <2> QED BY <2>4 DEF RegisterStep, Register!RegisterNext
<1>4. CASE ~IsAccount(conn[c])
  <2>1. AskedBy(r) = AskedBy(conn[c]) /\ AnswerIn(r) = AnswerIn(conn[c])
    BY <1>1, <1>4 DEF AskedBy, AnswerIn, IsAccount
  <2> QED BY <1>2, <2>1, MapsStutter DEF RegisterStep
<1> QED BY <1>3, <1>4

(* A step that gives no answer and leaves the request. *)
LEMMA MoveRefines ==
    ASSUME AccountsInv, NEW c \in Conn, NEW p, users' = users,
           conn' = [conn EXCEPT ![c].phase = p]
    PROVE  RegisterStep
<1> DEFINE r == [conn[c] EXCEPT !.phase = p]
<1>1. conn[c] \in ConnType
  BY DEF AccountsInv, AccountsTypeOK
<1>2. r.request = conn[c].request /\ r.status = conn[c].status
  BY <1>1 DEF ConnType
<1>3. conn' = [conn EXCEPT ![c] = r]
  OBVIOUS
<1> HIDE DEF r
<1>4. AskedBy(r) = AskedBy(conn[c]) /\ AnswerIn(r) = AnswerIn(conn[c])
  BY <1>2 DEF AskedBy, AnswerIn, IsAccount
<1> QED BY <1>3, <1>4, MapsStutter DEF RegisterStep

(* A request for or about an account is asked of the register. *)
LEMMA ClientSendsRefines ==
    ASSUME AccountsInv, NEW c \in Conn, ClientSends(c)
    PROVE  RegisterStep
<1>1. PICK q \in Requests :
          conn' = [conn EXCEPT ![c] = [phase |-> "request", request |-> q,
                                       status |-> conn[c].status,
                                       result |-> conn[c].result]]
  BY DEF ClientSends
<1> DEFINE r == [phase |-> "request", request |-> q,
                 status |-> conn[c].status, result |-> conn[c].result]
<1>2. users' = users /\ conn[c].phase = "none"
  BY DEF ClientSends
<1>3. PhaseOK(conn[c])
  BY DEF AccountsInv
<1>4. conn[c].request = None /\ conn[c].status = 0
  BY <1>2, <1>3 DEF PhaseOK
<1>5. r.request = q /\ r.status = 0
  BY <1>4
<1>6. conn' = [conn EXCEPT ![c] = r]
  BY <1>1
<1> HIDE DEF r
<1>7. AskedBy(conn[c]) = None /\ AnswerIn(conn[c]) = "none" /\ AnswerIn(r) = "none"
  BY <1>4, <1>5 DEF AskedBy, AnswerIn, IsAccount
<1>8. q \in Asked
  BY RequestsTyped
<1>9. CASE q \in AccountRequests
  <2>1. AskedBy(r) = q
    <3>1. q # None /\ q.op \in {"register", "login"}
      BY <1>9, AccountsAssumption DEF AccountRequests
    <3> QED BY <1>5, <3>1 DEF AskedBy, IsAccount
  <2>2. /\ AskedMap[c] = AskedBy(conn[c]) /\ AnswerMap[c] = AnswerIn(conn[c])
        /\ AskedMap' = [AskedMap EXCEPT ![c] = AskedBy(r)]
        /\ AnswerMap' = [AnswerMap EXCEPT ![c] = AnswerIn(r)]
    BY <1>6, MapsStep
  <2>3. /\ AskedMap[c] = None /\ AskedMap' = [AskedMap EXCEPT ![c] = q]
        /\ AnswerMap' = [AnswerMap EXCEPT ![c] = AnswerMap[c]]
    BY <1>7, <2>1, <2>2
  <2>4. AnswerMap' = AnswerMap
    <3>1. AnswerMap = [AnswerMap EXCEPT ![c] = AnswerMap[c]]
      BY DEF AnswerMap
    <3> QED BY <2>3, <3>1
  <2>5. Register!Ask(c, q)
    BY <1>2, <2>3, <2>4 DEF Register!Ask, AskedMap, AnswerMap
  <2>6. q \in Register!Request
    BY <1>9 DEF Register!Request, AccountRequests
  <2> QED BY <2>5, <2>6 DEF RegisterStep, Register!RegisterNext
<1>10. CASE q \notin AccountRequests
  <2>1. ~(q.op \in {"register", "login"})
    BY <1>8, <1>10 DEF Asked, TokenRequests
  <2>2. AskedBy(r) = None
    BY <1>5, <2>1 DEF AskedBy, IsAccount
  <2> QED BY <1>2, <1>6, <1>7, <2>2, MapsStutter DEF RegisterStep
<1> QED BY <1>9, <1>10

(* A grant, of a name that is free or on the right password. *)
LEMMA GrantRefines ==
    ASSUME AccountsInv, NEW c \in Conn, NEW result,
           conn[c].phase \in {"request", "insert"},
           conn[c].request \in AccountRequests,
           Respond(c, 200, result),
           \/ conn[c].request.op = "register" /\ Inserted(conn[c].request)
           \/ /\ conn[c].request.op = "login" /\ users' = users
              /\ users[conn[c].request.user] = conn[c].request.password
    PROVE  RegisterStep
<1> DEFINE q == conn[c].request
           r == [phase |-> "writing", request |-> q, status |-> 200, result |-> result]
<1>1. /\ r.request = q /\ r.status = 200 /\ conn[c].status = 0
  BY DEF AccountsInv, PhaseOK
<1>2. conn' = [conn EXCEPT ![c] = r]
  BY DEF Respond
<1> HIDE DEF r
<1>3. q # None /\ q.op \in {"register", "login"}
  BY AccountsAssumption DEF AccountRequests
<1>4. /\ AskedBy(r) = q /\ AskedBy(conn[c]) = q
      /\ AnswerIn(conn[c]) = "none" /\ AnswerIn(r) = "granted"
  BY <1>1, <1>3 DEF AskedBy, AnswerIn, IsAccount
<1>5. /\ AskedMap[c] = AskedBy(conn[c]) /\ AnswerMap[c] = AnswerIn(conn[c])
      /\ AskedMap' = [AskedMap EXCEPT ![c] = AskedBy(r)]
      /\ AnswerMap' = [AnswerMap EXCEPT ![c] = AnswerIn(r)]
  BY <1>2, MapsStep
<1>6. /\ AskedMap[c] = q /\ AskedMap[c] # None /\ AnswerMap[c] = "none"
      /\ AnswerMap' = [AnswerMap EXCEPT ![c] = "granted"]
      /\ AskedMap' = [AskedMap EXCEPT ![c] = AskedMap[c]]
  BY <1>3, <1>4, <1>5
<1>7. AskedMap' = AskedMap
  BY <1>6 DEF AskedMap
<1>8. \/ /\ q.op = "register" /\ users[q.user] = None
         /\ users' = [users EXCEPT ![q.user] = q.password]
      \/ q.op = "login" /\ users[q.user] = q.password /\ users' = users
  BY DEF Inserted
<1> HIDE DEF q
<1>9. Register!Grant(c)
  BY <1>6, <1>7, <1>8 DEF Register!Grant, AskedMap, AnswerMap
<1> QED BY <1>9 DEF RegisterStep, Register!RegisterNext

LEMMA HandleRefines ==
    ASSUME AccountsInv, NEW c \in Conn, handle_request(c)
    PROVE  RegisterStep
<1> DEFINE q == conn[c].request
<1>1. conn[c].phase = "request" /\ users' = users
  BY DEF handle_request
<1>2. /\ conn[c].status = 0 /\ q \in Asked /\ PhaseOK(conn[c])
      /\ users \in [Name -> Password \cup {None}]
  BY <1>1 DEF AccountsInv, AccountsTypeOK, PhaseOK
<1>3. CASE register_(c)
  <2>1. CASE conn' = [conn EXCEPT ![c].phase = "insert"]
    BY <1>1, <2>1, MoveRefines
  <2>2. CASE Respond(c, 409, None)
    BY <1>1, <2>2, RefusalRefines
  <2> QED BY <1>3, <2>1, <2>2 DEF register_
<1>4. CASE login(c)
  <2>1. PICK found \in findUser(q.user) :
            \/ found = "error" /\ Raise(c)
            \/ found = q.password /\ Respond(c, 200, sign(q.user))
            \/ found \notin {"error", q.password} /\ Respond(c, 401, None)
    BY <1>4 DEF login
  <2>2. CASE Raise(c)
    <3>1. Respond(c, 500, None)
      BY <2>2 DEF Raise
    <3>2. conn[c].phase \in {"request", "insert"} /\ 500 \in Nat \ {0, 200}
      BY <1>1
    <3> QED BY <1>1, <3>1, <3>2, RefusalRefines
  <2>3. CASE Respond(c, 401, None)
    BY <1>1, <2>3, RefusalRefines
  <2>4. CASE found = q.password /\ Respond(c, 200, sign(q.user))
    <3>1. q.op = "login" /\ q \in AccountRequests
      BY <1>2, <1>4 DEF login, Asked, TokenRequests
    <3>2. users[q.user] = q.password
      BY <2>1, <2>4, <3>1, AccountsAssumption DEF findUser, AccountRequests
    <3> QED BY <1>1, <2>4, <3>1, <3>2, GrantRefines
  <2> QED BY <2>1, <2>2, <2>3, <2>4
<1>5. CASE credentials(c) \/ upgrade(c) \/ other(c)
  <2>1. PICK r : conn' = [conn EXCEPT ![c] = r] /\ r.request = q
    <3>1. CASE credentials(c)
      <4>1. CASE Respond(c, 401, None)
        <5> DEFINE s == [phase |-> "writing", request |-> q, status |-> 401, result |-> None]
        <5>1. conn' = [conn EXCEPT ![c] = s] /\ s.request = q
          BY <4>1 DEF Respond
        <5> QED BY <5>1
      <4>2. CASE conn' = [conn EXCEPT ![c].phase = "verified"]
        <5> DEFINE s == [conn[c] EXCEPT !.phase = "verified"]
        <5>1. conn[c] \in ConnType
          BY DEF AccountsInv, AccountsTypeOK
        <5>2. conn' = [conn EXCEPT ![c] = s] /\ s.request = q
          BY <4>2, <5>1 DEF ConnType
        <5> QED BY <5>2
      <4> QED BY <3>1, <4>1, <4>2 DEF credentials
    <3>2. CASE upgrade(c)
      <4> DEFINE ok == verify(q.token)
                 s == [phase |-> IF ok THEN "ws" ELSE "done", request |-> q,
                       status |-> IF ok THEN 101 ELSE 0, result |-> conn[c].result]
      <4>1. conn' = [conn EXCEPT ![c] = s] /\ s.request = q
        BY <3>2 DEF upgrade
      <4> QED BY <4>1
    <3>3. CASE other(c)
      <4> DEFINE s == [phase |-> "writing", request |-> q, status |-> 404, result |-> None]
      <4>1. conn' = [conn EXCEPT ![c] = s] /\ s.request = q
        BY <3>3 DEF other, Respond
      <4> QED BY <4>1
    <3> QED BY <1>5, <3>1, <3>2, <3>3
  <2>2. ~(q.op \in {"register", "login"})
    BY <1>5 DEF credentials, upgrade, other
  <2>3. AskedBy(r) = AskedBy(conn[c]) /\ AnswerIn(r) = AnswerIn(conn[c])
    BY <2>1, <2>2 DEF AskedBy, AnswerIn, IsAccount
  <2> QED BY <1>1, <2>1, <2>3, MapsStutter DEF RegisterStep
<1> QED BY <1>3, <1>4, <1>5 DEF handle_request

(* A credential is none of the register's business. *)
LEMMA CredentialRefines ==
    ASSUME AccountsInv, NEW c \in Conn, issue(c) \/ generateRtcConfig(c)
    PROVE  RegisterStep
<1>1. conn[c] \in ConnType /\ PhaseOK(conn[c]) /\ users' = users
  BY DEF AccountsInv, AccountsTypeOK, issue, generateRtcConfig
<1>2. ~(conn[c].request.op \in {"register", "login"})
  BY <1>1 DEF PhaseOK, issue, generateRtcConfig
<1> DEFINE q == conn[c].request
           cred == Credential(q.token.user)
<1>3. PICK r : conn' = [conn EXCEPT ![c] = r] /\ r.request = q
  <2>1. CASE issue(c)
    <3> DEFINE s == [phase |-> "writing", request |-> q, status |-> 200, result |-> cred]
    <3>1. conn' = [conn EXCEPT ![c] = s] /\ s.request = q
      BY <2>1 DEF issue, Respond
    <3> QED BY <3>1
  <2>2. CASE generateRtcConfig(c)
    <3> DEFINE s == [conn[c] EXCEPT !.result = cred]
    <3>1. conn' = [conn EXCEPT ![c] = s] /\ s.request = q
      BY <1>1, <2>2 DEF generateRtcConfig, ConnType
    <3> QED BY <3>1
  <2> QED BY <2>1, <2>2
<1>4. AskedBy(r) = AskedBy(conn[c]) /\ AnswerIn(r) = AnswerIn(conn[c])
  BY <1>2, <1>3 DEF AskedBy, AnswerIn, IsAccount
<1> QED BY <1>1, <1>3, <1>4, MapsStutter DEF RegisterStep

LEMMA InsertRefines ==
    ASSUME AccountsInv, NEW c \in Conn, Insert(c)
    PROVE  RegisterStep
<1> DEFINE q == conn[c].request
<1>1. conn[c].phase = "insert" /\ PhaseOK(conn[c])
  BY DEF AccountsInv, Insert
<1>2. q.op = "register" /\ q \in AccountRequests
  BY <1>1 DEF PhaseOK, Asked, TokenRequests
<1>3. CASE UNCHANGED users /\ Respond(c, 409, None)
  BY <1>1, <1>3, RefusalRefines
<1>4. CASE Inserted(q) /\ Respond(c, 200, None)
  BY <1>1, <1>2, <1>4, GrantRefines
<1> QED BY <1>3, <1>4 DEF Insert

LEMMA AccountsStepRefines ==
    AccountsInv /\ [AccountsNext]_accountsVars => RegisterStep
<1> SUFFICES ASSUME AccountsInv, [AccountsNext]_accountsVars PROVE RegisterStep
  OBVIOUS
<1>1. ASSUME NEW c \in Conn, ClientSends(c) PROVE RegisterStep
  BY <1>1, ClientSendsRefines
<1>2. ASSUME NEW c \in Conn, ClientCloses(c) PROVE RegisterStep
  BY <1>2, MoveRefines DEF ClientCloses
<1>3. ASSUME NEW c \in Conn, handle_request(c) PROVE RegisterStep
  BY <1>3, HandleRefines
<1>4. ASSUME NEW c \in Conn, Insert(c) PROVE RegisterStep
  BY <1>4, InsertRefines
<1>5. ASSUME NEW c \in Conn, Written(c) PROVE RegisterStep
  BY <1>5, MoveRefines DEF Written
<1>6. CASE Tick \/ UNCHANGED accountsVars
  <2>1. conn' = conn /\ users' = users
    BY <1>6 DEF Tick, accountsVars
  <2> QED BY <2>1 DEF RegisterStep, AskedMap, AnswerMap, AccountRequest
<1>7. ASSUME NEW c \in Conn, issue(c) \/ generateRtcConfig(c) PROVE RegisterStep
  BY <1>7, CredentialRefines
<1> QED BY <1>1, <1>2, <1>3, <1>4, <1>5, <1>6, <1>7 DEF AccountsNext, ServerStep

(* The account service implements AccountRegister: registrations and logins
   that workers interleave, statement by statement (user_store.cpp:57-77),
   look like single steps on one table of accounts. *)
THEOREM AccountsAreRegistered == AccountsSpec => ImplementsRegister
<1>1. AccountsInit => Register!RegisterInit
  <2> SUFFICES ASSUME AccountsInit PROVE Register!RegisterInit
    OBVIOUS
  <2>1. \A c \in Conn : conn[c].request = None
    BY DEF AccountsInit, NewConn
  <2>2. \A c \in Conn : ~AccountRequest(c)
    BY <2>1 DEF AccountRequest
  <2> QED BY <2>2 DEF AccountsInit, Register!RegisterInit
<1>2. AccountsInv /\ [AccountsNext]_accountsVars
         => [Register!RegisterNext]_(Register!accountVars)
  BY AccountsStepRefines DEF RegisterStep, Register!accountVars, AskedMap, AnswerMap
<1> QED BY <1>1, <1>2, AccountsInvAlways, PTL
        DEF AccountsSpec, ImplementsRegister, Register!RegisterSpec
=============================================================================
