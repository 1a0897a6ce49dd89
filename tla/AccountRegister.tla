-------------------------- MODULE AccountRegister --------------------------
(***************************************************************************)
(* What the account service promises to those who send it requests at the  *)
(* same time: a name is registered once, with one password, for good; a    *)
(* registration or a login that is granted took effect at one moment       *)
(* between its request and its answer.  Any request may be refused.        *)
(***************************************************************************)
CONSTANTS
    Name, Password,
    Client,     \* each sends one request
    None        \* no password, no request

VARIABLES
    account,    \* the password of each name
    asked,      \* the request of each client
    answer      \* "none", "granted" or "refused"

accountVars == <<account, asked, answer>>

Request == [op : {"register", "login"}, user : Name, password : Password]

RegisterInit ==
    /\ account = [n \in Name |-> None]
    /\ asked = [c \in Client |-> None]
    /\ answer = [c \in Client |-> "none"]

Ask(c, r) ==
    /\ asked[c] = None
    /\ asked' = [asked EXCEPT ![c] = r]
    /\ UNCHANGED <<account, answer>>

Grant(c) ==
    LET r == asked[c] IN
    /\ r # None /\ answer[c] = "none"
    /\ \/ /\ r.op = "register" /\ account[r.user] = None
          /\ account' = [account EXCEPT ![r.user] = r.password]
       \/ /\ r.op = "login" /\ account[r.user] = r.password
          /\ UNCHANGED account
    /\ answer' = [answer EXCEPT ![c] = "granted"]
    /\ UNCHANGED asked

Refuse(c) ==
    /\ asked[c] # None /\ answer[c] = "none"
    /\ answer' = [answer EXCEPT ![c] = "refused"]
    /\ UNCHANGED <<account, asked>>

RegisterNext == \E c \in Client : Grant(c) \/ Refuse(c) \/ \E r \in Request : Ask(c, r)

RegisterSpec == RegisterInit /\ [][RegisterNext]_accountVars
============================================================================
