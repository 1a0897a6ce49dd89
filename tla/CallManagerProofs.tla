------------------------- MODULE CallManagerProofs -------------------------
(***************************************************************************)
(* Type correctness of the call table, and that no user is ever in two     *)
(* calls, for every set of users and call ids and every ring timeout.      *)
(* The conjunction is inductive as it stands: what create relies on is     *)
(* exactly that isBusy looks at both sides of every live session.          *)
(***************************************************************************)
EXTENDS CallManager, TLAPS

CallInv == CallTypeOK /\ OneCallPerUser

(* Erasing sessions (reject, hangup, expireRinging) keeps both parts of the
   invariant: what is left was there before. *)
LEMMA EraseKeeps ==
    ASSUME CallInv, NEW S, sessions' = Erase(sessions, S), issued' = issued
    PROVE  CallInv'
<1>1. /\ DOMAIN sessions' = DOMAIN sessions \ S
      /\ \A c \in DOMAIN sessions' : sessions'[c] = sessions[c]
  BY DEF Erase, Restrict
<1>2. CallTypeOK'
  <2>1. sessions' \in [Calls' -> CallSession]
    BY <1>1 DEF CallInv, CallTypeOK, Calls, Erase, Restrict
  <2> QED BY <1>1, <2>1 DEF CallInv, CallTypeOK, Calls
<1>3. OneCallPerUser'
  BY <1>1 DEF CallInv, OneCallPerUser, Calls, Parties
<1> QED BY <1>2, <1>3 DEF CallInv

(* A step that rewrites sessions in place, without touching their parties,
   keeps the invariant (accept and the clock). *)
LEMMA RewriteKeeps ==
    ASSUME CallInv, issued' = issued, Calls' = Calls,
           sessions' \in [Calls -> CallSession],
           \A c \in Calls : Parties(sessions'[c]) = Parties(sessions[c])
    PROVE  CallInv'
<1>1. CallTypeOK'
  BY DEF CallInv, CallTypeOK
<1>2. OneCallPerUser'
  BY DEF CallInv, OneCallPerUser
<1> QED BY <1>1, <1>2 DEF CallInv

LEMMA CreateKeeps ==
    ASSUME CallInv, NEW u \in User, NEW v \in User, NEW c \in CallId,
           create(u, v, c)
    PROVE  CallInv'
<1> DEFINE s == [callerId |-> u, calleeId |-> v, state |-> "Ringing", age |-> 0]
<1>1. /\ c \notin issued
      /\ issued' = issued \cup {c}
      /\ sessions' = Put(sessions, c, s)
  BY DEF create
<1>2. ~isBusy(u) /\ ~isBusy(v)
  BY Zenon DEF create, createError
<1>3. /\ Calls' = Calls \cup {c}
      /\ sessions'[c] = s
      /\ \A d \in Calls \ {c} : sessions'[d] = sessions[d]
  BY <1>1 DEF Put, Calls
<1>4. c \notin Calls
  BY <1>1 DEF CallInv, CallTypeOK
<1>5. s \in CallSession
  BY RingTimeoutAssumption DEF CallSession, CallState, Age
<1>6. CallTypeOK'
  <2>1. sessions' \in [Calls' -> CallSession]
    BY <1>1, <1>3, <1>5 DEF Put, Calls, CallInv, CallTypeOK
  <2> QED BY <1>1, <1>3, <2>1 DEF CallInv, CallTypeOK
<1>7. OneCallPerUser'
  <2>1. Parties(s) = {u, v}
    BY DEF Parties
  <2>2. \A d \in Calls : Parties(sessions[d]) \cap {u, v} = {}
    BY <1>2 DEF isBusy
  <2>3. \A d \in Calls : Parties(sessions'[d]) = Parties(sessions[d])
    BY <1>3, <1>4 DEF Parties
  <2> HIDE DEF s
  <2>4. SUFFICES ASSUME NEW d \in Calls', NEW e \in Calls',
                        Parties(sessions'[d]) \cap Parties(sessions'[e]) # {}
                 PROVE  d = e
    BY DEF OneCallPerUser
  <2>5. CASE d \in Calls /\ e \in Calls
    BY <2>3, <2>4, <2>5 DEF CallInv, OneCallPerUser
  <2>6. CASE d \in Calls /\ e = c
    BY <1>3, <2>1, <2>2, <2>3, <2>4, <2>6
  <2>7. CASE d = c /\ e \in Calls
    BY <1>3, <2>1, <2>2, <2>3, <2>4, <2>7
  <2> QED BY <1>3, <2>5, <2>6, <2>7
<1> QED BY <1>6, <1>7 DEF CallInv

LEMMA AcceptKeeps ==
    ASSUME CallInv, NEW u \in User, NEW c \in Calls, accept(c, u)
    PROVE  CallInv'
<1>1. /\ issued' = issued
      /\ sessions' = [sessions EXCEPT ![c].state = "Active"]
  BY DEF accept
<1>2. sessions \in [Calls -> CallSession]
  BY DEF CallInv, CallTypeOK
<1>3. Calls' = Calls /\ sessions' \in [Calls -> CallSession]
  BY <1>1, <1>2 DEF Calls, CallSession, CallState
<1>4. \A d \in Calls : Parties(sessions'[d]) = Parties(sessions[d])
  BY <1>1, <1>2 DEF Parties, CallSession, Calls
<1> QED BY <1>1, <1>3, <1>4, RewriteKeeps

LEMMA TickKeeps ==
    ASSUME CallInv, Tick
    PROVE  CallInv'
<1>1. issued' = issued /\ Calls' = Calls
  BY DEF Tick, Calls
<1>2. sessions \in [Calls -> CallSession]
  BY DEF CallInv, CallTypeOK
<1>3. ASSUME NEW d \in Calls
      PROVE  /\ sessions'[d] \in CallSession
             /\ Parties(sessions'[d]) = Parties(sessions[d])
  <2>1. sessions[d] \in CallSession
    BY <1>2
  <2>2. CASE sessions[d].state = "Ringing" /\ sessions[d].age <= RingTimeout
    <3>1. sessions'[d] = [sessions[d] EXCEPT !.age = @ + 1]
      BY <2>2 DEF Tick
    <3> QED BY <2>1, <2>2, <3>1, RingTimeoutAssumption
            DEF CallSession, Age, Parties
  <2>3. CASE ~(sessions[d].state = "Ringing" /\ sessions[d].age <= RingTimeout)
    BY <2>1, <2>3 DEF Tick
  <2> QED BY <2>2, <2>3
<1>4. sessions' \in [Calls -> CallSession]
  BY <1>3 DEF Tick
<1> QED BY <1>1, <1>3, <1>4, RewriteKeeps

LEMMA CallInvInductive == CallInv /\ [CallNext]_callVars => CallInv'
<1> SUFFICES ASSUME CallInv, [CallNext]_callVars PROVE CallInv'
  OBVIOUS
<1>1. CASE \E u, v \in User, c \in CallId : create(u, v, c)
  BY <1>1, CreateKeeps
<1>2. ASSUME NEW u \in User, NEW c \in Calls, accept(c, u)
      PROVE  CallInv'
  BY <1>2, AcceptKeeps
<1>3. ASSUME NEW u \in User, NEW c \in Calls, reject(c, u) \/ hangup(c, u)
      PROVE  CallInv'
  BY <1>3, EraseKeeps DEF reject, hangup
<1>4. CASE expireRinging
  BY <1>4, EraseKeeps DEF expireRinging
<1>5. CASE Tick
  BY <1>5, TickKeeps
<1>6. CASE UNCHANGED callVars
  BY <1>6 DEF callVars, CallInv, CallTypeOK, OneCallPerUser, Calls
<1> QED BY <1>1, <1>2, <1>3, <1>4, <1>5, <1>6 DEF CallNext

LEMMA CallInvInitially == CallInit => CallInv
BY DEF CallInit, CallInv, CallTypeOK, OneCallPerUser, Calls

LEMMA CallInvAlways == CallSpec => []CallInv
BY CallInvInitially, CallInvInductive, PTL DEF CallSpec

(* The type invariant of sessions_ (call_manager.hpp:18-24, 58) holds in
   every reachable state. *)
THEOREM CallTypeCorrect == CallSpec => []CallTypeOK
BY CallInvAlways, PTL DEF CallInv

(* No user is ever in two live calls at once, whatever the order of create,
   accept, reject, hangup and expiry (call_manager.cpp:34-140). *)
THEOREM UsersHaveOneCall == CallSpec => []OneCallPerUser
BY CallInvAlways, PTL DEF CallInv

----------------------------------------------------------------------------
(* The refinement of CallLines. *)

\* What a session makes of the line of one of its parties.
LineIn(s, u) ==
    [busy |-> TRUE, peer |-> Other(s, u), talking |-> s.state = "Active",
     calling |-> s.callerId = u]

LineMap == [u \in User |-> LineOf(u)]

(* A user's line is what the one call he is in makes of it: this is where
   the refinement needs that he is in one only. *)
LEMMA LineOfParty ==
    ASSUME CallInv, NEW c \in Calls, NEW u \in Parties(sessions[c])
    PROVE  LineOf(u) = LineIn(sessions[c], u)
<1>1. isBusy(u)
  BY DEF isBusy
<1>2. CallOf(u) \in Calls /\ u \in Parties(sessions[CallOf(u)])
  BY DEF CallOf
<1>3. CallOf(u) = c
  BY <1>2 DEF CallInv, OneCallPerUser
<1> QED BY <1>1, <1>3 DEF LineOf, LineIn

LEMMA LineOfOthers ==
    ASSUME NEW u, ~isBusy(u)
    PROVE  LineOf(u) = [busy |-> FALSE]
BY DEF LineOf

(* The fields of a party's line; the other end is a party too. *)
LEMMA LineFields ==
    ASSUME CallInv, NEW c \in Calls, NEW u \in Parties(sessions[c])
    PROVE  /\ LineOf(u).busy = TRUE
           /\ LineOf(u).peer = Other(sessions[c], u)
           /\ LineOf(u).talking = (sessions[c].state = "Active")
           /\ LineOf(u).calling = (sessions[c].callerId = u)
           /\ Other(sessions[c], u) \in Parties(sessions[c])
           /\ Parties(sessions[c]) \subseteq User
<1>1. LineOf(u) = LineIn(sessions[c], u)
  BY LineOfParty
<1>2. sessions[c] \in CallSession
  BY DEF CallInv, CallTypeOK
<1>3. /\ Other(sessions[c], u) \in Parties(sessions[c])
      /\ Parties(sessions[c]) \subseteq User
  BY <1>2 DEF Other, Parties, CallSession
<1> QED BY <1>1, <1>3 DEF LineIn

(* A user whose call, if any, goes on as it is keeps his line. *)
LEMMA LineKept ==
    ASSUME CallInv, CallInv', NEW u \in User,
           \/ ~isBusy(u) /\ ~isBusy(u)'
           \/ \E c \in Calls : /\ u \in Parties(sessions[c])
                               /\ c \in Calls'
                               /\ Parties(sessions'[c]) = Parties(sessions[c])
                               /\ sessions'[c].callerId = sessions[c].callerId
                               /\ sessions'[c].calleeId = sessions[c].calleeId
                               /\ sessions'[c].state = sessions[c].state
    PROVE  LineOf(u)' = LineOf(u)
<1>1. CASE ~isBusy(u) /\ ~isBusy(u)'
  BY <1>1 DEF LineOf
<1>2. ASSUME NEW c \in Calls, u \in Parties(sessions[c]), c \in Calls',
             Parties(sessions'[c]) = Parties(sessions[c]),
             sessions'[c].callerId = sessions[c].callerId,
             sessions'[c].calleeId = sessions[c].calleeId,
             sessions'[c].state = sessions[c].state
      PROVE  LineOf(u)' = LineOf(u)
  <2>1. LineOf(u) = LineIn(sessions[c], u)
    BY <1>2, LineOfParty
  <2>2. LineOf(u)' = LineIn(sessions'[c], u)
    <3>1. isBusy(u)'
      BY <1>2 DEF isBusy
    <3>2. CallOf(u)' \in Calls' /\ u \in Parties(sessions'[CallOf(u)'])
      BY <1>2 DEF CallOf
    <3>3. CallOf(u)' = c
      BY <1>2, <3>2 DEF CallInv, OneCallPerUser
    <3> QED BY <3>1, <3>3 DEF LineOf, LineIn
  <2> QED BY <1>2, <2>1, <2>2 DEF LineIn, Other
<1> QED BY <1>1, <1>2

LEMMA CreateRings ==
    ASSUME CallInv, CallInv', NEW u \in User, NEW v \in User, NEW c \in CallId,
           create(u, v, c)
    PROVE  Lines!Ring(u, v)
<1> DEFINE s == [callerId |-> u, calleeId |-> v, state |-> "Ringing", age |-> 0]
<1>1. /\ c \notin issued
      /\ sessions' = Put(sessions, c, s)
  BY DEF create
<1>2. ~isBusy(u) /\ ~isBusy(v)
  BY Zenon DEF create, createError
<1>3. c \notin Calls
  BY <1>1 DEF CallInv, CallTypeOK
<1>4. /\ Calls' = Calls \cup {c}
      /\ sessions'[c] = s
      /\ \A d \in Calls : sessions'[d] = sessions[d]
  BY <1>1, <1>3 DEF Put, Calls
<1>5. Parties(s) = {u, v}
  BY DEF Parties
<1>6. LineMap[u] = Lines!Free /\ LineMap[v] = Lines!Free
  BY <1>2, LineOfOthers DEF LineMap, Lines!Free
<1>7. ASSUME NEW w \in {u, v}
      PROVE  LineOf(w)' = LineIn(s, w)
  <2>1. isBusy(w)'
    BY <1>4, <1>5 DEF isBusy
  <2>2. CallOf(w)' \in Calls' /\ w \in Parties(sessions'[CallOf(w)'])
    BY <1>4, <1>5 DEF CallOf
  <2>3. CallOf(w)' = c
    BY <1>4, <1>5, <2>2 DEF CallInv, OneCallPerUser
  <2> QED BY <1>4, <2>1, <2>3 DEF LineOf, LineIn
<1>8. ASSUME NEW w \in User \ {u, v}
      PROVE  LineOf(w)' = LineOf(w)
  <2>1. CASE isBusy(w)
    <3>1. PICK d \in Calls : w \in Parties(sessions[d])
      BY <2>1 DEF isBusy
    <3> QED BY <1>4, <3>1, LineKept
  <2>2. CASE ~isBusy(w)
    <3>1. ~isBusy(w)'
      BY <1>4, <1>5, <2>2 DEF isBusy, Parties
    <3> QED BY <2>2, <3>1, LineKept
  <2> QED BY <2>1, <2>2
<1>9. /\ LineIn(s, u) = Lines!Taken(v, FALSE, TRUE)
      /\ u # v => LineIn(s, v) = Lines!Taken(u, FALSE, u = v)
  BY DEF LineIn, Other, Lines!Taken
<1> HIDE DEF s
<1>10. LineMap' = [LineMap EXCEPT ![v] = Lines!Taken(u, FALSE, u = v),
                                  ![u] = Lines!Taken(v, FALSE, TRUE)]
  <2>1. ASSUME NEW w \in User
        PROVE  LineOf(w)' = [LineMap EXCEPT ![v] = Lines!Taken(u, FALSE, u = v),
                                            ![u] = Lines!Taken(v, FALSE, TRUE)][w]
    BY <1>7, <1>8, <1>9 DEF LineMap
  <2> QED BY <2>1 DEF LineMap
<1> QED BY <1>6, <1>10 DEF Lines!Ring, LineMap

(* Switching a line through changes one field of it. *)
LEMMA SwitchedThrough ==
    ASSUME NEW b, NEW p, NEW t, NEW k, NEW x
    PROVE  [[busy |-> b, peer |-> p, talking |-> t, calling |-> k]
              EXCEPT !.talking = x]
              = [busy |-> b, peer |-> p, talking |-> x, calling |-> k]
OBVIOUS

LEMMA AcceptAnswers ==
    ASSUME CallInv, CallInv', NEW v \in User, NEW c \in Calls, accept(c, v)
    PROVE  Lines!Answer(v)
<1>1. sessions' = [sessions EXCEPT ![c].state = "Active"]
  BY DEF accept
<1>2. sessions[c].calleeId = v /\ sessions[c].state = "Ringing"
  BY Zenon DEF accept, ringingError
<1>3. sessions \in [Calls -> CallSession]
  BY DEF CallInv, CallTypeOK
<1>4. /\ Calls' = Calls
      /\ \A d \in Calls \ {c} : sessions'[d] = sessions[d]
      /\ sessions'[c] = [sessions[c] EXCEPT !.state = "Active"]
  BY <1>1, <1>3 DEF Calls
<1> DEFINE s == sessions[c]
           u == s.callerId
<1>5. s \in CallSession /\ u \in User /\ Parties(s) = {u, v}
  BY <1>2, <1>3 DEF CallSession, Parties
<1>6. /\ sessions'[c].callerId = u /\ sessions'[c].calleeId = v
      /\ sessions'[c].state = "Active" /\ Parties(sessions'[c]) = {u, v}
  BY <1>2, <1>4, <1>5 DEF CallSession, Parties
<1>7. /\ LineMap[v].busy = TRUE
      /\ LineMap[v].talking = FALSE
      /\ LineMap[v].calling => LineMap[v].peer = v
      /\ LineMap[v].peer = u
  <2>1. v \in Parties(sessions[c])
    BY <1>5
  <2>2. /\ LineOf(v).busy = TRUE
        /\ LineOf(v).peer = Other(sessions[c], v)
        /\ LineOf(v).talking = (sessions[c].state = "Active")
        /\ LineOf(v).calling = (sessions[c].callerId = v)
    BY <2>1, LineFields
  <2>3. Other(sessions[c], v) = u
    BY <1>2 DEF Other
  <2>4. (sessions[c].state = "Active") = FALSE
    BY <1>2
  <2>5. LineMap[v] = LineOf(v)
    BY DEF LineMap
  <2> QED BY <2>2, <2>3, <2>4, <2>5
<1>8. ASSUME NEW w \in {u, v}
      PROVE  LineOf(w)' = [LineMap[w] EXCEPT !.talking = TRUE]
  <2>1. LineOf(w) = LineIn(s, w)
    BY <1>5, LineOfParty
  <2>2. LineOf(w)' = LineIn(sessions'[c], w)
    <3>1. isBusy(w)'
      BY <1>4, <1>6 DEF isBusy
    <3>2. CallOf(w)' \in Calls' /\ w \in Parties(sessions'[CallOf(w)'])
      BY <1>4, <1>6 DEF CallOf
    <3>3. CallOf(w)' = c
      BY <1>4, <1>6, <3>2 DEF CallInv, OneCallPerUser
    <3> QED BY <3>1, <3>3 DEF LineOf, LineIn
  <2>3. w \in User
    BY <1>5
  <2> DEFINE r == [busy |-> TRUE, peer |-> Other(s, w), talking |-> TRUE,
                   calling |-> s.callerId = w]
  <2>4. LineIn(sessions'[c], w) = r
    <3>1. Other(sessions'[c], w) = Other(s, w)
      BY <1>2, <1>6 DEF Other
    <3>2. (sessions'[c].state = "Active") = TRUE
      BY <1>6
    <3>3. (sessions'[c].callerId = w) = (s.callerId = w)
      BY <1>6
    <3> QED BY <3>1, <3>2, <3>3, Zenon DEF LineIn
  <2>5. [LineIn(s, w) EXCEPT !.talking = TRUE] = r
    <3> DEFINE t == s.state = "Active"
               k == s.callerId = w
               p == Other(s, w)
               b == TRUE
    <3>1. LineIn(s, w) = [busy |-> b, peer |-> p, talking |-> t, calling |-> k]
      BY Zenon DEF LineIn
    <3>2. r = [busy |-> b, peer |-> p, talking |-> b, calling |-> k]
      BY Zenon
    <3>3. \A x : [[busy |-> b, peer |-> p, talking |-> t, calling |-> k]
                     EXCEPT !.talking = x]
                  = [busy |-> b, peer |-> p, talking |-> x, calling |-> k]
      <4> HIDE DEF b, p, t, k
      <4> QED BY SwitchedThrough
    <3> HIDE DEF p, t, k, r
    <3> QED BY <3>1, <3>2, <3>3, Zenon
  <2>6. LineMap[w] = LineIn(s, w)
    BY <2>1, <2>3 DEF LineMap
  <2> QED BY <2>2, <2>4, <2>5, <2>6
<1>9. ASSUME NEW w \in User \ {u, v}
      PROVE  LineOf(w)' = LineOf(w)
  <2>1. CASE isBusy(w)
    <3>1. PICK d \in Calls : w \in Parties(sessions[d])
      BY <2>1 DEF isBusy
    <3>2. d # c
      BY <1>5, <3>1
    <3> QED BY <1>4, <3>1, <3>2, LineKept
  <2>2. CASE ~isBusy(w)
    <3>1. ~isBusy(w)'
      BY <1>4, <1>6, <2>2 DEF isBusy, Parties
    <3> QED BY <2>2, <3>1, LineKept
  <2> QED BY <2>1, <2>2
<1> HIDE DEF s, u
<1>10. LineMap' = [LineMap EXCEPT ![v].talking = TRUE, ![LineMap[v].peer].talking = TRUE]
  <2>1. ASSUME NEW w \in User
        PROVE  LineOf(w)' =
                  [LineMap EXCEPT ![v].talking = TRUE, ![u].talking = TRUE][w]
    <3>1. CASE w \in {u, v} /\ u # v
      BY <1>5, <1>8, <3>1 DEF LineMap
    <3>2. CASE w = v /\ u = v
      <4>1. LineOf(v) = LineIn(s, v)
        BY <1>5, LineOfParty DEF s
      <4>2. [[LineMap[v] EXCEPT !.talking = TRUE] EXCEPT !.talking = TRUE]
               = [LineMap[v] EXCEPT !.talking = TRUE]
        BY <4>1 DEF LineMap, LineIn
      <4> QED BY <1>8, <3>2, <4>2 DEF LineMap
    <3>3. CASE w \notin {u, v}
      BY <1>5, <1>9, <3>3 DEF LineMap
    <3> QED BY <3>1, <3>2, <3>3
  <2> QED BY <1>7, <2>1 DEF LineMap
<1> QED BY <1>7, <1>10 DEF Lines!Answer, LineMap

(* Erasing sessions, one or a batch, frees the lines of all their parties
   and of nobody else. *)
LEMMA EraseReleases ==
    ASSUME CallInv, CallInv', NEW S \in SUBSET Calls,
           sessions' = Erase(sessions, S)
    PROVE  \E U \in SUBSET User : Lines!Release(U)
<1> DEFINE U == UNION {Parties(sessions[c]) : c \in S}
<1>1. /\ Calls' = Calls \ S
      /\ \A c \in Calls' : sessions'[c] = sessions[c]
  BY DEF Erase, Restrict, Calls
<1>2. U \in SUBSET User
  <2>1. ASSUME NEW c \in S PROVE Parties(sessions[c]) \subseteq User
    BY DEF CallInv, CallTypeOK, CallSession, Parties
  <2> QED BY <2>1
<1>3. ASSUME NEW u \in U
      PROVE  /\ LineMap[u].busy
             /\ LineMap[u].peer \in U
             /\ LineOf(u)' = [busy |-> FALSE]
  <2>1. PICK c \in S : u \in Parties(sessions[c])
    OBVIOUS
  <2>2. /\ LineOf(u).busy = TRUE
        /\ LineOf(u).peer \in Parties(sessions[c])
    BY <2>1, LineFields
  <2>3. ~isBusy(u)'
    BY <1>1, <2>1 DEF isBusy, CallInv, OneCallPerUser
  <2>4. u \in User
    BY <1>2
  <2> QED BY <2>2, <2>3, <2>4 DEF LineMap, LineOf
<1>4. ASSUME NEW u \in User \ U
      PROVE  LineOf(u)' = LineOf(u)
  <2>1. CASE isBusy(u)
    <3>1. PICK d \in Calls : u \in Parties(sessions[d])
      BY <2>1 DEF isBusy
    <3>2. d \in Calls'
      BY <1>1, <3>1
    <3> QED BY <1>1, <3>1, <3>2, LineKept
  <2>2. CASE ~isBusy(u)
    <3>1. ~isBusy(u)'
      BY <1>1, <2>2 DEF isBusy
    <3> QED BY <2>2, <3>1, LineKept
  <2> QED BY <2>1, <2>2
<1> HIDE DEF U
<1>5. LineMap' = [u \in User |-> IF u \in U THEN Lines!Free ELSE LineMap[u]]
  BY <1>3, <1>4 DEF LineMap, Lines!Free
<1>6. Lines!Release(U)
  BY <1>3, <1>5 DEF Lines!Release, LineMap
<1> QED BY <1>2, <1>6

LEMMA TickStutters ==
    ASSUME CallInv, CallInv', Tick
    PROVE  LineMap' = LineMap
<1>1. Calls' = Calls
  BY DEF Tick, Calls
<1>2. ASSUME NEW d \in Calls
      PROVE  /\ sessions'[d].callerId = sessions[d].callerId
             /\ sessions'[d].calleeId = sessions[d].calleeId
             /\ sessions'[d].state = sessions[d].state
             /\ Parties(sessions'[d]) = Parties(sessions[d])
  <2>1. sessions[d] \in CallSession
    BY DEF CallInv, CallTypeOK
  <2>2. sessions'[d] \in {sessions[d], [sessions[d] EXCEPT !.age = @ + 1]}
    BY DEF Tick
  <2> QED BY <2>1, <2>2 DEF CallSession, Parties
<1>3. ASSUME NEW u \in User PROVE LineOf(u)' = LineOf(u)
  <2>1. CASE isBusy(u)
    <3>1. PICK d \in Calls : u \in Parties(sessions[d])
      BY <2>1 DEF isBusy
    <3> QED BY <1>1, <1>2, <3>1, LineKept
  <2>2. CASE ~isBusy(u)
    <3>1. ~isBusy(u)'
      BY <1>1, <1>2, <2>2 DEF isBusy
    <3> QED BY <2>2, <3>1, LineKept
  <2> QED BY <2>1, <2>2
<1> QED BY <1>3 DEF LineMap

(* The call table implements the users' telephone lines, for every number of
   users and calls: every operation, the expiry of a batch of calls
   included, takes, switches through or frees both ends at once
   (call_manager.cpp:34-132). *)
THEOREM TableIsLines == CallSpec => ImplementsLines
<1>1. CallInit => Lines!LinesInit
  BY DEF CallInit, Lines!LinesInit, Lines!Free, LineOf, isBusy, Calls
<1>2. CallInv /\ CallInv' /\ [CallNext]_callVars => [Lines!LinesNext]_LineMap
  <2> SUFFICES ASSUME CallInv, CallInv', [CallNext]_callVars
               PROVE  [Lines!LinesNext]_LineMap
    OBVIOUS
  <2>1. ASSUME NEW u \in User, NEW v \in User, NEW c \in CallId, create(u, v, c)
        PROVE  Lines!LinesNext
    BY <2>1, CreateRings DEF Lines!LinesNext
  <2>2. ASSUME NEW u \in User, NEW c \in Calls, accept(c, u)
        PROVE  Lines!LinesNext
    BY <2>2, AcceptAnswers DEF Lines!LinesNext
  <2>3. ASSUME NEW u \in User, NEW c \in Calls, reject(c, u) \/ hangup(c, u)
        PROVE  Lines!LinesNext
    BY <2>3, EraseReleases DEF reject, hangup, Lines!LinesNext
  <2>4. CASE expireRinging
    <3>1. Overdue \in SUBSET Calls
      BY DEF Overdue
    <3> QED BY <2>4, <3>1, EraseReleases DEF expireRinging, Lines!LinesNext
  <2>5. CASE Tick
    BY <2>5, TickStutters
  <2>6. CASE UNCHANGED callVars
    <3>1. \A u \in User : LineOf(u)' = LineOf(u)
      BY <2>6 DEF callVars, LineOf, isBusy, CallOf, Calls
    <3> QED BY <3>1 DEF LineMap
  <2> QED BY <2>1, <2>2, <2>3, <2>4, <2>5, <2>6 DEF CallNext
<1> QED BY <1>1, <1>2, CallInvAlways, PTL
        DEF CallSpec, ImplementsLines, Lines!LinesSpec, LineMap
============================================================================
