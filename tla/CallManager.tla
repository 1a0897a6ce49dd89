---------------------------- MODULE CallManager ----------------------------
(***************************************************************************)
(* calls::CallManager (backend/calls/call_manager.cpp): the table of call  *)
(* sessions of the signalling server.  Every public operation runs under   *)
(* CallManager::mutex_, so each one is a single action here; a thrown      *)
(* std::runtime_error changes nothing and is an error operator that the    *)
(* callers of this module read.                                            *)
(***************************************************************************)
EXTENDS Integers, FiniteSets, Functions

CONSTANTS
    User,         \* user identifiers, registered or not: "to" is not checked
    CallId,       \* the UUIDs that generateUuid may return
    RingTimeout   \* ring_timeout_, in clock ticks

ASSUME RingTimeoutAssumption == RingTimeout \in Nat

VARIABLES
    sessions,     \* sessions_: CallId -> CallSession, on the calls that live
    issued        \* the UUIDs generated so far

callVars == <<sessions, issued>>

(***************************************************************************)
(* CallSession.  Ended never stays in the table: the operations that set   *)
(* it erase the session before they unlock.  "age" is now - createdAt,     *)
(* saturated one tick past the timeout, which is all that the only reader  *)
(* of createdAt (expireRinging) distinguishes.                             *)
(***************************************************************************)
CallState == {"Ringing", "Active"}

Age == 0 .. (RingTimeout + 1)

CallSession == [callerId : User, calleeId : User, state : CallState, age : Age]

Parties(s) == {s.callerId, s.calleeId}

\* The other end of a session for userId; router.cpp computes otherId so.
Other(s, userId) == IF s.callerId = userId THEN s.calleeId ELSE s.callerId

Calls == DOMAIN sessions

Put(f, k, v) == [x \in DOMAIN f \cup {k} |-> IF x = k THEN v ELSE f[x]]

Erase(f, S) == Restrict(f, DOMAIN f \ S)

----------------------------------------------------------------------------

\* Mutant of isBusy: forgets that a callee is busy too.
isBusyAsCaller(userId) == \E c \in Calls : userId = sessions[c].callerId

isBusy(userId) == \E c \in Calls : userId \in Parties(sessions[c])

\* Mutant of createError: the callee's line is not looked at.
createErrorOneSided(callerId, calleeId) ==
    IF isBusy(callerId) THEN "caller is busy" ELSE "none"

\* The exception create would throw, or "none".
createError(callerId, calleeId) ==
    CASE isBusy(callerId) -> "caller is busy"
      [] ~isBusy(callerId) /\ isBusy(calleeId) -> "callee is busy"
      [] OTHER -> "none"

create(callerId, calleeId, callId) ==
    /\ createError(callerId, calleeId) = "none"
    /\ callId \in CallId \ issued
    /\ issued' = issued \cup {callId}
    /\ sessions' = Put(sessions, callId,
                       [callerId |-> callerId, calleeId |-> calleeId,
                        state |-> "Ringing", age |-> 0])

\* The exception accept and reject would throw, or "none".
ringingError(callId, userId) ==
    CASE callId \notin Calls -> "call not found"
      [] callId \in Calls /\ sessions[callId].calleeId # userId
            -> "wrong callee"
      [] callId \in Calls /\ sessions[callId].calleeId = userId
                          /\ sessions[callId].state # "Ringing"
            -> "call not ringing"
      [] OTHER -> "none"

accept(callId, userId) ==
    /\ ringingError(callId, userId) = "none"
    /\ sessions' = [sessions EXCEPT ![callId].state = "Active"]
    /\ UNCHANGED issued

\* Mutant of reject: marks the session Ended and leaves it in the table.
rejectWithoutErase(callId, userId) ==
    /\ ringingError(callId, userId) = "none"
    /\ sessions' = [sessions EXCEPT ![callId].state = "Ended"]
    /\ UNCHANGED issued

reject(callId, userId) ==
    /\ ringingError(callId, userId) = "none"
    /\ sessions' = Erase(sessions, {callId})
    /\ UNCHANGED issued

\* The exception hangup would throw, or "none".
hangupError(callId, userId) ==
    CASE callId \notin Calls -> "call not found"
      [] callId \in Calls /\ userId \notin Parties(sessions[callId])
            -> "user not in call"
      [] OTHER -> "none"

hangup(callId, userId) ==
    /\ hangupError(callId, userId) = "none"
    /\ sessions' = Erase(sessions, {callId})
    /\ UNCHANGED issued

\* Mutant of Overdue: tests for the wrong state.
OverdueActive == {c \in Calls : /\ sessions[c].state = "Active"
                                /\ sessions[c].age > RingTimeout}

\* The ringing calls whose ring time has run out.
Overdue == {c \in Calls : /\ sessions[c].state = "Ringing"
                          /\ sessions[c].age > RingTimeout}

\* Mutant of expireRinging: returns the overdue calls without erasing them.
expireWithoutErase == UNCHANGED callVars

expireRinging ==
    /\ sessions' = Erase(sessions, Overdue)
    /\ UNCHANGED issued

\* The steady clock moves on.  createdAt of an active call is never read
\* again, so its age stands still.
Tick ==
    /\ \E c \in Calls : sessions[c].state = "Ringing"
                        /\ sessions[c].age <= RingTimeout
    /\ sessions' = [c \in Calls |->
                      IF sessions[c].state = "Ringing"
                         /\ sessions[c].age <= RingTimeout
                      THEN [sessions[c] EXCEPT !.age = @ + 1]
                      ELSE sessions[c]]
    /\ UNCHANGED issued

----------------------------------------------------------------------------

CallInit == sessions = [c \in {} |-> {}] /\ issued = {}

CallNext ==
    \/ \E u, v \in User, c \in CallId : create(u, v, c)
    \/ \E u \in User, c \in Calls : accept(c, u) \/ reject(c, u) \/ hangup(c, u)
    \/ Overdue # {} /\ expireRinging
    \/ Tick

CallSpec == CallInit /\ [][CallNext]_callVars

(* The clock and the expire timer of main.cpp:116-127 run for ever; users
   owe nothing. *)
CallFairSpec ==
    CallSpec /\ WF_callVars(Tick) /\ WF_callVars(expireRinging)

----------------------------------------------------------------------------

(* Type invariant of sessions_ (call_manager.hpp:18-24, 58): live calls are
   issued calls and each has a well-formed session. *)
CallTypeOK ==
    /\ issued \subseteq CallId
    /\ Calls \subseteq issued
    /\ sessions \in [Calls -> CallSession]

(* create's two isBusy checks and its insertion (call_manager.cpp:38-50) are
   meant to keep a user in at most one live call, whichever side of it he
   is on and however accepts, hangups and timeouts interleave. *)
OneCallPerUser ==
    \A c, d \in Calls :
        Parties(sessions[c]) \cap Parties(sessions[d]) # {} => c = d

----------------------------------------------------------------------------

(***************************************************************************)
(* The abstract specification: one line per user, see CallLines.  The line *)
(* of a user is what the one call he is in, if any, makes of it.           *)
(***************************************************************************)
CallOf(u) == CHOOSE c \in Calls : u \in Parties(sessions[c])

LineOf(u) ==
    IF isBusy(u)
    THEN LET s == sessions[CallOf(u)]
         IN  [busy |-> TRUE, peer |-> Other(s, u), talking |-> s.state = "Active",
              calling |-> s.callerId = u]
    ELSE [busy |-> FALSE]

Lines == INSTANCE CallLines WITH line <- [u \in User |-> LineOf(u)]

(* Every operation of CallManager, expireRinging's batch included, is one
   step on the users' lines that keeps the two ends of a call in agreement
   (call_manager.cpp:34-132). *)
ImplementsLines == Lines!LinesSpec

(* The expire timer (main.cpp:116-127) is re-armed after every run and the
   clock moves on: a call nobody answers stops ringing. *)
RingingEnds ==
    \A c \in CallId :
        (c \in Calls /\ sessions[c].state = "Ringing")
            ~> ~(c \in Calls /\ sessions[c].state = "Ringing")
============================================================================
