----------------------------- MODULE CallLines -----------------------------
(***************************************************************************)
(* What the call table promises its users, without call identifiers,       *)
(* clocks or a table: every user has one telephone line, and the lines of  *)
(* the two ends of a call are taken, switched through and released         *)
(* together.                                                               *)
(***************************************************************************)
CONSTANT User

VARIABLE line     \* line[u]: the state of u's line

Free == [busy |-> FALSE]

Taken(peer, talking, calling) ==
    [busy |-> TRUE, peer |-> peer, talking |-> talking, calling |-> calling]

LinesInit == line = [u \in User |-> Free]

\* u rings v: both lines must be free and both are taken at once.
Ring(u, v) ==
    /\ line[u] = Free
    /\ line[v] = Free
    /\ line' = [line EXCEPT ![v] = Taken(u, FALSE, u = v),
                            ![u] = Taken(v, FALSE, TRUE)]

\* The called user answers: both ends are switched through.
Answer(v) ==
    /\ line[v].busy
    /\ ~line[v].talking
    /\ line[v].calling => line[v].peer = v
    /\ line' = [line EXCEPT ![v].talking = TRUE, ![line[v].peer].talking = TRUE]

\* The lines of the users in S fall free, and nobody keeps a dead end: S is
\* closed under "the other end of the call".
Release(S) ==
    /\ \A u \in S : line[u].busy /\ line[u].peer \in S
    /\ line' = [u \in User |-> IF u \in S THEN Free ELSE line[u]]

LinesNext ==
    \/ \E u, v \in User : Ring(u, v)
    \/ \E v \in User : Answer(v)
    \/ \E S \in SUBSET User : Release(S)

LinesSpec == LinesInit /\ [][LinesNext]_line
============================================================================
