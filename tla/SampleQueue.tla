---------------------------- MODULE SampleQueue ----------------------------
(***************************************************************************)
(* What a jitter buffer promises: a queue of at most Capacity samples.     *)
(* Writing appends what fits and drops the newest samples that do not;     *)
(* reading takes the oldest samples, in order, and fills up with silence.  *)
(***************************************************************************)
EXTENDS Integers, Sequences

CONSTANTS
    Sample,     \* sample values
    Capacity,   \* samples the buffer holds
    MaxBlock    \* bound: samples of one write or read

VARIABLES
    queue,      \* the samples that wait, oldest first
    out         \* the samples that the last read returned

Silence == 0

Block == UNION {[1 .. n -> Sample] : n \in 0 .. MaxBlock}

QueueInit == queue = <<>> /\ out = <<>>

Write(data) ==
    LET room == Capacity - Len(queue)
    IN  /\ queue' = queue \o SubSeq(data, 1, IF Len(data) < room THEN Len(data) ELSE room)
        /\ UNCHANGED out

Read(count) ==
    /\ out' = [i \in 1 .. count |-> IF i <= Len(queue) THEN queue[i] ELSE Silence]
    /\ queue' = SubSeq(queue, count + 1, Len(queue))

Clear == queue' = <<>> /\ UNCHANGED out

QueueNext ==
    \/ \E data \in Block : Write(data)
    \/ \E count \in 0 .. MaxBlock : Read(count)
    \/ Clear

QueueSpec == QueueInit /\ [][QueueNext]_<<queue, out>>
============================================================================
