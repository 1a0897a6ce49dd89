---------------------------- MODULE JitterBuffer ----------------------------
(***************************************************************************)
(* audio::JitterBuffer (client_cli/src/audio/jitter_buffer.hpp): the ring  *)
(* of samples between the threads that receive audio, or play a file, and  *)
(* the playback thread.  Every operation holds mutex_, so each is a single *)
(* action; its loop over the samples is written as the function it leaves  *)
(* behind.                                                                 *)
(***************************************************************************)
EXTENDS Integers, Sequences

CONSTANTS
    Sample,     \* sample values; 0 is silence
    capacity_,  \* capacity_ms * sample_rate / 1000
    MaxBlock    \* bound: samples of one write or read

ASSUME JitterAssumption == capacity_ \in Nat \ {0} /\ 0 \in Sample /\ MaxBlock \in Nat

VARIABLES
    buffer_, write_pos_, read_pos_, available_,
    out         \* what the last read wrote to its argument

jitterVars == <<buffer_, write_pos_, read_pos_, available_, out>>

Pos == 0 .. capacity_ - 1

Silent == [p \in Pos |-> 0]

\* The place of a position that has run past the end of the ring.
Wrap(i) == i % capacity_

JitterInit ==
    /\ buffer_ = Silent
    /\ write_pos_ = 0 /\ read_pos_ = 0 /\ available_ = 0
    /\ out = <<>>

\* How many samples fit: the write loop stops at count or at capacity_.
Fits(count) == IF count < capacity_ - available_ THEN count ELSE capacity_ - available_

write(data) ==
    LET n == Fits(Len(data))
        Offset(p) == Wrap(p - write_pos_ + capacity_)
    IN  /\ buffer_' = [p \in Pos |-> IF Offset(p) < n THEN data[Offset(p) + 1]
                                     ELSE buffer_[p]]
        /\ write_pos_' = Wrap(write_pos_ + n)
        /\ available_' = available_ + n
        /\ UNCHANGED <<read_pos_, out>>

\* Mutant of read: an empty buffer gives old samples, not silence.
readStale(count) ==
    LET n == IF count < available_ THEN count ELSE available_
    IN  /\ out' = [i \in 1 .. count |-> buffer_[Wrap(read_pos_ + i - 1)]]
        /\ read_pos_' = Wrap(read_pos_ + n)
        /\ available_' = available_ - n
        /\ UNCHANGED <<buffer_, write_pos_>>

read(count) ==
    LET n == IF count < available_ THEN count ELSE available_
    IN  /\ out' = [i \in 1 .. count |->
                     IF i <= n THEN buffer_[Wrap(read_pos_ + i - 1)] ELSE 0]
        /\ read_pos_' = Wrap(read_pos_ + n)
        /\ available_' = available_ - n
        /\ UNCHANGED <<buffer_, write_pos_>>

\* Mutant of clear: read_pos_ is not reset.
clearHalf ==
    /\ write_pos_' = 0 /\ available_' = 0
    /\ buffer_' = Silent
    /\ UNCHANGED <<read_pos_, out>>

clear ==
    /\ write_pos_' = 0 /\ read_pos_' = 0 /\ available_' = 0
    /\ buffer_' = Silent
    /\ UNCHANGED out

Data == UNION {[1 .. n -> Sample] : n \in 0 .. MaxBlock}

\* Playback::write and playFile, Playback::loop, and Playback::stop.
JitterNext ==
    \/ \E data \in Data : write(data)
    \/ \E count \in 0 .. MaxBlock : read(count)
    \/ clear

JitterSpec == JitterInit /\ [][JitterNext]_jitterVars

----------------------------------------------------------------------------

(* The positions and the count of the ring agree: the next free place is
   available_ places after the oldest sample, modulo the capacity, at every
   wrap-around (jitter_buffer.hpp:24-27, 34-37, 51). *)
JitterTypeOK ==
    /\ buffer_ \in [Pos -> Sample]
    /\ write_pos_ \in Pos /\ read_pos_ \in Pos
    /\ available_ \in 0 .. capacity_
    /\ write_pos_ = Wrap(read_pos_ + available_)

Queue == INSTANCE SampleQueue WITH
    Capacity <- capacity_,
    queue <- [i \in 1 .. available_ |-> buffer_[Wrap(read_pos_ + i - 1)]]

(* The ring, across any sequence of writes, reads and clears, behaves as a
   bounded queue that drops the newest samples when full and pads with
   silence when empty (jitter_buffer.hpp:22-53). *)
ImplementsQueue == Queue!QueueSpec
============================================================================
