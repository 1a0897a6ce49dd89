---------------------------- MODULE AudioProofs ----------------------------
(***************************************************************************)
(* The audio path of a client, for every capacity of the ring, every block *)
(* size and any number of calls and frames.  First the ring by itself,     *)
(* then the threads around it.                                             *)
(***************************************************************************)
EXTENDS Audio, SequenceTheorems, TLAPS

----------------------------------------------------------------------------
(* The ring.                                                                *)

(* A sum of two ring positions exceeds the capacity at most once. *)
LEMMA ModOnce ==
    ASSUME NEW c \in Nat \ {0}, NEW x \in Nat, x < 2 * c
    PROVE  x % c = IF x < c THEN x ELSE x - c
  <1>1. x % c \in 0 .. c - 1
    OBVIOUS
  <1>2. x = c * (x \div c) + (x % c)
    OBVIOUS
  <1>3. x \div c \in {0, 1}
    BY <1>1, <1>2
  <1> QED
    BY <1>1, <1>2, <1>3

(* The same for the ring's own capacity. *)
LEMMA WrapOnce ==
    ASSUME NEW x \in Nat, x < 2 * capacity_
    PROVE  Wrap(x) = IF x < capacity_ THEN x ELSE x - capacity_
  BY ModOnce, JitterAssumption DEF Wrap

(* A block of the model is a sequence of samples. *)
LEMMA DataType ==
    ASSUME NEW data \in Data
    PROVE  /\ Len(data) \in Nat
           /\ \A i \in 1 .. Len(data) : data[i] \in Sample
  <1>1. PICK n \in 0 .. MaxBlock : data \in [1 .. n -> Sample]
    BY DEF Data
  <1>2. n \in Nat
    BY <1>1, JitterAssumption
  <1>3. data \in Seq(Sample) /\ Len(data) = n
    BY <1>1, <1>2
  <1> QED
    BY <1>1, <1>2, <1>3

(* Writing keeps the positions and the count in agreement. *)
LEMMA WriteKeeps ==
    ASSUME JitterTypeOK, NEW data \in Data, write(data)
    PROVE  JitterTypeOK'
  <1> DEFINE n == Fits(Len(data))
             Offset(p) == Wrap(p - write_pos_ + capacity_)
  <1>0. /\ capacity_ \in Nat \ {0} /\ Len(data) \in Nat
        /\ write_pos_ \in 0 .. capacity_ - 1 /\ read_pos_ \in 0 .. capacity_ - 1
        /\ available_ \in 0 .. capacity_
        /\ write_pos_ = Wrap(read_pos_ + available_)
    BY JitterAssumption, DataType DEF JitterTypeOK, Pos
  <1>1. n \in Nat /\ n <= Len(data) /\ available_ + n <= capacity_
    BY <1>0 DEF Fits
  <1> HIDE DEF n
  <1>2. /\ buffer_' = [p \in Pos |-> IF Offset(p) < n THEN data[Offset(p) + 1]
                                     ELSE buffer_[p]]
        /\ write_pos_' = Wrap(write_pos_ + n)
        /\ available_' = available_ + n
        /\ read_pos_' = read_pos_
    BY DEF write, n
  <1>3. buffer_' \in [Pos -> Sample]
    <2>1. ASSUME NEW p \in Pos
          PROVE  (IF Offset(p) < n THEN data[Offset(p) + 1] ELSE buffer_[p]) \in Sample
      <3>1. buffer_[p] \in Sample
        BY DEF JitterTypeOK
      <3>2. p - write_pos_ + capacity_ \in Nat
        BY <1>0 DEF Pos
      <3>3. Offset(p) \in Nat
        BY <3>2, <1>0 DEF Wrap
      <3>4. Offset(p) < n => Offset(p) + 1 \in 1 .. Len(data)
        BY <3>3, <1>1, <1>0
      <3> QED
        BY <3>1, <3>4, DataType
    <2> QED
      BY <2>1, <1>2
  <1>4. /\ Wrap(read_pos_ + available_)
              = IF read_pos_ + available_ < capacity_ THEN read_pos_ + available_
                ELSE read_pos_ + available_ - capacity_
        /\ Wrap(read_pos_ + (available_ + n))
              = IF read_pos_ + (available_ + n) < capacity_
                THEN read_pos_ + (available_ + n)
                ELSE read_pos_ + (available_ + n) - capacity_
    <2>1. read_pos_ + available_ \in Nat /\ read_pos_ + available_ < 2 * capacity_
      BY <1>0
    <2>2. /\ read_pos_ + (available_ + n) \in Nat
          /\ read_pos_ + (available_ + n) < 2 * capacity_
      BY <1>0, <1>1
    <2> QED
      BY <2>1, <2>2, <1>0, <1>1, WrapOnce
  <1>5. /\ Wrap(write_pos_ + n)
              = IF write_pos_ + n < capacity_ THEN write_pos_ + n
                ELSE write_pos_ + n - capacity_
        /\ Wrap(write_pos_ + n) \in 0 .. capacity_ - 1
    <2>1. write_pos_ + n \in Nat /\ write_pos_ + n < 2 * capacity_
      BY <1>0, <1>1
    <2>2. Wrap(write_pos_ + n)
              = IF write_pos_ + n < capacity_ THEN write_pos_ + n
                ELSE write_pos_ + n - capacity_
      BY <2>1, <1>0, <1>1, WrapOnce
    <2> QED
      BY <2>1, <2>2, <1>0, <1>1
  <1>6. Wrap(write_pos_ + n) = Wrap(read_pos_ + (available_ + n))
    BY <1>0, <1>1, <1>4, <1>5
  <1> QED
    BY <1>0, <1>1, <1>2, <1>3, <1>5, <1>6 DEF JitterTypeOK, Pos

(* So does reading. *)
LEMMA ReadKeeps ==
    ASSUME JitterTypeOK, NEW count \in 0 .. MaxBlock, read(count)
    PROVE  JitterTypeOK'
  <1> DEFINE n == IF count < available_ THEN count ELSE available_
  <1>0. /\ capacity_ \in Nat \ {0} /\ count \in Nat
        /\ write_pos_ \in 0 .. capacity_ - 1 /\ read_pos_ \in 0 .. capacity_ - 1
        /\ available_ \in 0 .. capacity_
        /\ write_pos_ = Wrap(read_pos_ + available_)
    BY JitterAssumption DEF JitterTypeOK, Pos
  <1>1. n \in Nat /\ n <= available_
    BY <1>0
  <1> HIDE DEF n
  <1>2. /\ buffer_' = buffer_ /\ write_pos_' = write_pos_
        /\ available_' = available_ - n
        /\ read_pos_' = Wrap(read_pos_ + n)
    BY DEF read, n
  <1>3. Wrap(read_pos_ + available_)
           = IF read_pos_ + available_ < capacity_ THEN read_pos_ + available_
             ELSE read_pos_ + available_ - capacity_
    <2>1. read_pos_ + available_ \in Nat /\ read_pos_ + available_ < 2 * capacity_
      BY <1>0
    <2> QED
      BY <2>1, <1>0, <1>1, WrapOnce
  <1>4. /\ read_pos_' = IF read_pos_ + n < capacity_ THEN read_pos_ + n
                        ELSE read_pos_ + n - capacity_
        /\ read_pos_' \in 0 .. capacity_ - 1
    <2>1. read_pos_ + n \in Nat /\ read_pos_ + n < 2 * capacity_
      BY <1>0, <1>1
    <2>2. Wrap(read_pos_ + n) = IF read_pos_ + n < capacity_ THEN read_pos_ + n
                                        ELSE read_pos_ + n - capacity_
      BY <2>1, <1>0, <1>1, WrapOnce
    <2> QED
      BY <2>1, <2>2, <1>2, <1>0, <1>1
  <1>5. Wrap(read_pos_' + (available_ - n))
           = IF read_pos_' + (available_ - n) < capacity_
             THEN read_pos_' + (available_ - n)
             ELSE read_pos_' + (available_ - n) - capacity_
    <2>1. /\ read_pos_' + (available_ - n) \in Nat
          /\ read_pos_' + (available_ - n) < 2 * capacity_
      BY <1>0, <1>1, <1>4
    <2> QED
      BY <2>1, <1>0, <1>1, <1>4, WrapOnce
  <1>6. write_pos_ = Wrap(read_pos_' + (available_ - n))
    BY <1>0, <1>1, <1>3, <1>4, <1>5
  <1> QED
    BY <1>0, <1>1, <1>2, <1>4, <1>6 DEF JitterTypeOK, Pos

(* The ring's positions and count agree in every reachable state, for every
   capacity and whatever blocks are written and read
   (jitter_buffer.hpp:22-53). *)
THEOREM RingAgrees == JitterSpec => []JitterTypeOK
  <1>1. JitterInit => JitterTypeOK
    <2>1. Wrap(0) = 0
      <3>1. capacity_ \in Nat \ {0} /\ 0 \in Nat /\ 0 < 2 * capacity_
        BY JitterAssumption
      <3> QED
        BY <3>1, WrapOnce
    <2> QED
      BY <2>1, JitterAssumption DEF JitterInit, JitterTypeOK, Silent, Pos
  <1>2. JitterTypeOK /\ [JitterNext]_jitterVars => JitterTypeOK'
    <2> SUFFICES ASSUME JitterTypeOK, [JitterNext]_jitterVars
                 PROVE  JitterTypeOK'
      OBVIOUS
    <2>1. ASSUME NEW data \in Data, write(data) PROVE JitterTypeOK'
      BY <2>1, WriteKeeps
    <2>2. ASSUME NEW count \in 0 .. MaxBlock, read(count) PROVE JitterTypeOK'
      BY <2>2, ReadKeeps
    <2>3. CASE clear
      <3>1. Wrap(0) = 0
        <4>1. capacity_ \in Nat \ {0} /\ 0 \in Nat /\ 0 < 2 * capacity_
          BY JitterAssumption
        <4> QED
          BY <4>1, WrapOnce
      <3> QED
        BY <2>3, <3>1, JitterAssumption DEF clear, JitterTypeOK, Silent, Pos
    <2>4. CASE UNCHANGED jitterVars
      BY <2>4 DEF jitterVars, JitterTypeOK
    <2> QED
      BY <2>1, <2>2, <2>3, <2>4 DEF JitterNext
  <1> QED
    BY <1>1, <1>2, PTL DEF JitterSpec

----------------------------------------------------------------------------
(* The refinement of SampleQueue. *)

\* The samples that wait, as JitterBuffer maps them to a queue.
Waiting == [i \in 1 .. available_ |-> buffer_[Wrap(read_pos_ + i - 1)]]

(* How far behind write_pos_ the place of the i-th sample from the oldest
   lies: the places past the waiting ones come first. *)
LEMMA OffsetOf ==
    ASSUME JitterTypeOK, NEW i \in 1 .. capacity_
    PROVE  /\ Wrap(read_pos_ + i - 1) \in Pos
           /\ Wrap(Wrap(read_pos_ + i - 1) - write_pos_ + capacity_)
                 = IF i > available_ THEN i - 1 - available_
                   ELSE i - 1 - available_ + capacity_
  <1>0. /\ capacity_ \in Nat \ {0}
        /\ write_pos_ \in 0 .. capacity_ - 1 /\ read_pos_ \in 0 .. capacity_ - 1
        /\ available_ \in 0 .. capacity_
        /\ write_pos_ = Wrap(read_pos_ + available_)
    BY JitterAssumption DEF JitterTypeOK, Pos
  <1>1. Wrap(read_pos_ + available_)
           = IF read_pos_ + available_ < capacity_ THEN read_pos_ + available_
             ELSE read_pos_ + available_ - capacity_
    <2>1. read_pos_ + available_ \in Nat /\ read_pos_ + available_ < 2 * capacity_
      BY <1>0
    <2> QED
      BY <1>0, <2>1, WrapOnce
  <1> DEFINE p == Wrap(read_pos_ + i - 1)
  <1>2. p = IF read_pos_ + i - 1 < capacity_ THEN read_pos_ + i - 1
            ELSE read_pos_ + i - 1 - capacity_
    <2>1. read_pos_ + i - 1 \in Nat /\ read_pos_ + i - 1 < 2 * capacity_
      BY <1>0
    <2> QED
      BY <1>0, <2>1, WrapOnce
  <1> HIDE DEF p
  <1>3. p \in 0 .. capacity_ - 1
    BY <1>0, <1>2
  <1>4. Wrap(p - write_pos_ + capacity_)
           = IF p - write_pos_ + capacity_ < capacity_ THEN p - write_pos_ + capacity_
             ELSE p - write_pos_ + capacity_ - capacity_
    <2>1. /\ p - write_pos_ + capacity_ \in Nat
          /\ p - write_pos_ + capacity_ < 2 * capacity_
      BY <1>0, <1>3
    <2> QED
      BY <1>0, <1>3, <2>1, WrapOnce
  <1>5. Wrap(p - write_pos_ + capacity_)
           = IF i > available_ THEN i - 1 - available_ ELSE i - 1 - available_ + capacity_
    BY <1>0, <1>1, <1>2, <1>3, <1>4
  <1> QED
    BY <1>3, <1>5 DEF p, Pos

(* What waits is a sequence of samples. *)
LEMMA WaitingType ==
    ASSUME JitterTypeOK
    PROVE  /\ Waiting \in Seq(Sample) /\ Len(Waiting) = available_
           /\ \A i \in 1 .. available_ :
                 Waiting[i] = buffer_[Wrap(read_pos_ + i - 1)]
  <1>1. available_ \in Nat /\ available_ \in 0 .. capacity_ /\ capacity_ \in Nat
    BY JitterAssumption DEF JitterTypeOK
  <1>2. \A i \in 1 .. available_ : buffer_[Wrap(read_pos_ + i - 1)] \in Sample
    BY <1>1, OffsetOf DEF JitterTypeOK
  <1> QED
    BY <1>1, <1>2 DEF Waiting

(* write appends what fits. *)
LEMMA WriteAppends ==
    ASSUME JitterTypeOK, NEW data \in Data, write(data)
    PROVE  Waiting' = Waiting \o SubSeq(data, 1, Fits(Len(data)))
  <1> DEFINE n == Fits(Len(data))
             Offset(p) == Wrap(p - write_pos_ + capacity_)
  <1>0. /\ capacity_ \in Nat \ {0} /\ Len(data) \in Nat
        /\ available_ \in 0 .. capacity_
    BY JitterAssumption, DataType DEF JitterTypeOK, Pos
  <1>1. n \in Nat /\ n <= Len(data) /\ available_ + n <= capacity_
    BY <1>0 DEF Fits
  <1>2. data \in Seq(Sample)
    <2>1. PICK k \in 0 .. MaxBlock : data \in [1 .. k -> Sample]
      BY DEF Data
    <2> QED
      BY <2>1, JitterAssumption
  <1> HIDE DEF n
  <1>3. /\ buffer_' = [p \in Pos |-> IF Offset(p) < n THEN data[Offset(p) + 1]
                                     ELSE buffer_[p]]
        /\ available_' = available_ + n
        /\ read_pos_' = read_pos_
    BY DEF write, n
  <1> DEFINE new == SubSeq(data, 1, n)
  <1>4. new \in Seq(Sample) /\ Len(new) = n /\ \A j \in 1 .. n : new[j] = data[j]
    BY <1>0, <1>1, <1>2
  <1> HIDE DEF new
  <1>5. /\ Waiting \o new \in Seq(Sample)
        /\ Len(Waiting \o new) = available_ + n
        /\ \A i \in 1 .. available_ + n : (Waiting \o new)[i] =
              IF i <= available_ THEN buffer_[Wrap(read_pos_ + i - 1)]
              ELSE data[i - available_]
    <2> HIDE DEF Offset
    <2>1. Waiting \in Seq(Sample) /\ Len(Waiting) = available_
      BY WaitingType
    <2>2. /\ Waiting \o new \in Seq(Sample)
          /\ Len(Waiting \o new) = available_ + n
          /\ \A i \in 1 .. available_ + n : (Waiting \o new)[i] =
                IF i <= available_ THEN Waiting[i] ELSE new[i - available_]
      BY <1>4, <2>1, ConcatProperties
    <2> QED
      BY <1>0, <1>1, <1>4, <2>2, WaitingType
  <1>6. Waiting' = [i \in 1 .. available_ + n |-> buffer_'[Wrap(read_pos_ + i - 1)]]
    BY <1>3 DEF Waiting
  <1>7. ASSUME NEW i \in 1 .. available_ + n
        PROVE  buffer_'[Wrap(read_pos_ + i - 1)] = (Waiting \o new)[i]
    <2>1. i \in 1 .. capacity_
      BY <1>0, <1>1
    <2> DEFINE p == Wrap(read_pos_ + i - 1)
    <2>2. p \in Pos /\ Offset(p) = IF i > available_ THEN i - 1 - available_
                                   ELSE i - 1 - available_ + capacity_
      BY <2>1, OffsetOf
    <2> HIDE DEF p, Offset
    <2>3. buffer_'[p] = IF Offset(p) < n THEN data[Offset(p) + 1] ELSE buffer_[p]
      BY <1>3, <2>2
    <2>4. CASE i > available_
      BY <1>0, <1>1, <1>5, <2>2, <2>3, <2>4 DEF p
    <2>5. CASE i <= available_
      BY <1>0, <1>1, <1>5, <2>2, <2>3, <2>5 DEF p
    <2>6. i > available_ \/ i <= available_
      BY <1>0, <2>1
    <2> QED
      BY <2>4, <2>5, <2>6
  <1>8. Waiting \o new = [i \in 1 .. available_ + n |-> (Waiting \o new)[i]]
    <2>1. Waiting \o new \in [1 .. available_ + n -> Sample]
      BY <1>5, LenProperties
    <2> QED
      BY <2>1
  <1> QED
    BY <1>6, <1>7, <1>8 DEF new, n

(* read takes the oldest samples, in order, and pads with silence. *)
LEMMA ReadTakes ==
    ASSUME JitterTypeOK, NEW count \in 0 .. MaxBlock, read(count)
    PROVE  /\ Waiting' = SubSeq(Waiting, count + 1, Len(Waiting))
           /\ out' = [i \in 1 .. count |-> IF i <= Len(Waiting) THEN Waiting[i] ELSE 0]
  <1> DEFINE n == IF count < available_ THEN count ELSE available_
  <1>0. /\ capacity_ \in Nat \ {0} /\ count \in Nat
        /\ read_pos_ \in 0 .. capacity_ - 1
        /\ available_ \in 0 .. capacity_
    BY JitterAssumption DEF JitterTypeOK, Pos
  <1>1. n \in Nat /\ n <= available_ /\ n <= count /\ (n < count => n = available_)
    BY <1>0
  <1>2. /\ out' = [i \in 1 .. count |->
                     IF i <= n THEN buffer_[Wrap(read_pos_ + i - 1)] ELSE 0]
        /\ read_pos_' = Wrap(read_pos_ + n)
        /\ available_' = available_ - n
        /\ buffer_' = buffer_
    BY DEF read
  <1> HIDE DEF n
  <1>3. out' = [i \in 1 .. count |-> IF i <= Len(Waiting) THEN Waiting[i] ELSE 0]
    <2>1. \A i \in 1 .. count : (i <= n) <=> (i <= Len(Waiting))
      BY <1>0, <1>1, WaitingType
    <2>2. \A i \in 1 .. count : i <= n => Waiting[i] = buffer_[Wrap(read_pos_ + i - 1)]
      BY <1>0, <1>1, WaitingType
    <2> QED
      BY <1>2, <2>1, <2>2
  <1>4. SubSeq(Waiting, count + 1, Len(Waiting))
           = [i \in 1 .. available_ - n |-> Waiting[i + n]]
    <2>1. CASE n = count
      <3>1. Len(Waiting) \in Nat /\ Len(Waiting) = available_
        BY <1>0, WaitingType
      <3>2. SubSeq(Waiting, count + 1, Len(Waiting))
               = [i \in 1 .. (Len(Waiting) - (count + 1) + 1) |-> Waiting[i + (count + 1) - 1]]
        BY <1>0, <3>1, WaitingType
      <3>3. /\ Len(Waiting) - (count + 1) + 1 = available_ - n
            /\ \A i \in 1 .. available_ - n : i + (count + 1) - 1 = i + n
        BY <1>0, <1>1, <2>1, <3>1
      <3> QED BY <3>2, <3>3
    <2>2. CASE n < count
      BY <1>0, <1>1, <2>2, WaitingType
    <2> QED
      BY <1>0, <1>1, <2>1, <2>2
  <1>5. ASSUME NEW i \in 1 .. available_ - n
        PROVE  buffer_[Wrap(Wrap(read_pos_ + n) + i - 1)] = Waiting[i + n]
    <2>1. Wrap(read_pos_ + n) = IF read_pos_ + n < capacity_ THEN read_pos_ + n
                                ELSE read_pos_ + n - capacity_
      <3>1. read_pos_ + n \in Nat /\ read_pos_ + n < 2 * capacity_
        BY <1>0, <1>1
      <3> QED
        BY <1>0, <1>1, <3>1, WrapOnce
    <2> DEFINE r == Wrap(read_pos_ + n)
    <2>0. r \in 0 .. capacity_ - 1
      BY <1>0, <1>1, <2>1
    <2> HIDE DEF r
    <2>2. Wrap(r + i - 1) = IF r + i - 1 < capacity_ THEN r + i - 1
                            ELSE r + i - 1 - capacity_
      <3>1. r + i - 1 \in Nat /\ r + i - 1 < 2 * capacity_
        BY <1>0, <1>1, <2>0
      <3> QED
        BY <1>0, <2>0, <3>1, WrapOnce
    <2>3. Wrap(read_pos_ + (i + n) - 1)
             = IF read_pos_ + (i + n) - 1 < capacity_ THEN read_pos_ + (i + n) - 1
               ELSE read_pos_ + (i + n) - 1 - capacity_
      <3>1. read_pos_ + (i + n) - 1 \in Nat /\ read_pos_ + (i + n) - 1 < 2 * capacity_
        BY <1>0, <1>1
      <3> QED
        BY <1>0, <1>1, <2>1, <3>1, WrapOnce
    <2>4. Wrap(r + i - 1) = Wrap(read_pos_ + (i + n) - 1)
      BY <1>0, <1>1, <2>1, <2>2, <2>3 DEF r
    <2>5. i + n \in 1 .. available_
      BY <1>0, <1>1
    <2> QED
      BY <2>4, <2>5, WaitingType DEF r
  <1>6. Waiting' = [i \in 1 .. available_ - n |->
                      buffer_[Wrap(Wrap(read_pos_ + n) + i - 1)]]
    BY <1>2 DEF Waiting
  <1> QED
    BY <1>3, <1>4, <1>5, <1>6

(* The ring implements a bounded queue of samples that drops the newest when
   full and pads with silence when empty, for every capacity and block size
   (jitter_buffer.hpp:22-53). *)
THEOREM RingIsQueue == JitterSpec => ImplementsQueue
  <1>1. JitterInit => Queue!QueueInit
    <2> SUFFICES ASSUME JitterInit PROVE Queue!QueueInit
      OBVIOUS
    <2>1. [i \in 1 .. 0 |-> buffer_[Wrap(read_pos_ + i - 1)]] = <<>>
      OBVIOUS
    <2> QED
      BY <2>1 DEF JitterInit, Queue!QueueInit
  <1>2. JitterTypeOK /\ [JitterNext]_jitterVars
           => [Queue!QueueNext]_<<Waiting, out>>
    <2> SUFFICES ASSUME JitterTypeOK, [JitterNext]_jitterVars
                 PROVE  [Queue!QueueNext]_<<Waiting, out>>
      OBVIOUS
    <2>1. ASSUME NEW data \in Data, write(data) PROVE Queue!QueueNext
      <3>1. data \in Queue!Block
        BY DEF Data, Queue!Block
      <3>2. Queue!Write(data)
        BY <2>1, WriteAppends, WaitingType DEF Queue!Write, Fits, Waiting, write
      <3> QED
        BY <3>1, <3>2 DEF Queue!QueueNext
    <2>2. ASSUME NEW count \in 0 .. MaxBlock, read(count) PROVE Queue!QueueNext
      <3>1. Queue!Read(count)
        BY <2>2, ReadTakes DEF Queue!Read, Queue!Silence, Waiting
      <3> QED
        BY <3>1 DEF Queue!QueueNext
    <2>3. CASE clear
      <3>1. Waiting' = <<>>
        BY <2>3 DEF clear, Waiting
      <3>2. Queue!Clear
        BY <2>3, <3>1 DEF clear, Queue!Clear, Waiting
      <3> QED
        BY <3>2 DEF Queue!QueueNext
    <2>4. CASE UNCHANGED jitterVars
      BY <2>4 DEF jitterVars, Waiting
    <2> QED
      BY <2>1, <2>2, <2>3, <2>4 DEF JitterNext
  <1> QED
    BY <1>1, <1>2, RingAgrees, PTL
       DEF JitterSpec, ImplementsQueue, Queue!QueueSpec, Waiting

----------------------------------------------------------------------------
(* The threads: types, and the lists of steps that tasks work off.          *)

MicPlace == {"none", "loop", "reading", "read", "recording", "callback", "sending", "exited"}

StepName == {"stopCapture", "joinCapture", "newCapture", "startCapture", "stopPlayback",
             "joinPlayback", "newPlayback", "resetPc", "setCallbacks", "resetCall"}

TaskType == [lambda : {"none", "cleanupCall", "initRtc"}, left : Seq(StepName)]

PcType == [connected : BOOLEAN, track : BOOLEAN, ready : BOOLEAN, heard : BOOLEAN]

CaptureType == [id : Nat, recording_ : BOOLEAN, record_buf_ : Seq(Nat)]

MicType == [at : MicPlace, own : BOOLEAN, running_ : BOOLEAN, device : BOOLEAN, frame : Nat]

PlaybackType == [made : BOOLEAN, running_ : BOOLEAN, thread : {"none", "loop", "exited"}]

AudioTypeOK ==
    /\ configs \in [made : Nat, received : Nat]
    /\ call_cleanup_done \in BOOLEAN
    /\ task \in [Thread -> TaskType]
    /\ pc \in PcType
    /\ capture \in CaptureType
    /\ mic \in MicType
    /\ playback \in PlaybackType
    /\ record \in [active : BOOLEAN, id : Nat, from : Nat]

\* A cleanupCall that has come to its i-th step, and an initRtc.
CleanupFrom(i) ==
    [lambda |-> "cleanupCall", left |-> SubSeq(CleanupSteps, i, Len(CleanupSteps))]

InitFrom(i) == [lambda |-> "initRtc", left |-> SubSeq(InitSteps, i, Len(InitSteps))]

(* What is left after a step of a list is the list after that step. *)
LEMMA LeftOfList ==
    ASSUME NEW s \in Seq(StepName), NEW i \in 1 .. Len(s)
    PROVE  /\ SubSeq(s, i, Len(s)) \in Seq(StepName)
           /\ Len(SubSeq(s, i, Len(s))) = Len(s) - i + 1
           /\ Head(SubSeq(s, i, Len(s))) = s[i]
           /\ Tail(SubSeq(s, i, Len(s))) = SubSeq(s, i + 1, Len(s))
<1>1. Len(s) \in Nat /\ i \in 1 .. (Len(s) + 1) /\ Len(s) \in i .. Len(s)
      /\ Len(s) \in (i - 1) .. Len(s)
  BY LenProperties
<1>2. SubSeq(s, i, Len(s)) \in Seq(StepName) /\ Len(SubSeq(s, i, Len(s))) = Len(s) - i + 1
  BY <1>1, SubSeqProperties
<1>3. /\ Head(SubSeq(s, i, Len(s))) = s[i]
      /\ Tail(SubSeq(s, i, Len(s))) = SubSeq(s, i + 1, Len(s))
  BY <1>1, HeadTailOfSubSeq
<1> QED BY <1>2, <1>3

(* The two lists. *)
LEMMA ListTypes ==
    /\ CleanupSteps \in Seq(StepName) /\ Len(CleanupSteps) = 6
    /\ InitSteps \in Seq(StepName) /\ Len(InitSteps) = 7
<1>1. CleanupSteps \in Seq(StepName)
  BY DEF CleanupSteps, StepName
<1>2. InitSteps \in Seq(StepName)
  BY DEF InitSteps, StepName
<1>3. Len(CleanupSteps) = 6
  BY DEF CleanupSteps
<1>4. Len(InitSteps) = 7
  BY DEF InitSteps
<1> QED BY <1>1, <1>2, <1>3, <1>4

(* Where a task is tells what it does next, and what is left then. *)
LEMMA CleanupPlace ==
    ASSUME NEW i \in 1 .. 6
    PROVE  /\ CleanupFrom(i) \in TaskType
           /\ CleanupFrom(i) # NoTask
           /\ CleanupFrom(i).lambda = "cleanupCall"
           /\ Head(CleanupFrom(i).left) = CleanupSteps[i]
           /\ Len(CleanupFrom(i).left) = 7 - i
           /\ [lambda |-> CleanupFrom(i).lambda, left |-> Tail(CleanupFrom(i).left)]
                 = CleanupFrom(i + 1)
<1> DEFINE r == SubSeq(CleanupSteps, i, Len(CleanupSteps))
<1>1. CleanupSteps \in Seq(StepName) /\ Len(CleanupSteps) = 6 /\ i \in 1 .. Len(CleanupSteps)
  BY ListTypes
<1>2. /\ r \in Seq(StepName) /\ Len(r) = Len(CleanupSteps) - i + 1
      /\ Head(r) = CleanupSteps[i]
      /\ Tail(r) = SubSeq(CleanupSteps, i + 1, Len(CleanupSteps))
  BY <1>1, LeftOfList
<1>3. Len(r) = 7 - i
  BY <1>1, <1>2
<1> HIDE DEF r
<1>4. CleanupFrom(i) = [lambda |-> "cleanupCall", left |-> r]
  BY DEF CleanupFrom, r
<1> QED BY <1>2, <1>3, <1>4 DEF CleanupFrom, NoTask, TaskType

LEMMA InitPlace ==
    ASSUME NEW i \in 1 .. 7
    PROVE  /\ InitFrom(i) \in TaskType
           /\ InitFrom(i) # NoTask
           /\ InitFrom(i).lambda = "initRtc"
           /\ Head(InitFrom(i).left) = InitSteps[i]
           /\ Len(InitFrom(i).left) = 8 - i
           /\ [lambda |-> InitFrom(i).lambda, left |-> Tail(InitFrom(i).left)]
                 = InitFrom(i + 1)
<1> DEFINE r == SubSeq(InitSteps, i, Len(InitSteps))
<1>1. InitSteps \in Seq(StepName) /\ Len(InitSteps) = 7 /\ i \in 1 .. Len(InitSteps)
  BY ListTypes
<1>2. /\ r \in Seq(StepName) /\ Len(r) = Len(InitSteps) - i + 1
      /\ Head(r) = InitSteps[i]
      /\ Tail(r) = SubSeq(InitSteps, i + 1, Len(InitSteps))
  BY <1>1, LeftOfList
<1>3. Len(r) = 8 - i
  BY <1>1, <1>2
<1> HIDE DEF r
<1>4. InitFrom(i) = [lambda |-> "initRtc", left |-> r]
  BY DEF InitFrom, r
<1> QED BY <1>2, <1>3, <1>4 DEF InitFrom, NoTask, TaskType

(* A step of a task does what the list says and moves on by one. *)
LEMMA CleanupMoves ==
    ASSUME NEW t \in Thread, NEW i \in 1 .. 6, task[t] = CleanupFrom(i), Step(t)
    PROVE  /\ Do(CleanupSteps[i])
           /\ task' = [task EXCEPT ![t] = IF i = 6 THEN NoTask ELSE CleanupFrom(i + 1)]
<1>0. Len(task[t].left) = 7 - i
  BY CleanupPlace
<1>1. (Len(task[t].left) = 1) <=> (i = 6)
  BY <1>0
<1>2. /\ Head(task[t].left) = CleanupSteps[i]
      /\ [lambda |-> task[t].lambda, left |-> Tail(task[t].left)] = CleanupFrom(i + 1)
  BY CleanupPlace
<1> QED BY <1>1, <1>2 DEF Step

LEMMA InitMoves ==
    ASSUME NEW t \in Thread, NEW i \in 1 .. 7, task[t] = InitFrom(i), Step(t)
    PROVE  /\ Do(InitSteps[i])
           /\ task' = [task EXCEPT ![t] = IF i = 7 THEN NoTask ELSE InitFrom(i + 1)]
<1>0. Len(task[t].left) = 8 - i
  BY InitPlace
<1>1. (Len(task[t].left) = 1) <=> (i = 7)
  BY <1>0
<1>2. /\ Head(task[t].left) = InitSteps[i]
      /\ [lambda |-> task[t].lambda, left |-> Tail(task[t].left)] = InitFrom(i + 1)
  BY InitPlace
<1> QED BY <1>1, <1>2 DEF Step

----------------------------------------------------------------------------
(* What holds while nothing has gone wrong.                                 *)

\* A cleanupCall of thread t that has come to its i-th step: its flag is
\* set, the capture thread is told to stop before it is joined and gone
\* afterwards, and a playback thread that runs while it is joined was
\* started by a remote track.
CleanupOK(t, i) ==
    /\ call_cleanup_done
    /\ i = 2 => ~mic.running_
    /\ i >= 3 => mic.at = "none"
    /\ i = 4 /\ playback.running_ => t = "ws" /\ pc.heard

\* An initRtc: the new peer connection has no callbacks yet, and the Capture
\* in hand is the new one from the third step on.
InitOK(i) ==
    /\ i >= 2 => ~pc.ready
    /\ i <= 2 => capture.id < configs.received
    /\ i >= 3 => capture.id > 0
    /\ i = 3 => ~mic.running_
    /\ i \in {3, 4} => ~mic.own
    /\ i = 4 => mic.at = "none"
    /\ i = 6 => ~playback.running_

Sole == task["ws"] = NoTask \/ task["rtc"] = NoTask

WsOK == \/ task["ws"] = NoTask
        \/ \E i \in 1 .. 6 : task["ws"] = CleanupFrom(i) /\ CleanupOK("ws", i)
        \/ \E i \in 1 .. 7 : task["ws"] = InitFrom(i) /\ InitOK(i)

RtcOK == \/ task["rtc"] = NoTask
         \/ \E i \in 1 .. 6 : task["rtc"] = CleanupFrom(i) /\ CleanupOK("rtc", i)

\* A playback thread that is to stop and is not joined yet is being joined.
UnjoinedOK ==
    ~playback.running_ /\ playback.thread # "none" =>
        \/ task["ws"] = CleanupFrom(4) \/ task["rtc"] = CleanupFrom(4)
        \/ task["ws"] = InitFrom(6)

Flow == Sole /\ WsOK /\ RtcOK /\ UnjoinedOK /\ capture.id <= configs.received

(* Tasks that rest stay in order when the state around them does. *)
LEMMA RestingTasks ==
    ASSUME Flow, UNCHANGED task,
           \A t \in Thread, i \in 1 .. 6 :
               task[t] = CleanupFrom(i) /\ CleanupOK(t, i) => CleanupOK(t, i)',
           \A i \in 1 .. 7 : task["ws"] = InitFrom(i) /\ InitOK(i) => InitOK(i)'
    PROVE  Sole' /\ WsOK' /\ RtcOK'
<1>1. Sole'
  BY DEF Flow, Sole
<1>2. WsOK'
  BY DEF Flow, WsOK, Thread, CleanupFrom, InitFrom
<1>3. RtcOK'
  BY DEF Flow, RtcOK, Thread, CleanupFrom
<1> QED BY <1>1, <1>2, <1>3

(* The capture thread's steps disturb no task. *)
LEMMA MicKeepsFlow ==
    ASSUME AudioTypeOK, Flow, MicStep
    PROVE  Flow' /\ AudioTypeOK'
<1>1. /\ UNCHANGED <<configs, call_cleanup_done, task, pc, playback, record>>
      /\ mic' \in MicType /\ mic.at # "none"
      /\ mic'.running_ = mic.running_ /\ mic'.own = mic.own
      /\ capture' \in CaptureType /\ capture'.id = capture.id
  <2>1. CASE MicTests
    <3>1. mic \in MicType /\ capture \in CaptureType
      BY DEF AudioTypeOK
    <3>2. PICK at \in MicPlace : at # "none" /\ mic' = [mic EXCEPT !.at = at]
      BY <2>1 DEF MicTests, MicPlace
    <3> QED BY <2>1, <3>1, <3>2 DEF MicTests, MicOnly, callVars, mainVars, MicType
  <2>2. CASE MicReads
    <3>1. mic \in MicType /\ capture \in CaptureType
      BY DEF AudioTypeOK
    <3>2. PICK at \in MicPlace, n \in Nat : mic' = [mic EXCEPT !.at = at, !.frame = n]
      <4>1. mic.frame + 1 \in Nat
        BY <3>1 DEF MicType
      <4>2. CASE mic' = [mic EXCEPT !.at = "read", !.frame = @ + 1]
        BY <4>1, <4>2 DEF MicPlace
      <4>3. CASE mic' = [mic EXCEPT !.at = "exited"]
        <5>1. mic' = [mic EXCEPT !.at = "exited", !.frame = mic.frame]
          BY <3>1, <4>3 DEF MicType
        <5> QED BY <3>1, <5>1 DEF MicPlace, MicType
      <4> QED BY <2>2, <4>2, <4>3 DEF MicReads
    <3> QED BY <2>2, <3>1, <3>2 DEF MicReads, MicOnly, callVars, mainVars, MicType
  <2>3. CASE MicTestsRecording
    BY <2>3 DEF MicTestsRecording, MicOnly, callVars, mainVars, AudioTypeOK, MicType, MicPlace
  <2>4. CASE MicRecords
    <3>1. capture \in CaptureType /\ mic \in MicType
      BY DEF AudioTypeOK
    <3>2. Append(capture.record_buf_, mic.frame) \in Seq(Nat)
      BY <3>1 DEF CaptureType, MicType
    <3>3. capture' \in CaptureType /\ capture'.id = capture.id
      BY <2>4, <3>1, <3>2 DEF MicRecords, CaptureType
    <3> QED BY <2>4, <3>1, <3>3 DEF MicRecords, MicOnly, callVars, mainVars, MicType, MicPlace
  <2>5. CASE MicCallback
    BY <2>5 DEF MicCallback, MicOnly, callVars, mainVars, AudioTypeOK, MicType, MicPlace
  <2>6. CASE MicSends
    BY <2>6 DEF MicSends, MicOnly, callVars, mainVars, AudioTypeOK, MicType, MicPlace
  <2> QED BY <2>1, <2>2, <2>3, <2>4, <2>5, <2>6 DEF MicStep
<1>2. \A t \in Thread, i \in 1 .. 6 :
          task[t] = CleanupFrom(i) /\ CleanupOK(t, i) => CleanupOK(t, i)'
  BY <1>1 DEF CleanupOK
<1>3. \A i \in 1 .. 7 : task["ws"] = InitFrom(i) /\ InitOK(i) => InitOK(i)'
  BY <1>1 DEF InitOK
<1>4. UnjoinedOK'
  BY <1>1 DEF Flow, UnjoinedOK, CleanupFrom, InitFrom
<1>5. AudioTypeOK'
  BY <1>1 DEF AudioTypeOK
<1> QED BY <1>1, <1>2, <1>3, <1>4, <1>5, RestingTasks DEF Flow

(* Nor do those of the playback thread. *)
LEMMA PlaybackKeepsFlow ==
    ASSUME AudioTypeOK, Flow, PlaybackLoop
    PROVE  Flow' /\ AudioTypeOK'
<1>1. /\ UNCHANGED <<configs, call_cleanup_done, task, pc, mic, capture, record>>
      /\ playback' \in PlaybackType
      /\ playback.thread # "none"
      /\ playback'.running_ = playback.running_
  BY DEF PlaybackLoop, callVars, mainVars, AudioTypeOK, PlaybackType
<1>2. \A t \in Thread, i \in 1 .. 6 :
          task[t] = CleanupFrom(i) /\ CleanupOK(t, i) => CleanupOK(t, i)'
  BY <1>1 DEF CleanupOK
<1>3. \A i \in 1 .. 7 : task["ws"] = InitFrom(i) /\ InitOK(i) => InitOK(i)'
  BY <1>1 DEF InitOK
<1>4. UnjoinedOK'
  BY <1>1 DEF Flow, UnjoinedOK, CleanupFrom, InitFrom
<1>5. AudioTypeOK'
  BY <1>1 DEF AudioTypeOK
<1> QED BY <1>1, <1>2, <1>3, <1>4, <1>5, RestingTasks DEF Flow

(* The rtc thread: once the callbacks are set, no initRtc is at work. *)
LEMMA NoInitWhenReady ==
    ASSUME Flow, RtcIdle, NEW i \in 1 .. 7, task["ws"] = InitFrom(i)
    PROVE  i = 1
<1>1. \A k \in 1 .. 6 : task["ws"] # CleanupFrom(k)
  BY InitPlace, CleanupPlace
<1>2. PICK k \in 1 .. 7 : task["ws"] = InitFrom(k) /\ InitOK(k)
  BY <1>1, InitPlace DEF Flow, WsOK
<1>3. Len(task["ws"].left) = 8 - i /\ Len(task["ws"].left) = 8 - k
  BY <1>2, InitPlace
<1>4. k = i
  BY <1>3
<1>5. k = 1
  BY <1>2 DEF InitOK, RtcIdle
<1> QED BY <1>4, <1>5

LEMMA CallbacksKeepFlow ==
    ASSUME AudioTypeOK, Flow, fate' = "fine", Connected \/ Disconnected \/ onTrack
    PROVE  Flow' /\ AudioTypeOK'
<1>1. /\ UNCHANGED <<configs, call_cleanup_done, task, capture, mic, record>>
      /\ RtcIdle /\ pc' \in PcType /\ playback' \in PlaybackType
      /\ pc'.ready = pc.ready /\ (pc.heard => pc'.heard)
      /\ \/ playback' = playback
         \/ playback'.running_ /\ pc'.heard
  <2>1. CASE Connected
    BY <2>1 DEF Connected, AudioTypeOK, PcType
  <2>2. CASE Disconnected
    BY <2>2 DEF Disconnected, AudioTypeOK, PcType
  <2>3. CASE onTrack
    BY <2>3 DEF onTrack, callVars, AudioTypeOK, PcType, PlaybackType
  <2> QED BY <2>1, <2>2, <2>3
<1>2. ASSUME NEW t \in Thread, NEW i \in 1 .. 6, task[t] = CleanupFrom(i), CleanupOK(t, i)
      PROVE  CleanupOK(t, i)'
  <2>1. task[t] # NoTask
    BY <1>2, CleanupPlace
  <2>2. t = "ws"
    BY <1>1, <2>1 DEF RtcIdle, Thread
  <2> QED BY <1>1, <1>2, <2>2 DEF CleanupOK
<1>3. ASSUME NEW i \in 1 .. 7, task["ws"] = InitFrom(i), InitOK(i)
      PROVE  InitOK(i)'
  <2>1. i = 1
    BY <1>1, <1>3, NoInitWhenReady
  <2> QED BY <1>1, <1>3, <2>1 DEF InitOK
<1>4. UnjoinedOK'
  BY <1>1 DEF Flow, UnjoinedOK, CleanupFrom, InitFrom
<1>5. AudioTypeOK'
  BY <1>1 DEF AudioTypeOK
<1> QED BY <1>1, <1>2, <1>3, <1>4, <1>5, RestingTasks DEF Flow

(* Steps that touch neither tasks, threads nor the peer connection. *)
LEMMA OthersKeepFlow ==
    ASSUME AudioTypeOK, Flow,
           onMessage \/ sendfile \/ Dial \/ hangup \/ mute \/ record_ \/ stop
    PROVE  Flow' /\ AudioTypeOK'
<1>0. /\ configs \in [made : Nat, received : Nat]
      /\ capture \in CaptureType /\ mic \in MicType
      /\ record \in [active : BOOLEAN, id : Nat, from : Nat]
  BY DEF AudioTypeOK
<1>1. /\ UNCHANGED <<call_cleanup_done, task, pc, mic, playback>>
      /\ configs' \in [made : Nat, received : Nat] /\ configs'.received = configs.received
      /\ capture' \in CaptureType /\ capture'.id = capture.id
      /\ record' \in [active : BOOLEAN, id : Nat, from : Nat]
  <2>1. CASE onMessage
    BY <1>0, <2>1 DEF onMessage, callVars, mainVars
  <2>2. CASE sendfile
    BY <1>0, <2>2 DEF sendfile, callVars, mainVars
  <2>3. CASE Dial
    <3>1. configs.made + 1 \in Nat
      BY <1>0
    <3>2. configs' = [configs EXCEPT !.made = configs.made + 1]
      BY <2>3 DEF Dial
    <3> QED BY <1>0, <2>3, <3>1, <3>2 DEF Dial, mainVars
  <2>4. CASE hangup
    BY <1>0, <2>4 DEF hangup, mainVars
  <2>5. CASE mute
    BY <1>0, <2>5 DEF mute, mainVars
  <2>6. CASE record_
    <3>1. FramesRead \in Nat
      BY <1>0 DEF FramesRead, MicType
    <3>2. capture' \in CaptureType /\ capture'.id = capture.id
      <4>1. \/ capture' = capture
            \/ capture' = [capture EXCEPT !.recording_ = TRUE, !.record_buf_ = <<>>]
        BY <2>6 DEF record_, startRecording
      <4>2. ASSUME NEW b \in Seq(Nat)
            PROVE  /\ [capture EXCEPT !.recording_ = TRUE, !.record_buf_ = b] \in CaptureType
                   /\ [capture EXCEPT !.recording_ = TRUE, !.record_buf_ = b].id = capture.id
        BY <1>0 DEF CaptureType
      <4>3. <<>> \in Seq(Nat)
        OBVIOUS
      <4> QED BY <1>0, <4>1, <4>2, <4>3
    <3>3. record' = [active |-> TRUE, id |-> capture.id, from |-> FramesRead]
      BY <2>6 DEF record_
    <3>4. record' \in [active : BOOLEAN, id : Nat, from : Nat]
      BY <1>0, <3>1, <3>3 DEF CaptureType
    <3> QED BY <1>0, <2>6, <3>2, <3>4 DEF record_, callVars, mainVars
  <2>7. CASE stop
    <3>1. capture' \in CaptureType /\ capture'.id = capture.id
      <4>1. capture' = capture \/ capture' = NewCapture(capture.id)
        BY <2>7 DEF stop
      <4>2. NewCapture(capture.id) \in CaptureType /\ NewCapture(capture.id).id = capture.id
        BY <1>0 DEF NewCapture, CaptureType
      <4> QED BY <1>0, <4>1, <4>2
    <3>2. record' \in [active : BOOLEAN, id : Nat, from : Nat]
      BY <2>7 DEF stop, NotRecording
    <3> QED BY <1>0, <2>7, <3>1, <3>2 DEF stop, callVars, mainVars
  <2> QED BY <2>1, <2>2, <2>3, <2>4, <2>5, <2>6, <2>7
<1>2. \A t \in Thread, i \in 1 .. 6 :
          task[t] = CleanupFrom(i) /\ CleanupOK(t, i) => CleanupOK(t, i)'
  BY <1>1 DEF CleanupOK
<1>3. \A i \in 1 .. 7 : task["ws"] = InitFrom(i) /\ InitOK(i) => InitOK(i)'
  BY <1>1 DEF InitOK
<1>4. UnjoinedOK'
  BY <1>1 DEF Flow, UnjoinedOK, CleanupFrom, InitFrom
<1>5. AudioTypeOK'
  BY <1>1 DEF AudioTypeOK
<1> QED BY <1>1, <1>2, <1>3, <1>4, <1>5, RestingTasks DEF Flow

(* The second cleanupCall returns; the first, and initRtc, begin at the head
   of their lists, and alone if nothing goes wrong. *)
LEMMA EntryKeepsFlow ==
    ASSUME AudioTypeOK, Flow, fate' = "fine",
           CallEnded \/ CallBroken \/ Failed \/ rtcConfig
    PROVE  Flow' /\ AudioTypeOK'
<1>0. /\ configs \in [made : Nat, received : Nat] /\ pc \in PcType
      /\ capture \in CaptureType /\ task \in [Thread -> TaskType]
  BY DEF AudioTypeOK
<1>1. /\ UNCHANGED <<capture, mic, playback, record>>
      /\ pc' \in PcType /\ pc'.ready = pc.ready /\ pc'.heard = pc.heard
  BY <1>0 DEF CallEnded, CallBroken, Failed, rtcConfig, callVars, PcType
<1>2. CASE task' = task /\ UNCHANGED <<configs, call_cleanup_done>>
  <2>1. \A t \in Thread, i \in 1 .. 6 :
            task[t] = CleanupFrom(i) /\ CleanupOK(t, i) => CleanupOK(t, i)'
    BY <1>1, <1>2 DEF CleanupOK
  <2>2. \A i \in 1 .. 7 : task["ws"] = InitFrom(i) /\ InitOK(i) => InitOK(i)'
    BY <1>1, <1>2 DEF InitOK
  <2>3. UnjoinedOK'
    BY <1>1, <1>2 DEF Flow, UnjoinedOK, CleanupFrom, InitFrom
  <2>4. AudioTypeOK'
    BY <1>1, <1>2 DEF AudioTypeOK
  <2> QED BY <1>1, <1>2, <2>1, <2>2, <2>3, <2>4, RestingTasks DEF Flow
<1>3. /\ CleanupFrom(1) = [lambda |-> "cleanupCall", left |-> CleanupSteps]
      /\ InitFrom(1) = [lambda |-> "initRtc", left |-> InitSteps]
  <2>2. /\ SubSeq(CleanupSteps, 1, Len(CleanupSteps)) = CleanupSteps
        /\ SubSeq(InitSteps, 1, Len(InitSteps)) = InitSteps
    <3>1. ASSUME NEW s \in Seq(StepName) PROVE SubSeq(s, 1, Len(s)) = s
      BY SubSeqFull, Zenon
    <3> QED BY <3>1, ListTypes, Zenon
  <2> QED BY <2>2 DEF CleanupFrom, InitFrom
<1>4. (\A u \in Thread : task[u] = NoTask) =>
          /\ UnjoinedOK => playback.running_ \/ playback.thread = "none"
  <2>1. CleanupFrom(4) # NoTask /\ InitFrom(6) # NoTask
    BY CleanupPlace, InitPlace
  <2> QED BY <2>1 DEF UnjoinedOK, Thread
<1>5. ASSUME NEW t \in Thread, Enter(t, "cleanupCall", CleanupSteps), call_cleanup_done' = TRUE,
             UNCHANGED configs
      PROVE  Flow' /\ AudioTypeOK'
  <2>1. \A u \in Thread : task[u] = NoTask
    BY <1>5 DEF Enter
  <2>2. task' = [task EXCEPT ![t] = CleanupFrom(1)]
    BY <1>3, <1>5 DEF Enter
  <2>3. CleanupOK(t, 1)'
    BY <1>5 DEF CleanupOK
  <2>6. UnjoinedOK'
    BY <1>1, <1>4, <2>1 DEF Flow, UnjoinedOK
  <2>7. AudioTypeOK'
    <3>1. task' \in [Thread -> TaskType]
      <4>1. CleanupFrom(1) \in TaskType
        BY CleanupPlace
      <4> QED BY <1>0, <2>2, <4>1
    <3> QED BY <1>0, <1>1, <1>5, <3>1 DEF AudioTypeOK
  <2>8. capture'.id <= configs'.received
    BY <1>1, <1>5 DEF Flow
  <2>4. CASE t = "ws"
    <3>1. task'["ws"] = CleanupFrom(1) /\ task'["rtc"] = NoTask
      BY <1>0, <2>1, <2>2, <2>4 DEF Thread
    <3>2. CleanupOK("ws", 1)'
      BY <2>3, <2>4
    <3>3. Sole' /\ WsOK' /\ RtcOK'
      BY <3>1, <3>2 DEF Sole, WsOK, RtcOK, CleanupFrom
    <3> QED BY <2>6, <2>7, <2>8, <3>3 DEF Flow
  <2>5. CASE t = "rtc"
    <3>1. task'["rtc"] = CleanupFrom(1) /\ task'["ws"] = NoTask
      BY <1>0, <2>1, <2>2, <2>5 DEF Thread
    <3>2. CleanupOK("rtc", 1)'
      BY <2>3, <2>5
    <3>3. Sole' /\ WsOK' /\ RtcOK'
      BY <3>1, <3>2 DEF Sole, WsOK, RtcOK, CleanupFrom
    <3> QED BY <2>6, <2>7, <2>8, <3>3 DEF Flow
  <2> QED BY <2>4, <2>5 DEF Thread
<1>6. CASE rtcConfig
  <2>1. \A u \in Thread : task[u] = NoTask
    BY <1>6 DEF rtcConfig, initRtc, Enter
  <2>2. task' = [task EXCEPT !["ws"] = InitFrom(1)]
    BY <1>3, <1>6 DEF rtcConfig, initRtc, Enter
  <2>3. task'["ws"] = InitFrom(1) /\ task'["rtc"] = NoTask
    BY <1>0, <2>1, <2>2 DEF Thread
  <2>4. configs' \in [made : Nat, received : Nat] /\ configs'.received = configs.received + 1
    <3>1. configs.received + 1 \in Nat
      BY <1>0
    <3> QED BY <1>0, <1>6, <3>1 DEF rtcConfig
  <2>5. capture'.id <= configs'.received /\ InitOK(1)'
    BY <1>0, <1>1, <2>4 DEF Flow, InitOK, CaptureType
  <2>6. Sole' /\ WsOK' /\ RtcOK'
    BY <2>3, <2>5 DEF Sole, WsOK, RtcOK, InitFrom
  <2>7. UnjoinedOK'
    BY <1>1, <1>4, <2>1 DEF Flow, UnjoinedOK
  <2>8. AudioTypeOK'
    <3>1. task' \in [Thread -> TaskType]
      <4>1. InitFrom(1) \in TaskType
        BY InitPlace
      <4> QED BY <1>0, <2>2, <4>1
    <3>2. call_cleanup_done' \in BOOLEAN
      BY <1>6 DEF rtcConfig, initRtc
    <3> QED BY <1>0, <1>1, <2>4, <3>1, <3>2 DEF AudioTypeOK
  <2> QED BY <2>5, <2>6, <2>7, <2>8 DEF Flow
<1>7. CASE CallEnded \/ CallBroken
  BY <1>2, <1>5, <1>7 DEF CallEnded, CallBroken, cleanupCall, callVars, Thread
<1>8. CASE Failed
  BY <1>2, <1>5, <1>8 DEF Failed, cleanupCall, callVars, Thread
<1> QED BY <1>6, <1>7, <1>8

----------------------------------------------------------------------------
(* The steps of cleanupCall and initRtc.                                    *)

(* A task at work is alone, and a playback thread that is to stop is waited
   for at one step only. *)
LEMMA AtWork ==
    ASSUME AudioTypeOK, Flow, NEW t \in Thread, task[t] # NoTask
    PROVE  \A u \in Thread : u # t => task[u] = NoTask
  BY DEF Flow, Sole, Thread

LEMMA UnjoinedAt ==
    ASSUME AudioTypeOK, Flow, NEW t \in Thread,
           ~playback.running_, playback.thread # "none"
    PROVE  /\ \A i \in 1 .. 6 : task[t] = CleanupFrom(i) => i = 4
           /\ \A i \in 1 .. 7 : task[t] = InitFrom(i) => i = 6
<1>1. \/ task["ws"] = CleanupFrom(4) \/ task["rtc"] = CleanupFrom(4)
      \/ task["ws"] = InitFrom(6)
  BY DEF Flow, UnjoinedOK
<1>2. /\ CleanupFrom(4).lambda = "cleanupCall" /\ Len(CleanupFrom(4).left) = 3
      /\ CleanupFrom(4) # NoTask
  BY CleanupPlace
<1>3. /\ InitFrom(6).lambda = "initRtc" /\ Len(InitFrom(6).left) = 2
      /\ InitFrom(6) # NoTask
  BY InitPlace
<1>4. task[t] # NoTask => task[t] = CleanupFrom(4) \/ task[t] = InitFrom(6)
  BY <1>1, <1>2, <1>3, AtWork DEF Thread
<1>5. ASSUME NEW i \in 1 .. 6, task[t] = CleanupFrom(i) PROVE i = 4
  <2>1. /\ CleanupFrom(i) # NoTask /\ CleanupFrom(i).lambda = "cleanupCall"
        /\ Len(CleanupFrom(i).left) = 7 - i
    BY CleanupPlace
  <2>2. 7 - i = 3
    BY <1>2, <1>3, <1>4, <1>5, <2>1
  <2> QED BY <2>2
<1>6. ASSUME NEW i \in 1 .. 7, task[t] = InitFrom(i) PROVE i = 6
  <2>1. /\ InitFrom(i) # NoTask /\ InitFrom(i).lambda = "initRtc"
        /\ Len(InitFrom(i).left) = 8 - i
    BY InitPlace
  <2>2. 8 - i = 2
    BY <1>2, <1>3, <1>4, <1>6, <2>1
  <2> QED BY <2>2
<1> QED BY <1>5, <1>6

(* What each step changes. *)
LEMMA CleanupDoes ==
    ASSUME NEW i \in 1 .. 6, Do(CleanupSteps[i])
    PROVE  /\ UNCHANGED capture
           /\ i # 1 /\ i # 2 => UNCHANGED mic
           /\ i = 1 => mic' = [mic EXCEPT !.running_ = FALSE]
           /\ i = 2 => mic.at \in {"none", "exited"} /\ mic' = [mic EXCEPT !.at = "none"]
           /\ i # 3 /\ i # 4 => UNCHANGED playback
           /\ i = 3 => playback' = [playback EXCEPT !.running_ = FALSE]
           /\ i = 4 => playback' = [playback EXCEPT !.thread = "none"]
           /\ i # 5 => UNCHANGED <<pc, fate>>
           /\ i = 5 => pc' = NoPc /\ fate' = IF mic.at = "sending" THEN "dangling" ELSE fate
<1>1. CASE i = 1
  BY <1>1 DEF CleanupSteps, Do, CaptureStep, PlaybackStep, PcStep, StopCapture
<1>2. CASE i = 2
  BY <1>2 DEF CleanupSteps, Do, CaptureStep, PlaybackStep, PcStep
<1>3. CASE i = 3
  BY <1>3 DEF CleanupSteps, Do, CaptureStep, PlaybackStep, PcStep
<1>4. CASE i = 4
  BY <1>4 DEF CleanupSteps, Do, CaptureStep, PlaybackStep, PcStep
<1>5. CASE i = 5
  BY <1>5 DEF CleanupSteps, Do, CaptureStep, PlaybackStep, PcStep
<1>6. CASE i = 6
  BY <1>6 DEF CleanupSteps, Do, CaptureStep, PlaybackStep, PcStep
<1> QED BY <1>1, <1>2, <1>3, <1>4, <1>5, <1>6

\* Capture::start: a thread of the new object, with or without a device.
Starts ==
    \E device \in BOOLEAN :
        mic' = [NoMic EXCEPT !.at = "loop", !.running_ = TRUE, !.device = device]

LEMMA InitDoes ==
    ASSUME NEW i \in 1 .. 7, Do(InitSteps[i])
    PROVE  /\ i # 2 => UNCHANGED capture
           /\ i = 2 => capture' = NewCapture(configs.received)
           /\ i \in {1, 5, 6, 7} => UNCHANGED mic
           /\ i = 2 => mic' = [mic EXCEPT !.own = FALSE, !.running_ = FALSE]
           /\ i = 3 => mic.at \in {"none", "exited"} /\ mic' = [mic EXCEPT !.at = "none"]
           /\ i = 4 => Starts
           /\ i # 5 /\ i # 6 => UNCHANGED playback
           /\ i = 5 => playback' = [playback EXCEPT !.made = TRUE, !.running_ = FALSE]
           /\ i = 6 => playback' = [playback EXCEPT !.thread = "none"]
           /\ i # 1 => UNCHANGED fate
           /\ i # 1 /\ i # 7 => UNCHANGED pc
           /\ i = 1 => pc' = NoPc /\ fate' = IF mic.at = "sending" THEN "dangling" ELSE fate
           /\ i = 7 => pc' = [pc EXCEPT !.ready = TRUE, !.track = call = "Calling"]
<1>1. CASE i = 1
  BY <1>1 DEF InitSteps, Do, CaptureStep, PlaybackStep, PcStep
<1>2. CASE i = 2
  BY <1>2 DEF InitSteps, Do, CaptureStep, PlaybackStep, PcStep
<1>3. CASE i = 3
  BY <1>3 DEF InitSteps, Do, CaptureStep, PlaybackStep, PcStep
<1>4. CASE i = 4
  <2>1. Do("startCapture")
    BY <1>4 DEF InitSteps
  <2>2. CaptureStep("startCapture") /\ UNCHANGED <<pc, playback, fate>>
    BY <2>1 DEF Do, PlaybackStep, PcStep
  <2>3. Starts /\ UNCHANGED capture
    BY <2>2, Zenon DEF CaptureStep, Starts
  <2> QED BY <1>4, <2>2, <2>3
<1>5. CASE i = 5
  BY <1>5 DEF InitSteps, Do, CaptureStep, PlaybackStep, PcStep
<1>6. CASE i = 6
  BY <1>6 DEF InitSteps, Do, CaptureStep, PlaybackStep, PcStep
<1>7. CASE i = 7
  BY <1>7 DEF InitSteps, Do, CaptureStep, PlaybackStep, PcStep
<1> QED BY <1>1, <1>2, <1>3, <1>4, <1>5, <1>6, <1>7

LEMMA CleanupStepKeepsFlow ==
    ASSUME AudioTypeOK, Flow, NEW t \in Thread, NEW i \in 1 .. 6,
           task[t] = CleanupFrom(i), CleanupOK(t, i), t = "ws" \/ t = "rtc", Step(t)
    PROVE  Flow' /\ AudioTypeOK'
<1>0. /\ capture \in CaptureType /\ mic \in MicType /\ playback \in PlaybackType
      /\ pc \in PcType /\ task \in [Thread -> TaskType]
  BY DEF AudioTypeOK
<1>1. UNCHANGED <<configs, call_cleanup_done, record>>
  BY DEF Step
<1>2. /\ Do(CleanupSteps[i])
      /\ task' = [task EXCEPT ![t] = IF i = 6 THEN NoTask ELSE CleanupFrom(i + 1)]
  BY CleanupMoves
<1>3. task[t] # NoTask
  BY CleanupPlace
<1>4. /\ task'[t] = IF i = 6 THEN NoTask ELSE CleanupFrom(i + 1)
      /\ \A u \in Thread : u # t => task'[u] = NoTask
  BY <1>0, <1>2, <1>3, AtWork
<1>5. /\ UNCHANGED capture
      /\ mic' \in MicType /\ playback' \in PlaybackType /\ pc' \in PcType
      /\ i = 1 => ~mic'.running_
      /\ i >= 2 => mic'.at = "none"
      /\ i = 3 => ~playback'.running_
      /\ i = 4 => playback'.thread = "none"
      /\ i # 3 /\ i # 4 => UNCHANGED playback
  <2>1. UNCHANGED capture
    BY <1>2, CleanupDoes
  <2>2. mic' \in MicType /\ (i = 1 => ~mic'.running_) /\ (i = 2 => mic'.at = "none")
    BY <1>0, <1>2, CleanupDoes DEF MicType, MicPlace
  <2>3. i > 2 => mic'.at = "none"
    BY <1>2, CleanupDoes DEF CleanupOK
  <2>4. /\ playback' \in PlaybackType
        /\ i = 3 => ~playback'.running_
        /\ i = 4 => playback'.thread = "none"
        /\ i # 3 /\ i # 4 => UNCHANGED playback
    BY <1>0, <1>2, CleanupDoes DEF PlaybackType
  <2>5. pc' \in PcType
    <3>1. pc' = pc \/ pc' = NoPc
      BY <1>2, CleanupDoes
    <3>2. NoPc \in PcType
      BY DEF PcType, NoPc
    <3> QED BY <1>0, <3>1, <3>2
  <2> QED BY <2>1, <2>2, <2>3, <2>4, <2>5
<1>6. ASSUME i < 6 PROVE CleanupOK(t, i + 1)'
  BY <1>1, <1>5, <1>6 DEF CleanupOK
<1>7. Sole'
  BY <1>4 DEF Sole, Thread
<1>8. WsOK' /\ RtcOK'
  <2>1. CASE i = 6
    BY <1>4, <2>1 DEF WsOK, RtcOK, Thread
  <2>2. CASE i < 6
    <3>1. PICK k \in 1 .. 6 : k = i + 1
      BY <2>2
    <3>2. task'[t] = CleanupFrom(k) /\ CleanupOK(t, k)'
      BY <1>4, <1>6, <2>2, <3>1
    <3>3. CASE t = "ws"
      BY <1>4, <3>2, <3>3 DEF WsOK, RtcOK, Thread, CleanupFrom
    <3>4. CASE t = "rtc"
      BY <1>4, <3>2, <3>4 DEF WsOK, RtcOK, Thread, CleanupFrom
    <3> QED BY <3>3, <3>4
  <2> QED BY <2>1, <2>2
<1>9. UnjoinedOK'
  <2>1. CASE i = 3
    <3>1. task'[t] = CleanupFrom(4)
      BY <1>4, <2>1
    <3> QED BY <3>1 DEF UnjoinedOK, Thread, CleanupFrom
  <2>2. CASE i = 4
    BY <1>5, <2>2 DEF UnjoinedOK
  <2>3. CASE i # 3 /\ i # 4
    <3>1. ~(~playback.running_ /\ playback.thread # "none")
      BY <2>3, UnjoinedAt
    <3> QED BY <1>5, <2>3, <3>1 DEF UnjoinedOK
  <2> QED BY <2>1, <2>2, <2>3
<1>10. AudioTypeOK'
  <2>1. task' \in [Thread -> TaskType]
    <3>1. CASE i = 6
      BY <1>0, <1>2, <3>1 DEF NoTask, TaskType
    <3>2. CASE i < 6
      <4>1. i + 1 \in 1 .. 6
        BY <3>2
      <4>2. CleanupFrom(i + 1) \in TaskType
        BY <4>1, CleanupPlace
      <4> QED BY <1>0, <1>2, <3>2, <4>2
    <3> QED BY <3>1, <3>2
  <2> QED BY <1>1, <1>5, <2>1 DEF AudioTypeOK
<1> QED BY <1>1, <1>5, <1>7, <1>8, <1>9, <1>10 DEF Flow

LEMMA InitStepKeepsFlow ==
    ASSUME AudioTypeOK, Flow, NEW i \in 1 .. 7, task["ws"] = InitFrom(i), InitOK(i), Step("ws")
    PROVE  Flow' /\ AudioTypeOK'
<1>0. /\ capture \in CaptureType /\ mic \in MicType /\ playback \in PlaybackType
      /\ pc \in PcType /\ task \in [Thread -> TaskType] /\ "ws" \in Thread
      /\ configs \in [made : Nat, received : Nat]
  BY DEF AudioTypeOK, Thread
<1>1. UNCHANGED <<configs, call_cleanup_done, record>>
  BY DEF Step
<1>2. /\ Do(InitSteps[i])
      /\ task' = [task EXCEPT !["ws"] = IF i = 7 THEN NoTask ELSE InitFrom(i + 1)]
  BY <1>0, InitMoves
<1>3. task["ws"] # NoTask
  BY InitPlace
<1>4. /\ task'["ws"] = IF i = 7 THEN NoTask ELSE InitFrom(i + 1)
      /\ task'["rtc"] = NoTask
  BY <1>0, <1>2, <1>3, AtWork DEF Thread
<1>5. /\ capture' \in CaptureType /\ capture'.id <= configs.received
      /\ i = 1 => capture'.id < configs.received
      /\ i >= 2 => capture'.id > 0
  <2>1. i # 2 => capture' = capture
    BY <1>2, InitDoes
  <2>2. ASSUME i = 2 PROVE capture' \in CaptureType /\ capture'.id = configs.received
    <3>1. capture' = NewCapture(configs.received)
      BY <1>2, <2>2, InitDoes
    <3>2. NewCapture(configs.received) \in CaptureType
      BY <1>0 DEF NewCapture, CaptureType
    <3> QED BY <3>1, <3>2 DEF NewCapture
  <2> QED BY <1>0, <2>1, <2>2 DEF Flow, InitOK, CaptureType
<1>6. /\ mic' \in MicType
      /\ i = 2 => ~mic'.running_ /\ ~mic'.own
      /\ i = 3 => mic'.at = "none" /\ ~mic'.own
  <2>1. CASE i \in {1, 5, 6, 7}
    BY <1>0, <1>2, <2>1, InitDoes
  <2>2. CASE i = 2
    BY <1>0, <1>2, <2>2, InitDoes DEF MicType
  <2>3. CASE i = 3
    BY <1>0, <1>2, <2>3, InitDoes DEF MicType, InitOK, MicPlace
  <2>4. CASE i = 4
    <3>1. Starts
      BY <1>2, <2>4, InitDoes
    <3>2. ASSUME NEW device \in BOOLEAN
          PROVE  [NoMic EXCEPT !.at = "loop", !.running_ = TRUE, !.device = device] \in MicType
      BY DEF NoMic, MicType, MicPlace
    <3>3. mic' \in MicType
      BY <3>1, <3>2, Zenon DEF Starts
    <3> QED BY <2>4, <3>3
  <2> QED BY <2>1, <2>2, <2>3, <2>4
<1>7. /\ playback' \in PlaybackType
      /\ i = 5 => ~playback'.running_
      /\ i = 6 => playback'.thread = "none"
      /\ i # 5 /\ i # 6 => UNCHANGED playback
  BY <1>0, <1>2, InitDoes DEF PlaybackType
<1>8. pc' \in PcType /\ (i < 7 => ~pc'.ready)
  <2>1. CASE i = 1
    <3>1. pc' = NoPc
      BY <1>2, <2>1, InitDoes
    <3>2. NoPc \in PcType /\ ~NoPc.ready
      BY DEF PcType, NoPc
    <3> QED BY <3>1, <3>2
  <2>2. CASE i = 7
    <3>1. pc' = [pc EXCEPT !.ready = TRUE, !.track = call = "Calling"]
      BY <1>2, <2>2, InitDoes
    <3>2. ASSUME NEW b \in BOOLEAN PROVE [pc EXCEPT !.ready = TRUE, !.track = b] \in PcType
      BY <1>0 DEF PcType
    <3>3. (call = "Calling") \in BOOLEAN
      OBVIOUS
    <3>4. pc' \in PcType
      BY <3>1, <3>2, <3>3, Zenon
    <3> QED BY <2>2, <3>4
  <2>3. CASE i # 1 /\ i # 7
    BY <1>0, <1>2, <2>3, InitDoes DEF InitOK
  <2> QED BY <2>1, <2>2, <2>3
<1>9. ASSUME i < 7 PROVE InitOK(i + 1)'
  BY <1>1, <1>5, <1>6, <1>7, <1>8, <1>9 DEF InitOK
<1>10. Sole' /\ RtcOK'
  BY <1>4 DEF Sole, RtcOK
<1>11. WsOK'
  <2>1. CASE i = 7
    BY <1>4, <2>1 DEF WsOK
  <2>2. CASE i < 7
    <3>1. PICK k \in 1 .. 7 : k = i + 1
      BY <2>2
    <3>2. task'["ws"] = InitFrom(k) /\ InitOK(k)'
      BY <1>4, <1>9, <2>2, <3>1
    <3> QED BY <3>2 DEF WsOK, InitFrom
  <2> QED BY <2>1, <2>2
<1>12. UnjoinedOK'
  <2>1. CASE i = 5
    <3>1. task'["ws"] = InitFrom(6)
      BY <1>4, <2>1
    <3> QED BY <3>1 DEF UnjoinedOK, InitFrom
  <2>2. CASE i = 6
    BY <1>7, <2>2 DEF UnjoinedOK
  <2>3. CASE i # 5 /\ i # 6
    <3>1. ~(~playback.running_ /\ playback.thread # "none")
      BY <1>0, <2>3, UnjoinedAt
    <3> QED BY <1>7, <2>3, <3>1 DEF UnjoinedOK
  <2> QED BY <2>1, <2>2, <2>3
<1>13. AudioTypeOK'
  <2>1. task' \in [Thread -> TaskType]
    <3>1. CASE i = 7
      BY <1>0, <1>2, <3>1 DEF NoTask, TaskType
    <3>2. CASE i < 7
      <4>1. i + 1 \in 1 .. 7
        BY <3>2
      <4>2. InitFrom(i + 1) \in TaskType
        BY <4>1, InitPlace
      <4> QED BY <1>0, <1>2, <3>2, <4>2
    <3> QED BY <3>1, <3>2
  <2>2. call_cleanup_done \in BOOLEAN /\ record \in [active : BOOLEAN, id : Nat, from : Nat]
    BY DEF AudioTypeOK
  <2> QED BY <1>0, <1>1, <1>5, <1>6, <1>7, <1>8, <2>1, <2>2 DEF AudioTypeOK
<1> QED BY <1>1, <1>5, <1>10, <1>11, <1>12, <1>13 DEF Flow

LEMMA StepKeepsFlow ==
    ASSUME AudioTypeOK, Flow, NEW t \in Thread, Step(t)
    PROVE  Flow' /\ AudioTypeOK'
<1>0. task[t] # NoTask
  BY DEF Step
<1>1. CASE t = "ws"
  <2>1. \/ \E i \in 1 .. 6 : task["ws"] = CleanupFrom(i) /\ CleanupOK("ws", i)
        \/ \E i \in 1 .. 7 : task["ws"] = InitFrom(i) /\ InitOK(i)
    BY <1>0, <1>1 DEF Flow, WsOK
  <2> QED BY <1>1, <2>1, CleanupStepKeepsFlow, InitStepKeepsFlow
<1>2. CASE t = "rtc"
  <2>1. \E i \in 1 .. 6 : task["rtc"] = CleanupFrom(i) /\ CleanupOK("rtc", i)
    BY <1>0, <1>2 DEF Flow, RtcOK
  <2> QED BY <1>2, <2>1, CleanupStepKeepsFlow
<1> QED BY <1>1, <1>2 DEF Thread

----------------------------------------------------------------------------
(* The steps that end a behaviour.                                          *)

(* The names of the steps. *)
LEMMA StepNames ==
    /\ \A i \in 1 .. 6 : /\ CleanupSteps[i] = "joinCapture" <=> i = 2
                         /\ CleanupSteps[i] = "joinPlayback" <=> i = 4
    /\ \A i \in 1 .. 7 : /\ InitSteps[i] = "joinCapture" <=> i = 3
                         /\ InitSteps[i] = "joinPlayback" <=> i = 6
<1>1. ASSUME NEW i \in 1 .. 6
      PROVE  /\ CleanupSteps[i] = "joinCapture" <=> i = 2
             /\ CleanupSteps[i] = "joinPlayback" <=> i = 4
  <2>1. i = 1 \/ i = 2 \/ i = 3 \/ i = 4 \/ i = 5 \/ i = 6
    OBVIOUS
  <2> QED BY <2>1 DEF CleanupSteps
<1>2. ASSUME NEW i \in 1 .. 7
      PROVE  /\ InitSteps[i] = "joinCapture" <=> i = 3
             /\ InitSteps[i] = "joinPlayback" <=> i = 6
  <2>1. i = 1 \/ i = 2 \/ i = 3 \/ i = 4 \/ i = 5 \/ i = 6 \/ i = 7
    OBVIOUS
  <2> QED BY <2>1 DEF InitSteps
<1> QED BY <1>1, <1>2

(* What a task waits for has been told to stop, or was started anew. *)
LEMMA FlowJoins ==
    ASSUME AudioTypeOK, Flow
    PROVE  JoinsStoppedThreads
<1>1. ASSUME NEW t \in Thread, NEW i \in 1 .. 6, task[t] = CleanupFrom(i), CleanupOK(t, i)
      PROVE  /\ Head(task[t].left) = "joinCapture" => ~mic.running_
             /\ JoinsPlayback(t) /\ playback.running_
                   => pc.heard /\ task[t].lambda = "cleanupCall"
  <2>1. Head(task[t].left) = CleanupSteps[i] /\ task[t].lambda = "cleanupCall"
    BY <1>1, CleanupPlace
  <2> QED BY <1>1, <2>1, StepNames DEF CleanupOK, JoinsPlayback
<1>2. ASSUME NEW i \in 1 .. 7, task["ws"] = InitFrom(i), InitOK(i)
      PROVE  /\ Head(task["ws"].left) = "joinCapture" => ~mic.running_
             /\ JoinsPlayback("ws") => ~playback.running_
  <2>1. Head(task["ws"].left) = InitSteps[i]
    BY <1>2, InitPlace
  <2> QED BY <1>2, <2>1, StepNames DEF InitOK, JoinsPlayback
<1>3. ASSUME NEW t \in Thread, task[t] # NoTask
      PROVE  /\ Head(task[t].left) = "joinCapture" => ~mic.running_
             /\ JoinsPlayback(t) /\ playback.running_
                   => pc.heard /\ task[t].lambda = "cleanupCall"
  <2>1. CASE t = "ws"
    BY <1>1, <1>2, <1>3, <2>1 DEF Flow, WsOK, Thread
  <2>2. CASE t = "rtc"
    BY <1>1, <1>3, <2>2 DEF Flow, RtcOK, Thread
  <2> QED BY <2>1, <2>2 DEF Thread
<1> QED BY <1>3 DEF JoinsStoppedThreads

\* What a behaviour that went wrong ends with.
EndOK == OnlyNewCallsCollide /\ PlaybackThreadJoined /\ JoinsStoppedThreads

(* A lambda that meets another: one of them is an initRtc. *)
LEMMA EntryEnds ==
    ASSUME AudioTypeOK, Flow, fate = "fine", fate' # "fine",
           CallEnded \/ CallBroken \/ Failed \/ rtcConfig
    PROVE  EndOK'
<1>0. pc \in PcType /\ task \in [Thread -> TaskType] /\ "ws" \in Thread /\ "rtc" \in Thread
  BY DEF AudioTypeOK, Thread
<1>1. UNCHANGED <<mic, playback>> /\ pc'.heard = pc.heard
  BY <1>0 DEF CallEnded, CallBroken, Failed, rtcConfig, callVars, PcType
<1>2. ASSUME NEW t \in Thread, Enter(t, "cleanupCall", CleanupSteps) \/ Enter(t, "initRtc", InitSteps)
      PROVE  fate' = "overlap" /\ JoinsStoppedThreads'
  <2>1. fate' = "overlap"
    BY <1>2 DEF Enter
  <2>2. /\ task'[t].left = CleanupSteps \/ task'[t].left = InitSteps
        /\ \A u \in Thread : u # t => task'[u] = task[u]
    BY <1>0, <1>2 DEF Enter
  <2>3. Head(task'[t].left) = "stopCapture" \/ Head(task'[t].left) = "resetPc"
    BY <2>2 DEF CleanupSteps, InitSteps
  <2>4. JoinsStoppedThreads
    BY FlowJoins
  <2>5. ASSUME NEW u \in Thread, task'[u] # NoTask
        PROVE  /\ Head(task'[u].left) = "joinCapture" => ~mic'.running_
               /\ JoinsPlayback(u)' /\ playback'.running_
                     => pc'.heard /\ task'[u].lambda = "cleanupCall"
    <3>1. CASE u = t
      BY <2>3, <3>1 DEF JoinsPlayback
    <3>2. CASE u # t
      BY <1>1, <2>2, <2>4, <2>5, <3>2 DEF JoinsStoppedThreads, JoinsPlayback, NoTask
    <3> QED BY <3>1, <3>2
  <2>6. JoinsStoppedThreads'
    BY <2>5 DEF JoinsStoppedThreads, NoTask
  <2> QED BY <2>1, <2>6
<1>3. task["rtc"] # NoTask => call_cleanup_done
  BY DEF Flow, RtcOK, CleanupOK
<1>4. CASE CallEnded \/ CallBroken
  <2>1. Enter("ws", "cleanupCall", CleanupSteps) /\ ~call_cleanup_done /\ task["ws"] = NoTask
    BY <1>4 DEF CallEnded, CallBroken, cleanupCall
  <2>2. task["rtc"] # NoTask
    BY <2>1 DEF Enter, Thread
  <2> QED BY <1>3, <2>1, <2>2
<1>5. CASE Failed
  <2>1. Enter("rtc", "cleanupCall", CleanupSteps) /\ ~call_cleanup_done /\ task["rtc"] = NoTask
    BY <1>5 DEF Failed, cleanupCall, RtcIdle
  <2>2. task["ws"] # NoTask
    BY <2>1 DEF Enter, Thread
  <2>3. PICK i \in 1 .. 7 : task["ws"] = InitFrom(i)
    BY <2>1, <2>2 DEF Flow, WsOK, CleanupOK
  <2>4. task'["ws"].lambda = "initRtc"
    <3>1. task'["ws"] = task["ws"]
      BY <1>0, <2>1 DEF Enter
    <3> QED BY <2>3, <3>1, InitPlace
  <2>5. fate' = "overlap" /\ JoinsStoppedThreads'
    BY <1>0, <1>2, <2>1
  <2> QED BY <2>4, <2>5 DEF EndOK, OnlyNewCallsCollide, PlaybackThreadJoined
<1>6. CASE rtcConfig
  <2>1. Enter("ws", "initRtc", InitSteps)
    BY <1>6 DEF rtcConfig, initRtc
  <2>2. task'["ws"].lambda = "initRtc"
    BY <1>0, <2>1 DEF Enter
  <2>3. fate' = "overlap" /\ JoinsStoppedThreads'
    BY <1>0, <1>2, <2>1
  <2> QED BY <2>2, <2>3 DEF EndOK, OnlyNewCallsCollide, PlaybackThreadJoined
<1> QED BY <1>4, <1>5, <1>6

(* A peer connection that goes while the capture callback is using it is
   replaced by a new call's: cleanupCall has joined the capture thread. *)
LEMMA StepEnds ==
    ASSUME AudioTypeOK, Flow, fate = "fine", fate' # "fine", NEW t \in Thread, Step(t)
    PROVE  EndOK'
<1>0. task[t] # NoTask
  BY DEF Step
<1>1. ASSUME NEW i \in 1 .. 6, task[t] = CleanupFrom(i), CleanupOK(t, i) PROVE FALSE
  <2>1. Do(CleanupSteps[i])
    BY <1>1, CleanupMoves
  <2>2. i = 5 /\ mic.at = "sending"
    BY <2>1, CleanupDoes
  <2> QED BY <1>1, <2>2 DEF CleanupOK
<1>2. PICK i \in 1 .. 7 : t = "ws" /\ task["ws"] = InitFrom(i) /\ InitOK(i)
  BY <1>0, <1>1 DEF Flow, WsOK, RtcOK, Thread
<1>3. /\ Do(InitSteps[i])
      /\ task' = [task EXCEPT !["ws"] = IF i = 7 THEN NoTask ELSE InitFrom(i + 1)]
  BY <1>2, InitMoves
<1>4. i = 1 /\ fate' = "dangling"
  BY <1>3, InitDoes
<1>5. task'["ws"] = InitFrom(2) /\ task'["rtc"] = NoTask
  <2>1. task \in [Thread -> TaskType]
    BY DEF AudioTypeOK
  <2>2. task["rtc"] = NoTask
    BY <1>0, <1>2, AtWork DEF Thread
  <2> QED BY <1>3, <1>4, <2>1, <2>2 DEF Thread
<1>6. InitFrom(2).lambda = "initRtc" /\ Head(InitFrom(2).left) = "newCapture"
  <2>1. InitSteps[2] = "newCapture"
    BY DEF InitSteps
  <2> QED BY <2>1, InitPlace
<1>7. OnlyNewCallsCollide' /\ PlaybackThreadJoined'
  BY <1>4, <1>5, <1>6 DEF OnlyNewCallsCollide, PlaybackThreadJoined
<1>8. JoinsStoppedThreads'
  BY <1>5, <1>6 DEF JoinsStoppedThreads, JoinsPlayback, Thread, NoTask
<1> QED BY <1>7, <1>8 DEF EndOK

(* A track that finds a playback thread to be joined: it is being joined. *)
LEMMA TrackEnds ==
    ASSUME AudioTypeOK, Flow, fate = "fine", fate' # "fine", onTrack
    PROVE  EndOK'
<1>1. /\ ~playback.running_ /\ playback.thread # "none" /\ fate' = "terminate"
      /\ UNCHANGED <<playback, task, mic>> /\ RtcIdle /\ pc'.heard
  BY DEF onTrack, callVars, AudioTypeOK, PcType
<1>2. \/ task["ws"] = CleanupFrom(4) \/ task["rtc"] = CleanupFrom(4)
      \/ task["ws"] = InitFrom(6)
  BY <1>1 DEF Flow, UnjoinedOK
<1>3. /\ CleanupFrom(4) # NoTask /\ Head(CleanupFrom(4).left) = CleanupSteps[4]
      /\ InitFrom(6) # NoTask /\ Head(InitFrom(6).left) = InitSteps[6]
  BY CleanupPlace, InitPlace
<1>4. CleanupSteps[4] = "joinPlayback" /\ InitSteps[6] = "joinPlayback"
  BY DEF CleanupSteps, InitSteps
<1>5. \E t \in Thread : JoinsPlayback(t)
  BY <1>2, <1>3, <1>4 DEF JoinsPlayback, Thread
<1>6. OnlyNewCallsCollide' /\ PlaybackThreadJoined'
  BY <1>1, <1>5 DEF OnlyNewCallsCollide, PlaybackThreadJoined, JoinsPlayback, NoTask
<1>7. JoinsStoppedThreads'
  <2>1. JoinsStoppedThreads
    BY FlowJoins
  <2> QED BY <1>1, <2>1 DEF JoinsStoppedThreads, JoinsPlayback, NoTask
<1> QED BY <1>6, <1>7 DEF EndOK

----------------------------------------------------------------------------
(* The recording.                                                           *)

\* The capture thread holds a frame that is not in the buffer yet.
InHand == mic.at \in {"read", "recording"}

\* The recording that was asked for is that of the Capture in hand.
Recording == record.active /\ record.id = capture.id

\* f is what a recording that goes on has so far.
Covers(f) ==
    /\ \A i \in 1 .. Len(f) : f[i] = f[1] + i - 1
    /\ f = <<>> => \/ FramesRead = record.from
                   \/ mic.own /\ InHand /\ FramesRead = record.from + 1
    /\ f # <<>> => /\ mic.own
                   /\ f[1] - record.from \in {0, 1}
                   /\ f[Len(f)] = IF InHand THEN mic.frame - 1 ELSE mic.frame

\* Without a Capture there is no thread; a Capture that came after record
\* was typed records nothing; one that it reached records without a gap.
RecordOK ==
    /\ capture.id = 0 =>
          mic.at = "none" /\ mic.own /\ mic.frame = 0 /\ capture = NewCapture(0)
    /\ record.active => record.id <= capture.id
    /\ record.active /\ record.id # capture.id =>
          /\ capture.record_buf_ = <<>> /\ ~capture.recording_
          /\ ~(mic.own /\ mic.at = "recording")
    /\ Recording /\ capture.id # 0 => capture.recording_
    /\ Recording => Covers(capture.record_buf_)

(* Steps that neither read, record nor replace anything. *)
LEMMA QuietForRecord ==
    ASSUME RecordOK, UNCHANGED <<capture, record>>,
           mic'.own = mic.own, mic'.frame = mic.frame, InHand' <=> InHand,
           mic.at = "none" => mic'.at = "none",
           mic'.at = "recording" => mic.at = "recording"
    PROVE  RecordOK'
<1>1. FramesRead' = FramesRead
  BY DEF FramesRead
<1>2. ASSUME Recording, Covers(capture.record_buf_) PROVE Covers(capture.record_buf_)'
  BY <1>1, <1>2 DEF Covers
<1>3. Recording' <=> Recording
  BY DEF Recording
<1>4. /\ Recording' /\ capture'.id # 0 => capture'.recording_
      /\ Recording' => Covers(capture.record_buf_)'
  BY <1>2, <1>3 DEF RecordOK
<1>5. /\ capture'.id = 0 =>
            mic'.at = "none" /\ mic'.own /\ mic'.frame = 0 /\ capture' = NewCapture(0)
      /\ record'.active => record'.id <= capture'.id
      /\ record'.active /\ record'.id # capture'.id =>
            /\ capture'.record_buf_ = <<>> /\ ~capture'.recording_
            /\ ~(mic'.own /\ mic'.at = "recording")
  BY DEF RecordOK
<1> QED BY <1>4, <1>5 DEF RecordOK, NewCapture

(* A frame that comes is in hand, and missing from the buffer. *)
LEMMA ReadKeepsRecord ==
    ASSUME AudioTypeOK, RecordOK, mic.at = "reading",
           mic' = [mic EXCEPT !.at = "read", !.frame = @ + 1], UNCHANGED <<capture, record>>
    PROVE  RecordOK'
<1>0. /\ mic \in MicType /\ record \in [active : BOOLEAN, id : Nat, from : Nat]
      /\ capture \in CaptureType
  BY DEF AudioTypeOK
<1>1. mic'.at = "read" /\ mic'.frame = mic.frame + 1 /\ mic'.own = mic.own
  BY <1>0 DEF MicType
<1>2. ~InHand /\ InHand'
  BY <1>1 DEF InHand
<1>3. Recording' <=> Recording
  BY DEF Recording
<1>4. ASSUME Recording PROVE Covers(capture.record_buf_)'
  <2>1. Covers(capture.record_buf_)
    BY <1>4 DEF RecordOK
  <2>2. FramesRead' = IF mic.own THEN mic.frame + 1 ELSE 0
    BY <1>1 DEF FramesRead
  <2>3. mic.frame \in Nat
    BY <1>0 DEF MicType
  <2> QED BY <1>1, <1>2, <2>1, <2>2, <2>3 DEF Covers, FramesRead
<1> QED BY <1>1, <1>3, <1>4 DEF RecordOK, NewCapture

(* The test of recording_ lets no frame of a recording pass. *)
LEMMA TestKeepsRecord ==
    ASSUME AudioTypeOK, RecordOK, MicTestsRecording
    PROVE  RecordOK'
<1>0. /\ mic \in MicType /\ UNCHANGED <<capture, record>> /\ mic.at = "read"
      /\ mic' = [mic EXCEPT !.at = IF mic.own /\ capture.recording_ THEN "recording"
                                   ELSE "callback"]
  BY DEF AudioTypeOK, MicTestsRecording, MicOnly
<1>1. /\ mic'.at = IF mic.own /\ capture.recording_ THEN "recording" ELSE "callback"
      /\ mic'.frame = mic.frame /\ mic'.own = mic.own
  BY <1>0 DEF MicType
<1>2. FramesRead' = FramesRead
  BY <1>1 DEF FramesRead
<1>3. Recording' <=> Recording
  BY <1>0 DEF Recording
<1>4. capture.id # 0
  BY <1>0 DEF RecordOK
<1>5. ASSUME Recording PROVE Covers(capture.record_buf_)'
  <2>1. Covers(capture.record_buf_) /\ capture.recording_
    BY <1>4, <1>5 DEF RecordOK
  <2>2. CASE mic.own
    <3>1. InHand /\ InHand'
      BY <1>0, <1>1, <2>1, <2>2 DEF InHand
    <3> QED BY <1>0, <1>1, <1>2, <2>1, <3>1 DEF Covers
  <2>3. CASE ~mic.own
    BY <1>0, <1>1, <1>2, <2>1, <2>3 DEF Covers
  <2> QED BY <2>2, <2>3
<1> QED BY <1>0, <1>1, <1>3, <1>4, <1>5 DEF RecordOK, NewCapture

(* The frame in hand goes to the end of the buffer. *)
LEMMA AppendKeepsRecord ==
    ASSUME AudioTypeOK, RecordOK, MicRecords
    PROVE  RecordOK'
<1>0. /\ mic \in MicType /\ capture \in CaptureType
      /\ record \in [active : BOOLEAN, id : Nat, from : Nat]
      /\ UNCHANGED record /\ mic.at = "recording" /\ mic' = [mic EXCEPT !.at = "callback"]
  BY DEF AudioTypeOK, MicRecords, MicOnly
<1>1. mic'.at = "callback" /\ mic'.frame = mic.frame /\ mic'.own = mic.own
  BY <1>0 DEF MicType
<1>2. FramesRead' = FramesRead
  BY <1>1 DEF FramesRead
<1>3. InHand /\ ~InHand'
  BY <1>0, <1>1 DEF InHand
<1>4. capture.id # 0
  BY <1>0 DEF RecordOK
<1> DEFINE f == capture.record_buf_
<1>5. /\ f \in Seq(Nat) /\ mic.frame \in Nat /\ record.from \in Nat
      /\ capture.id \in Nat /\ capture.recording_ \in BOOLEAN
  BY <1>0 DEF CaptureType, MicType
<1>6. CASE mic.own
  <2>1. /\ capture'.record_buf_ = Append(f, mic.frame) /\ capture'.id = capture.id
        /\ capture'.recording_ = capture.recording_
    BY <1>0, <1>6 DEF MicRecords, CaptureType
  <2>2. Recording' <=> Recording
    BY <1>0, <2>1 DEF Recording
  <2>3. ASSUME Recording PROVE Covers(capture.record_buf_)'
    <3>1. Covers(f) /\ capture.recording_
      BY <1>4, <2>3 DEF RecordOK
    <3>2. FramesRead = mic.frame
      BY <1>6 DEF FramesRead
    <3> DEFINE g == Append(f, mic.frame)
    <3>3. /\ g \in Seq(Nat) /\ Len(g) = Len(f) + 1 /\ g # <<>>
          /\ \A i \in 1 .. Len(f) : g[i] = f[i]
          /\ g[Len(f) + 1] = mic.frame
      BY <1>5, AppendProperties
    <3> HIDE DEF g, f
    <3>4. Len(f) \in Nat
      BY <1>5
    <3>5. CASE f = <<>>
      <4>1. Len(f) = 0
        BY <3>5
      <4>2. mic.frame = record.from \/ mic.frame = record.from + 1
        BY <3>1, <3>2, <3>5 DEF Covers
      <4>3. Len(g) = 1 /\ g[1] = mic.frame
        BY <3>3, <4>1
      <4>4. \A i \in 1 .. Len(g) : g[i] = g[1] + i - 1
        BY <1>5, <4>3
      <4>5. g[1] - record.from \in {0, 1} /\ g[Len(g)] = mic.frame
        BY <1>5, <4>2, <4>3
      <4> QED BY <1>0, <1>1, <1>3, <1>6, <2>1, <3>3, <4>4, <4>5 DEF Covers, g, f
    <3>6. CASE f # <<>>
      <4>1. Len(f) > 0
        BY <1>5, <3>4, <3>6, EmptySeq
      <4>2. /\ \A i \in 1 .. Len(f) : f[i] = f[1] + i - 1
            /\ f[1] - record.from \in {0, 1} /\ f[Len(f)] = mic.frame - 1
        BY <1>3, <3>1, <3>6 DEF Covers
      <4>3. g[1] = f[1] /\ f[1] \in Nat
        BY <1>5, <3>3, <3>4, <4>1
      <4>4. f[1] + Len(f) - 1 = mic.frame - 1
        BY <3>4, <4>1, <4>2
      <4>5. ASSUME NEW i \in 1 .. Len(g) PROVE g[i] = g[1] + i - 1
        <5>1. CASE i \in 1 .. Len(f)
          BY <3>3, <4>2, <4>3, <5>1
        <5>2. CASE i = Len(f) + 1
          <6>1. g[i] = mic.frame
            BY <3>3, <5>2
          <6>2. f[1] + i - 1 = mic.frame
            <7> DEFINE a == f[1]
                       n == Len(f)
                       m == mic.frame
            <7>1. a \in Nat /\ n \in Nat /\ m \in Nat /\ a + n - 1 = m - 1 /\ i = n + 1
              BY <1>5, <3>4, <4>3, <4>4, <5>2
            <7> HIDE DEF a, n, m
            <7>2. a + i - 1 = m
              BY <7>1
            <7> QED BY <7>2 DEF a, m
          <6> QED BY <4>3, <6>1, <6>2
        <5> QED BY <3>3, <3>4, <5>1, <5>2
      <4>6. g[1] - record.from \in {0, 1} /\ g[Len(g)] = mic.frame
        BY <3>3, <4>2, <4>3
      <4> QED BY <1>0, <1>1, <1>3, <1>6, <2>1, <3>3, <4>5, <4>6 DEF Covers, g, f
    <3> QED BY <3>5, <3>6
  <2>4. ~(record.active /\ record.id # capture.id)
    BY <1>0, <1>6 DEF RecordOK
  <2>5. record'.active => record'.id <= capture'.id
    BY <1>0, <2>1 DEF RecordOK
  <2>6. Recording' /\ capture'.id # 0 => capture'.recording_
    BY <2>1, <2>2 DEF RecordOK
  <2> QED BY <1>0, <1>4, <2>1, <2>2, <2>3, <2>4, <2>5, <2>6 DEF RecordOK
<1>7. CASE ~mic.own
  <2>1. UNCHANGED capture
    BY <1>7 DEF MicRecords
  <2>2. Recording' <=> Recording
    BY <1>0, <2>1 DEF Recording
  <2>3. ASSUME Recording PROVE Covers(capture.record_buf_)'
    <3>1. Covers(f)
      BY <2>3 DEF RecordOK
    <3> QED BY <1>1, <1>2, <1>7, <2>1, <1>0, <3>1 DEF Covers
  <2> QED BY <1>0, <1>1, <1>4, <2>1, <2>2, <2>3 DEF RecordOK
<1> QED BY <1>6, <1>7

(* A capture thread of a new object finds nothing recorded. *)
LEMMA StepKeepsRecord ==
    ASSUME AudioTypeOK, Flow, RecordOK, NEW t \in Thread, Step(t)
    PROVE  RecordOK'
<1>0. /\ mic \in MicType /\ capture \in CaptureType /\ UNCHANGED <<configs, record>>
      /\ record \in [active : BOOLEAN, id : Nat, from : Nat]
      /\ configs \in [made : Nat, received : Nat]
  BY DEF AudioTypeOK, Step
<1>1. ASSUME UNCHANGED capture,
             UNCHANGED mic \/ mic' = [mic EXCEPT !.running_ = FALSE]
             \/ (mic.at \in {"none", "exited"} /\ mic' = [mic EXCEPT !.at = "none"])
      PROVE  RecordOK'
  <2>1. /\ mic'.own = mic.own /\ mic'.frame = mic.frame
        /\ mic'.at = mic.at \/ (mic.at \in {"none", "exited"} /\ mic'.at = "none")
    BY <1>0, <1>1 DEF MicType
  <2>2. InHand' <=> InHand
    BY <2>1 DEF InHand
  <2> QED BY <1>0, <1>1, <2>1, <2>2, QuietForRecord
<1>2. ASSUME NEW i \in 1 .. 6, task[t] = CleanupFrom(i) PROVE RecordOK'
  <2>1. Do(CleanupSteps[i])
    BY <1>2, CleanupMoves
  <2> QED BY <1>1, <2>1, CleanupDoes
<1>3. ASSUME NEW i \in 1 .. 7, task[t] = InitFrom(i), InitOK(i) PROVE RecordOK'
  <2>1. Do(InitSteps[i])
    BY <1>3, InitMoves
  <2>2. CASE i # 2 /\ i # 4
    BY <1>1, <2>1, <2>2, InitDoes
  <2>3. CASE i = 2
    <3>1. /\ capture' = NewCapture(configs.received)
          /\ mic' = [mic EXCEPT !.own = FALSE, !.running_ = FALSE]
          /\ capture.id < configs.received
      BY <1>3, <2>1, <2>3, InitDoes DEF InitOK
    <3>2. /\ capture'.id = configs.received /\ ~capture'.recording_
          /\ capture'.record_buf_ = <<>> /\ ~mic'.own
      BY <1>0, <3>1 DEF NewCapture, MicType
    <3>3. capture.id \in Nat /\ configs.received \in Nat /\ record.id \in Nat
      BY <1>0 DEF CaptureType
    <3>4. capture'.id # 0 /\ (record'.active => record'.id < capture'.id)
      BY <1>0, <3>1, <3>2, <3>3 DEF RecordOK
    <3>5. ~Recording'
      BY <1>0, <3>2, <3>3, <3>4 DEF Recording
    <3>6. record'.active => record'.id <= capture'.id
      BY <1>0, <3>2, <3>3, <3>4
    <3> QED BY <3>2, <3>4, <3>5, <3>6 DEF RecordOK
  <2>4. CASE i = 4
    <3>1. Starts /\ UNCHANGED capture /\ ~mic.own /\ capture.id > 0 /\ mic.at = "none"
      BY <1>3, <2>1, <2>4, InitDoes DEF InitOK
    <3>2. mic'.own /\ mic'.at = "loop" /\ mic'.frame = 0
      BY <3>1 DEF Starts, NoMic
    <3>3. ~InHand' /\ FramesRead' = 0 /\ FramesRead = 0
      BY <3>1, <3>2 DEF InHand, FramesRead
    <3>4. Recording' <=> Recording
      BY <1>0, <3>1 DEF Recording
    <3>5. ASSUME Recording PROVE Covers(capture.record_buf_)'
      <4>1. Covers(capture.record_buf_)
        BY <3>5 DEF RecordOK
      <4> QED BY <1>0, <3>1, <3>3, <4>1 DEF Covers
    <3>6. capture.id \in Nat
      BY <1>0 DEF CaptureType
    <3> QED BY <1>0, <3>1, <3>2, <3>4, <3>5, <3>6 DEF RecordOK
  <2> QED BY <2>2, <2>3, <2>4
<1>4. task[t] # NoTask
  BY DEF Step
<1> QED BY <1>2, <1>3, <1>4 DEF Flow, WsOK, RtcOK, Thread

(* record begins with an empty buffer; after stop nothing is recorded. *)
LEMMA CommandsKeepRecord ==
    ASSUME AudioTypeOK, RecordOK, record_ \/ stop
    PROVE  RecordOK'
<1>0. /\ mic \in MicType /\ capture \in CaptureType /\ UNCHANGED mic
      /\ record \in [active : BOOLEAN, id : Nat, from : Nat]
  BY DEF AudioTypeOK, record_, stop
<1>1. CASE record_
  <2>1. /\ capture'.record_buf_ = <<>> /\ capture'.id = capture.id
        /\ capture.id # 0 => capture'.recording_
        /\ capture.id = 0 => UNCHANGED capture
    <3>1. CASE capture.id = 0
      BY <1>1, <3>1 DEF record_, RecordOK, NewCapture
    <3>2. CASE capture.id # 0
      <4>1. capture' = [capture EXCEPT !.recording_ = TRUE, !.record_buf_ = <<>>]
        BY <1>1, <3>2 DEF record_, startRecording
      <4>2. ASSUME NEW b \in Seq(Nat), NEW c,
                   c = [capture EXCEPT !.recording_ = TRUE, !.record_buf_ = b]
            PROVE  c.id = capture.id /\ c.recording_ /\ c.record_buf_ = b
        BY <1>0, <4>2 DEF CaptureType
      <4>3. <<>> \in Seq(Nat)
        OBVIOUS
      <4> QED BY <3>2, <4>1, <4>2, <4>3
    <3> QED BY <3>1, <3>2
  <2>2. record' = [active |-> TRUE, id |-> capture.id, from |-> FramesRead]
    BY <1>1 DEF record_
  <2>3. record'.from = FramesRead /\ FramesRead' = FramesRead
    BY <1>0, <2>2 DEF FramesRead
  <2>4. Covers(capture.record_buf_)'
    BY <2>1, <2>3 DEF Covers
  <2>5. record'.id = capture'.id /\ capture'.id \in Nat
    BY <1>0, <2>1, <2>2 DEF CaptureType
  <2>6. /\ capture'.id = 0 =>
              mic'.at = "none" /\ mic'.own /\ mic'.frame = 0 /\ capture' = NewCapture(0)
        /\ record'.id <= capture'.id
    BY <1>0, <2>1, <2>5 DEF RecordOK
  <2> QED BY <2>1, <2>4, <2>5, <2>6 DEF RecordOK, Recording, NewCapture
<1>2. CASE stop
  <2>1. ~record'.active
    BY <1>2 DEF stop, NotRecording
  <2>2. /\ capture'.id = capture.id
        /\ capture.id = 0 => capture' = capture
    BY <1>0, <1>2 DEF stop, NewCapture
  <2> QED BY <1>0, <2>1, <2>2 DEF RecordOK, Recording, NewCapture
<1> QED BY <1>1, <1>2

(* The other steps. *)
LEMMA OthersKeepRecord ==
    ASSUME AudioTypeOK, RecordOK,
           \/ MicTests \/ MicReads \/ MicCallback \/ MicSends
           \/ PlaybackLoop \/ CallEnded \/ CallBroken \/ rtcConfig
           \/ Connected \/ Disconnected \/ Failed \/ onTrack \/ onMessage
           \/ Dial \/ hangup \/ mute \/ sendfile
    PROVE  RecordOK'
<1>0. mic \in MicType /\ UNCHANGED <<capture, record>>
  BY DEF AudioTypeOK, MicTests, MicReads, MicCallback, MicSends, MicOnly,
         PlaybackLoop, CallEnded, CallBroken, rtcConfig, Connected, Disconnected, Failed,
         onTrack, onMessage, Dial, hangup, mute, sendfile
<1>1. CASE UNCHANGED mic
  <2>1. InHand' <=> InHand
    BY <1>1 DEF InHand
  <2> QED BY <1>0, <1>1, <2>1, QuietForRecord
<1>2. ASSUME NEW at, mic' = [mic EXCEPT !.at = at], at \notin {"read", "recording"},
             mic.at \notin {"none", "read", "recording"}
      PROVE  RecordOK'
  <2>1. mic'.at = at /\ mic'.own = mic.own /\ mic'.frame = mic.frame
    BY <1>0, <1>2 DEF MicType
  <2>2. InHand' <=> InHand
    BY <1>2, <2>1 DEF InHand
  <2> QED BY <1>0, <1>2, <2>1, <2>2, QuietForRecord
<1>3. CASE MicTests
  BY <1>2, <1>3 DEF MicTests
<1>4. CASE MicReads
  BY <1>0, <1>2, <1>4, ReadKeepsRecord DEF MicReads
<1>5. CASE MicCallback
  BY <1>2, <1>5 DEF MicCallback
<1>6. CASE MicSends
  BY <1>2, <1>6 DEF MicSends
<1>7. CASE \/ PlaybackLoop \/ CallEnded \/ CallBroken \/ rtcConfig
           \/ Connected \/ Disconnected \/ Failed \/ onTrack \/ onMessage
           \/ Dial \/ hangup \/ mute \/ sendfile
  <2>1. UNCHANGED mic
    BY <1>7 DEF PlaybackLoop, CallEnded, CallBroken, rtcConfig, Connected, Disconnected,
                Failed, onTrack, onMessage, Dial, hangup, mute, sendfile
  <2> QED BY <1>1, <2>1
<1> QED BY <1>3, <1>4, <1>5, <1>6, <1>7

----------------------------------------------------------------------------
(* The theorems.                                                            *)

\* While nothing has gone wrong the tasks and the recording are in order;
\* a behaviour that went wrong has ended as the properties allow.
AudioInv ==
    /\ fate = "fine" => AudioTypeOK /\ Flow /\ RecordOK
    /\ fate # "fine" => EndOK

LEMMA AudioInvInit == ASSUME AudioInit PROVE AudioInv
<1>1. AudioTypeOK
  <2>1. NoTask \in TaskType
    BY DEF NoTask, TaskType
  <2>2. NewCapture(0) \in CaptureType
    BY DEF NewCapture, CaptureType
  <2>3. NoPc \in PcType
    BY DEF NoPc, PcType
  <2>4. NoMic \in MicType /\ NoPlayback \in PlaybackType
    BY DEF NoMic, MicType, MicPlace, NoPlayback, PlaybackType
  <2>5. NotRecording \in [active : BOOLEAN, id : Nat, from : Nat]
    BY DEF NotRecording
  <2>6. [made |-> 0, received |-> 0] \in [made : Nat, received : Nat]
    OBVIOUS
  <2>7. task \in [Thread -> TaskType]
    BY <2>1 DEF AudioInit
  <2> QED BY <2>2, <2>3, <2>4, <2>5, <2>6, <2>7 DEF AudioInit, AudioTypeOK
<1>2. Flow
  BY DEF AudioInit, Flow, Sole, WsOK, RtcOK, UnjoinedOK, Thread, NoPlayback, NewCapture
<1>3. RecordOK
  BY DEF AudioInit, RecordOK, Recording, NotRecording, NoMic, NewCapture
<1> QED BY <1>1, <1>2, <1>3 DEF AudioInv, AudioInit

LEMMA AudioInvNext == ASSUME AudioInv, [AudioNext]_audioVars PROVE AudioInv'
<1>1. CASE UNCHANGED audioVars
  <2>1. UNCHANGED <<call, configs, call_cleanup_done, task, pc, capture, mic, playback,
                    record, fate>>
    BY <1>1 DEF audioVars
  <2>2. AudioTypeOK => AudioTypeOK'
    BY <2>1 DEF AudioTypeOK
  <2>3. ASSUME AudioTypeOK, Flow PROVE Flow'
    <3>1. \A t \in Thread, i \in 1 .. 6 :
              task[t] = CleanupFrom(i) /\ CleanupOK(t, i) => CleanupOK(t, i)'
      BY <2>1 DEF CleanupOK
    <3>2. \A i \in 1 .. 7 : task["ws"] = InitFrom(i) /\ InitOK(i) => InitOK(i)'
      BY <2>1 DEF InitOK
    <3>3. UnjoinedOK'
      BY <2>1, <2>3 DEF Flow, UnjoinedOK, CleanupFrom, InitFrom
    <3> QED BY <2>1, <2>3, <3>1, <3>2, <3>3, RestingTasks DEF Flow
  <2>4. ASSUME RecordOK PROVE RecordOK'
    <3>1. InHand' <=> InHand
      BY <2>1 DEF InHand
    <3> QED BY <2>1, <2>4, <3>1, QuietForRecord
  <2>5. EndOK => EndOK'
    BY <2>1 DEF EndOK, OnlyNewCallsCollide, PlaybackThreadJoined, JoinsStoppedThreads,
                JoinsPlayback, NoTask
  <2> QED BY <2>1, <2>2, <2>3, <2>4, <2>5 DEF AudioInv
<1>2. ASSUME AudioNext PROVE AudioInv'
  <2>0. fate = "fine" /\ AudioTypeOK /\ Flow /\ RecordOK
    BY <1>2 DEF AudioNext, AudioInv
  <2>1. CASE MicStep
    <3>1. fate' = fate
      BY <2>1 DEF MicStep, MicTests, MicReads, MicTestsRecording, MicRecords, MicCallback,
                  MicSends, MicOnly
    <3>2. RecordOK'
      BY <2>0, <2>1, TestKeepsRecord, AppendKeepsRecord, OthersKeepRecord DEF MicStep
    <3> QED BY <2>0, <2>1, <3>1, <3>2, MicKeepsFlow DEF AudioInv
  <2>2. CASE PlaybackLoop
    <3>1. fate' = fate
      BY <2>2 DEF PlaybackLoop
    <3> QED BY <2>0, <2>2, <3>1, PlaybackKeepsFlow, OthersKeepRecord DEF AudioInv
  <2>3. ASSUME NEW t \in Thread, Step(t) PROVE AudioInv'
    BY <2>0, <2>3, StepKeepsFlow, StepKeepsRecord, StepEnds DEF AudioInv
  <2>4. CASE CallEnded \/ CallBroken \/ Failed \/ rtcConfig
    BY <2>0, <2>4, EntryKeepsFlow, EntryEnds, OthersKeepRecord DEF AudioInv
  <2>5. CASE Connected \/ Disconnected \/ onTrack
    <3>1. fate' # "fine" => onTrack
      BY <2>0, <2>5 DEF Connected, Disconnected
    <3> QED BY <2>0, <2>5, <3>1, CallbacksKeepFlow, TrackEnds, OthersKeepRecord DEF AudioInv
  <2>6. CASE onMessage \/ sendfile \/ Dial \/ hangup \/ mute \/ record_ \/ stop
    <3>1. fate' = fate
      BY <2>6 DEF onMessage, sendfile, Dial, hangup, mute, record_, stop
    <3>2. RecordOK'
      BY <2>0, <2>6, CommandsKeepRecord, OthersKeepRecord
    <3> QED BY <2>0, <2>6, <3>1, <3>2, OthersKeepFlow DEF AudioInv
  <2> QED BY <1>2, <2>1, <2>2, <2>3, <2>4, <2>5, <2>6 DEF AudioNext
<1> QED BY <1>1, <1>2

LEMMA AudioInvHolds == AudioSpec => []AudioInv
  BY AudioInvInit, AudioInvNext, PTL DEF AudioSpec

(* Lambdas overlap, and the peer connection goes while the capture callback
   is using it, only when initRtc takes part (main.cpp:64-147): the flag
   call_cleanup_done suffices against two teardowns, and cleanupCall joins the
   capture thread before it lets the peer connection go. *)
THEOREM NewCallsCollide == AudioSpec => []OnlyNewCallsCollide
<1>1. AudioInv => OnlyNewCallsCollide
  BY DEF AudioInv, EndOK, OnlyNewCallsCollide
<1> QED BY <1>1, AudioInvHolds, PTL

(* Playback::start assigns to a thread that was not joined only while
   Playback::stop waits in join (playback.cpp:79-90). *)
THEOREM StartsJoinedThreads == AudioSpec => []PlaybackThreadJoined
<1>1. AudioInv => PlaybackThreadJoined
  BY DEF AudioInv, EndOK, PlaybackThreadJoined
<1> QED BY <1>1, AudioInvHolds, PTL

(* A thread that cleanupCall or initRtc waits for has been told to stop
   (capture.cpp:86-90, playback.cpp:85-90), unless the remote track came in
   the midst of Playback::stop. *)
THEOREM JoinsEnd == AudioSpec => []JoinsStoppedThreads
<1>1. AudioInv => JoinsStoppedThreads
  BY FlowJoins DEF AudioInv, EndOK
<1> QED BY <1>1, AudioInvHolds, PTL

(* What stop saves is a run of consecutive frames that covers the recording
   to within a frame at either end, however the capture thread and the user's
   interleave around recording_ and record_mutex_ (capture.cpp:92-128); with
   a Capture that a new call has made it is nothing. *)
THEOREM SavedRecordings == AudioSpec => RecordingsWhole
<1>1. ASSUME AudioInv, AudioNext, stop
      PROVE  IF record.id = capture.id THEN Whole(Recorded) ELSE Recorded = <<>>
  <2>1. AudioTypeOK /\ RecordOK /\ record.active
    BY <1>1 DEF AudioInv, AudioNext, stop
  <2>2. CASE record.id = capture.id
    <3>1. Covers(Recorded)
      BY <2>1, <2>2 DEF RecordOK, Recording, Recorded
    <3>2. mic.frame \in Nat /\ record.from \in Nat /\ Recorded \in Seq(Nat)
      BY <2>1 DEF AudioTypeOK, MicType, CaptureType, Recorded
    <3>3. FramesRead \in Nat
      BY <3>2 DEF FramesRead
    <3>4. CASE Recorded = <<>>
      <4>1. FramesRead <= record.from + 1
        BY <3>1, <3>2, <3>3, <3>4 DEF Covers
      <4> QED BY <2>2, <3>1, <3>4, <4>1 DEF Whole, Covers
    <3>5. CASE Recorded # <<>>
      <4>1. FramesRead - Recorded[Len(Recorded)] \in {0, 1}
        BY <3>1, <3>2, <3>5 DEF Covers, FramesRead
      <4> QED BY <2>2, <3>1, <3>5, <4>1 DEF Whole, Covers
    <3> QED BY <3>4, <3>5
  <2>3. CASE record.id # capture.id
    BY <2>1, <2>3 DEF RecordOK, Recorded
  <2> QED BY <2>2, <2>3
<1>2. AudioInv /\ [AudioNext]_audioVars =>
         [stop => IF record.id = capture.id THEN Whole(Recorded) ELSE Recorded = <<>>]_audioVars
  BY <1>1
<1> QED BY <1>2, AudioInvHolds, PTL DEF AudioSpec, RecordingsWhole

(* The threads of the client use the jitter buffer as its specification says,
   one operation of a locked buffer at a time: so the loudspeaker's buffer is
   a bounded queue whatever main.cpp's threads do (playback.cpp:79-131). *)
THEOREM BufferInUse == AudioSpec => JitterSpec
<1>1. AudioInit => JitterInit
  BY DEF AudioInit
<1>2. ASSUME [AudioNext]_audioVars PROVE [JitterNext]_jitterVars
  <2>1. CASE UNCHANGED audioVars
    BY <2>1 DEF audioVars
  <2>2. ASSUME AudioNext PROVE [JitterNext]_jitterVars
    <3>1. CASE MicStep
      BY <3>1 DEF MicStep, MicTests, MicReads, MicTestsRecording, MicRecords, MicCallback,
                  MicSends, MicOnly
    <3>2. CASE PlaybackLoop
      <4>1. FrameSize \in 0 .. MaxBlock
        BY AudioAssumption
      <4>2. read(FrameSize) \/ UNCHANGED jitterVars
        BY <3>2 DEF PlaybackLoop
      <4> QED BY <4>1, <4>2 DEF JitterNext
    <3>3. ASSUME NEW t \in Thread, Step(t) PROVE [JitterNext]_jitterVars
      <4>1. clear \/ UNCHANGED jitterVars
        BY <3>3 DEF Step, Do, PlaybackStep
      <4> QED BY <4>1 DEF JitterNext
    <3>4. CASE onMessage \/ sendfile
      BY <3>4 DEF onMessage, sendfile, JitterNext
    <3>5. CASE \/ CallEnded \/ CallBroken \/ rtcConfig \/ Connected \/ Disconnected \/ Failed
               \/ onTrack \/ Dial \/ hangup \/ mute \/ record_ \/ stop
      BY <3>5 DEF CallEnded, CallBroken, rtcConfig, Connected, Disconnected, Failed, onTrack,
                  Dial, hangup, mute, record_, stop
    <3> QED BY <2>2, <3>1, <3>2, <3>3, <3>4, <3>5 DEF AudioNext
  <2> QED BY <1>2, <2>1, <2>2
<1> QED BY <1>1, <1>2, PTL DEF AudioSpec, JitterSpec

(* So what the loudspeaker plays is a bounded queue of what the network and
   sendfile wrote, with silence where there was none. *)
THEOREM LoudspeakerIsQueue == AudioSpec => ImplementsQueue
  BY BufferInUse, RingIsQueue, PTL
=============================================================================
