------------------------------ MODULE MCAudio ------------------------------
(* Audio with two calls, a ring of two places and two sample values.  The
   samples in the ring and the frames of the microphone share no variable,
   so it is enough to follow each while the other rests. *)
EXTENDS Audio

RingOrMicrophone == mic.frame > 0 \/ record.active => available_ = 0
============================================================================
