------------------------------- MODULE MCRing -------------------------------
(* Four slots, two byte values, puts and gets of up to three bytes: every   *)
(* position of the two indices, every wrap, every split of a call.          *)
EXTENDS RingBuffer
=============================================================================
