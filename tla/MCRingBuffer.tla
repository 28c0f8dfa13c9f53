---------------------------- MODULE MCRingBuffer ----------------------------
(* Instances of RingBuffer for TLC; the cfg files choose the sizes.         *)
EXTENDS RingBuffer
=============================================================================
