---------------------------- MODULE MCCirBuffers ----------------------------
(* A small instance of CirBuffers: two of the four buffers, three receive    *)
(* buffers in all, two chunks, two computations.                             *)
EXTENDS CirBuffers

CONSTANTS values, delays, m1, m2, m3
=============================================================================
