---------------------------- MODULE MCAssignment ----------------------------
(* A small instance of Assignment. *)
EXTENDS Assignment

MCPlace == {0, 2}
MCCarrier == {3600, 5000}
MCGrid == {4, 8}
=============================================================================
