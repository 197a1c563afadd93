------------------------------ MODULE MCScene ------------------------------
(* A small instance of Scene. *)
EXTENDS Scene

MCKey == 0..1
MCUe == {0}
MCMark == {1}
=============================================================================
