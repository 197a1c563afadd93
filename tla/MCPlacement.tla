---------------------------- MODULE MCPlacement ----------------------------
(* A small instance of Placement: the corners of a triangle and a point in *)
(* it.                                                                     *)
EXTENDS Placement

MCPoint == {<<0, 0>>, <<4, 0>>, <<0, 4>>, <<1, 1>>}
=============================================================================
