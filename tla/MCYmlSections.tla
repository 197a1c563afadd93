--------------------------- MODULE MCYmlSections ---------------------------
(* A small instance of YmlSections: every section, ids 1 to 3, the origin,  *)
(* another place and one above it, two powers, of which one reads as watts. *)
EXTENDS YmlSections

CONSTANTS p1, p2, p3

MCFlat == [p \in Place |-> IF p = p3 THEN p2 ELSE p]
=============================================================================
