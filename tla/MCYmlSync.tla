----------------------------- MODULE MCYmlSync -----------------------------
(* Small instances of YmlSync: a document with units and a spawn zone, and a *)
(* table of units.  One load in the main run; two, which are interchangeable, *)
(* where overlapping loads are the question.                                *)
EXTENDS YmlSync, TLC

CONSTANTS units, zone, campus, load1, load2

MCTables == <<units>>
MCHas == {<<campus, units>>, <<campus, zone>>}

TwoLoads == Permutations(Job)
=============================================================================
