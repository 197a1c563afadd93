--------------------------- MODULE MCDatabaseLoad ---------------------------
(* A small instance of DatabaseLoad: two databases and a load of the tab and one of the *)
(* editor.                                                                             *)
EXTENDS DatabaseLoad, TLC
Symmetric == Permutations(Db)
=============================================================================
