-------------------------- MODULE MCRaypathManager --------------------------
(* A small instance of RaypathManager and RayScreen: two databases, two time  *)
(* indices, two radio units.                                                  *)
EXTENDS RayScreen

CONSTANTS dbA, dbB, a1, a2, a3, b1

MCDbOf   == [r \in Ray |-> IF r = b1 THEN dbB ELSE dbA]
MCTimeOf == [r \in Ray |-> IF r = a3 THEN 2 ELSE 1]
MCLinkOf == [r \in Ray |-> IF r = b1 THEN 2 ELSE 1]
MCUnitOf == [kind \in FilterKind |-> [r \in Ray |-> IF r = a2 THEN 2 ELSE 1]]
MCSession ==
  LET none == [db \in Database \cup {NoDatabase} |-> NoFilters]
      only2 == [kind \in FilterKind |-> [all |-> FALSE, enabled |-> {2}]]
  IN  {[stored |-> [none EXCEPT ![dbA] = only2], visible |-> TRUE, range |-> 5]}
MCPower  == [r \in Ray |-> IF r = a2 THEN 9 ELSE 5]
=============================================================================
