----------------------------- MODULE MCDragging -----------------------------
(* Small instances of Dragging: an entity of each kind that differs to the   *)
(* handlers, or a user equipment and the marker of another's waypoint.       *)
EXTENDS Dragging

CONSTANTS ru1, du1, ue1, wp1

MCKind == [e \in Entity |-> CASE e = ru1 -> "ru" [] e = du1 -> "du" [] OTHER -> "ue"]

\* wp1 has the id of waypoint 1 of another equipment.
MCRecord == [e \in Entity |-> IF e = wp1 THEN ue1 ELSE e]
=============================================================================
