--------------------------- MODULE MCTileManager ---------------------------
(* Small instances of TileManager: one or two layers, and datasets of which  *)
(* one does not ship every layer.                                           *)
EXTENDS TileManager

CONSTANTS exterior, interior, tokyo, munich, oslo

MCShips == {<<exterior, tokyo>>, <<interior, tokyo>>, <<exterior, munich>>} \cap (Layer \X Url)
=============================================================================
