------------------------------ MODULE MCTileCodec ------------------------------
(***************************************************************************)
(* Grey tiles for TileCodec: a gradient of one per pixel among them.       *)
(***************************************************************************)
EXTENDS TileCodec

GreyTiles == [Cells -> {[b |-> v, g |-> v, r |-> v] : v \in {1, 2, 3}}]

\* No LOSSY tile is coded.
NoTransforms == {}

=============================================================================
