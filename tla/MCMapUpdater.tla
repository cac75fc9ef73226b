----------------------------- MODULE MCMapUpdater -----------------------------
(* A dungeon map with two instances and a battleground map with one.           *)
EXTENDS MapUpdater, TLC

CONSTANTS dungeons, fields, dungeon1, dungeon2, field

MCParent == (dungeon1 :> dungeons) @@ (dungeon2 :> dungeons) @@ (field :> fields)
=============================================================================
