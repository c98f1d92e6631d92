------------------------------ MODULE TileBundle ------------------------------
(***************************************************************************)
(* Loading of a tile bundle by weathergraph/model.py: the header checks,   *)
(* the scan over the tiles of manifest.json (_load_tile_bundle) and the    *)
(* part of WeatherGraphModel.__init__ that settles the reference grid.     *)
(*                                                                         *)
(* A manifest on disk is a record                                          *)
(*   shaped              both global shapes are 1 x nodes x 78             *)
(*   nodesIn, nodesOut   node counts of the two global shapes              *)
(*   grid                reference_grid_shape: a pair, NoGrid when the key *)
(*                       is absent, NullGrid when it is a JSON null        *)
(*   tiles               a sequence of tiles                               *)
(* and a tile is a record                                                  *)
(*   path                model_path, the ONNX artifact of the tile         *)
(*   input, output       the two index arrays, as sequences of integers    *)
(*   weighted, weights   whether output_weights_path is given, and what it *)
(*                       holds, in units of 1/Unit                         *)
(*   rows                the rows the tile's ONNX graph produces           *)
(***************************************************************************)
EXTENDS Integers, Sequences, FiniteSets, Functions

CONSTANTS
  Manifests,      \* manifests that may lie on disk
  RequestedGrids, \* values of the caller's reference_grid_shape argument
  NoGrid,         \* None, or a manifest without the key
  NullGrid        \* a manifest whose reference_grid_shape is null

ASSUME GridAssumption == NoGrid # NullGrid /\ NullGrid \notin RequestedGrids

ASSUME ManifestAssumption ==
  \A m \in Manifests :
    /\ m.shaped \in BOOLEAN
    /\ m.nodesIn \in Nat
    /\ m.nodesOut \in Nat
    /\ m.tiles \in Seq(Range(m.tiles))
    /\ \A t \in Range(m.tiles) :
         /\ t.input \in Seq(Int)
         /\ t.output \in Seq(Int)
         /\ t.weighted \in BOOLEAN
         /\ t.weights \in Seq(Int)
         /\ t.rows \in Nat

VARIABLES
  manifest,   \* the manifest this model object loads
  requested,  \* the reference grid its caller asked for
  cursor,     \* number of the tile the scan looks at next
  covered,    \* nodes covered_nodes marks so far
  verdict     \* "header", "tiles", "accepted" or "rejected"

loadVars == <<manifest, requested, cursor, covered, verdict>>

Node == 0 .. manifest.nodesOut - 1

Tiles == manifest.tiles

OutputOf(t) == Range(t.output)

-----------------------------------------------------------------------------
(* Plausible slips in the loader, each the body of one definition below.    *)

MayCoverAlways(t) == TRUE

WellFormedNoRange(t) ==
  /\ t.output # <<>>
  /\ IsInjective(t.output)
  /\ t.weighted => Len(t.weights) = Len(t.output)

CompleteWithGaps == Tiles # <<>>

-----------------------------------------------------------------------------

(* The checks one tile passes on its own: a non-empty array of distinct     *)
(* nodes, and one weight per output when there are weights.                 *)
WellFormed(t) ==
  /\ t.output # <<>>
  /\ OutputOf(t) \subseteq Node
  /\ IsInjective(t.output)
  /\ t.weighted => Len(t.weights) = Len(t.output)

(* Only a tile without weights is compared with the nodes covered so far.   *)
MayCover(t) == t.weighted \/ OutputOf(t) \cap covered = {}

(* After the loop: at least one tile, and no gap.                           *)
Complete == Tiles # <<>> /\ covered = Node

(* __init__ falls back on the bundle's grid when the caller gives none.     *)
EffectiveGrid == IF requested # NoGrid THEN requested ELSE manifest.grid

(* _normalize_reference_grid_shape, and the size check of __init__; the     *)
(* default 181 x 360 of a large model always fits.                          *)
Normalised(g) == g[1] > 1 /\ g[2] > 1

GridFits(g) == g = NoGrid \/ (Normalised(g) /\ g[1] * g[2] <= manifest.nodesOut)

LoadInit ==
  /\ manifest \in Manifests
  /\ requested \in RequestedGrids
  /\ cursor = 1
  /\ covered = {}
  /\ verdict = "header"

(* Rank, batch size, channels, and one node count for both shapes.          *)
CheckHeader ==
  /\ verdict = "header"
  /\ verdict' = IF manifest.shaped /\ manifest.nodesIn = manifest.nodesOut
                THEN "tiles" ELSE "rejected"
  /\ UNCHANGED <<manifest, requested, cursor, covered>>

(* One round of the loop over manifest["tiles"].                            *)
ScanTile ==
  /\ verdict = "tiles"
  /\ cursor <= Len(Tiles)
  /\ IF WellFormed(Tiles[cursor]) /\ MayCover(Tiles[cursor])
     THEN /\ covered' = covered \cup OutputOf(Tiles[cursor])
          /\ cursor' = cursor + 1
          /\ UNCHANGED verdict
     ELSE /\ verdict' = "rejected"
          /\ UNCHANGED <<covered, cursor>>
  /\ UNCHANGED <<manifest, requested>>

(* The end of the scan, tuple() of the grid (which raises on null), and a   *)
(* reference grid no larger than the output.                                *)
Conclude ==
  /\ verdict = "tiles"
  /\ cursor > Len(Tiles)
  /\ verdict' = IF /\ Complete
                   /\ manifest.grid # NullGrid
                   /\ GridFits(EffectiveGrid)
                THEN "accepted" ELSE "rejected"
  /\ UNCHANGED <<manifest, requested, cursor, covered>>

LoadNext == CheckHeader \/ ScanTile \/ Conclude

-----------------------------------------------------------------------------

LoadTypeOK ==
  /\ manifest \in Manifests
  /\ requested \in RequestedGrids
  /\ cursor \in 1 .. Len(Tiles) + 1
  /\ covered \subseteq Node
  /\ verdict \in {"header", "tiles", "accepted", "rejected"}

(* A bundle the constructor accepts leaves no gap and indexes no node that  *)
(* does not exist (model.py:454-484).                                       *)
AcceptedCovers ==
  verdict = "accepted" =>
    /\ Node = UNION {OutputOf(Tiles[i]) : i \in 1 .. Len(Tiles)}
    /\ \A i \in 1 .. Len(Tiles) : IsInjective(Tiles[i].output)

(* In an accepted bundle two tiles share a node only when the later one     *)
(* carries blending weights (model.py:466-478): a tile without weights      *)
(* never writes over what an earlier tile owns.                             *)
LaterOverlapIsWeighted ==
  verdict = "accepted" =>
    \A i, j \in 1 .. Len(Tiles) :
      (i < j /\ OutputOf(Tiles[i]) \cap OutputOf(Tiles[j]) # {}) => Tiles[j].weighted

=============================================================================
