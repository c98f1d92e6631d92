--------------------------- MODULE BundleDirectory ---------------------------
(***************************************************************************)
(* A bundle directory shared by build_tile_bundle and a process that loads *)
(* it: _load_tile_bundle opens manifest.json and then, tile by tile, the   *)
(* input and the output array, one after the other, while a build may be   *)
(* rewriting them.                                                         *)
(*                                                                         *)
(* The checks of the loader are those of TileBundle; here they are applied *)
(* to what is read from the disk at the moment it is read.                 *)
(***************************************************************************)
EXTENDS TileBundleBuilder

CONSTANT MaxLoads   \* bound: loads of the directory

ASSUME LoadAssumption == MaxLoads \in Nat

VARIABLES
  verdict,    \* of the load: "none", "tiles", "accepted", "rejected"
  opened,     \* the manifest it read
  cursor,     \* number of the tile it reads next
  inputRead,  \* that tile's input array when it is read and the output array is not, or None
  covered,    \* covered_nodes
  loaded,     \* the tiles read so far
  source,     \* the build the directory held all through this load, or None
  loads       \* loads begun so far

loaderVars == <<verdict, opened, cursor, inputRead, covered, loaded, source, loads>>
vars == <<builderVars, loaderVars>>

NoManifest == [shaped |-> TRUE, nodesIn |-> 0, nodesOut |-> 0, grid |-> NoGrid, tiles |-> <<>>]

Loader ==
  INSTANCE TileBundle WITH Manifests <- {}, RequestedGrids <- {NoGrid},
                           manifest <- opened, requested <- NoGrid

(* A tile as TileBundle checks it; the builder gives no weights.            *)
TileOf(in, out) == [input |-> in, output |-> out, weighted |-> FALSE, weights |-> <<>>]

-----------------------------------------------------------------------------

Init ==
  /\ BuilderInit
  /\ verdict = "none"
  /\ opened = NoManifest
  /\ cursor = 1 /\ inputRead = None
  /\ covered = {}
  /\ loaded = <<>>
  /\ source = None
  /\ loads = 0

(* A manifest that is missing or torn raises.                               *)
OpenManifest ==
  /\ verdict # "tiles" /\ loads < MaxLoads
  /\ loads' = loads + 1
  /\ cursor' = 1 /\ inputRead' = None /\ covered' = {} /\ loaded' = <<>>
  /\ IF manifestFile \in {Missing, Torn}
     THEN /\ verdict' = "rejected"
          /\ opened' = NoManifest /\ source' = None
     ELSE /\ verdict' = "tiles"
          /\ opened' = manifestFile /\ source' = whole
  /\ UNCHANGED builderVars

(* np.load of the input array; a file that is missing or torn raises.       *)
ReadInput ==
  /\ verdict = "tiles" /\ cursor <= Len(opened.tiles) /\ inputRead = None
  /\ IF inputFile[cursor] \in {Missing, Torn}
     THEN verdict' = "rejected" /\ UNCHANGED inputRead
     ELSE inputRead' = inputFile[cursor] /\ UNCHANGED verdict
  /\ UNCHANGED <<opened, cursor, covered, loaded, source, loads, builderVars>>

(* np.load of the output array, when a build may have gone on, and the      *)
(* checks on the tile.                                                      *)
ReadOutput ==
  /\ verdict = "tiles" /\ cursor <= Len(opened.tiles) /\ inputRead # None
  /\ inputRead' = None
  /\ LET t == TileOf(inputRead, outputFile[cursor]) IN
         IF t.output \notin {Missing, Torn} /\ Loader!WellFormed(t) /\ Loader!MayCover(t)
         THEN /\ covered' = covered \cup Loader!OutputOf(t)
              /\ loaded' = Append(loaded, t)
              /\ cursor' = cursor + 1
              /\ UNCHANGED verdict
         ELSE /\ verdict' = "rejected"
              /\ UNCHANGED <<covered, loaded, cursor>>
  /\ UNCHANGED <<opened, source, loads, builderVars>>

(* TileBundle's Conclude, for a caller that asks for no grid of its own.    *)
Conclude ==
  /\ verdict = "tiles" /\ cursor > Len(opened.tiles)
  /\ verdict' = IF Loader!Complete /\ opened.grid # NullGrid /\ Loader!GridFits(Loader!EffectiveGrid)
                THEN "accepted" ELSE "rejected"
  /\ UNCHANGED <<opened, cursor, inputRead, covered, loaded, source, loads, builderVars>>

(* The builder's steps; a load no longer sees one build's files once they   *)
(* begin to change.                                                         *)
Build ==
  /\ BuilderNext
  /\ source' = IF whole' = whole THEN source ELSE None
  /\ UNCHANGED <<verdict, opened, cursor, inputRead, covered, loaded, loads>>

Next == Build \/ OpenManifest \/ ReadInput \/ ReadOutput \/ Conclude

Spec == Init /\ [][Next]_vars

-----------------------------------------------------------------------------

TypeOK ==
  /\ phase \in {"idle", "expand", "input", "half", "output", "saved", "manifest"}
  /\ build \in Builds \cup {None} /\ whole \in Builds \cup {None} /\ source \in Builds \cup {None}
  /\ phase # "idle" => /\ tile \in 1 .. Len(Partition(build))
                       /\ frontier \subseteq visited
                       /\ hop \in 0 .. build.hops
                       /\ Partition(build)[tile] \subseteq visited
  /\ started \in 0 .. MaxBuilds /\ loads \in 0 .. MaxLoads
  /\ verdict \in {"none", "tiles", "accepted", "rejected"}
  /\ Len(loaded) = cursor - 1

(* The tiles a build means to write.                                        *)
TilesOf(q) ==
  [k \in 1 .. Len(Partition(q)) |->
     TileOf(Sorted(ReceptiveField(q, Partition(q)[k])), Sorted(Partition(q)[k]))]

(* Which builds the loader takes: the grid is given and has two rows and    *)
(* columns, and the partition fills exactly the nodes of the model.         *)
Loadable(q) ==
  /\ GridOf(q) # NoGrid
  /\ GridOf(q)[1] > 1 /\ GridOf(q)[2] > 1
  /\ IF q.tileGrid # NoGrid THEN GridOf(q)[1] * GridOf(q)[2] = NodesOf(q)
     ELSE GridOf(q)[1] * GridOf(q)[2] <= NodesOf(q)

(* A load that met the files of one complete build ends with exactly its    *)
(* tiles, or is refused when the build was not loadable.                    *)
WholeBuildLoads ==
  (source # None /\ verdict \in {"accepted", "rejected"}) =>
    IF Loadable(source) THEN verdict = "accepted" /\ loaded = TilesOf(source)
    ELSE verdict = "rejected"

(* A build that was killed, or that raised half way, leaves no half-computed *)
(* array a later load would take: every file of an accepted load is what    *)
(* some build meant to write there, though the two files of a tile may be   *)
(* of two builds (tile_bundle.py:244-247, model.py:442-449).  In a          *)
(* directory that only ever saw one list of arguments the load is that      *)
(* whole bundle, however many builds it took.                               *)
EveryFileWasBuilt ==
  verdict = "accepted" =>
    /\ \A k \in DOMAIN loaded :
         /\ \E q \in begun : k \in DOMAIN TilesOf(q) /\ loaded[k].input = TilesOf(q)[k].input
         /\ \E q \in begun : k \in DOMAIN TilesOf(q) /\ loaded[k].output = TilesOf(q)[k].output
    /\ begun = {build} => loaded = TilesOf(build)

(* A rebuild that is in progress, or was cut short before its manifest was  *)
(* opened, mixes two bundles: tiles of one with tiles of the other, an old  *)
(* manifest with new arrays, an input array with the output array of        *)
(* another build.  The outputs of what the loader takes still share out the *)
(* nodes of the manifest it read, no node twice (model.py:474-484).         *)
MixIsPartition ==
  verdict = "accepted" =>
    /\ UNION {Loader!OutputOf(loaded[i]) : i \in DOMAIN loaded} = 0 .. opened.nodesOut - 1
    /\ \A i, j \in DOMAIN loaded :
         i # j => Loader!OutputOf(loaded[i]) \cap Loader!OutputOf(loaded[j]) = {}

(* docs_src/dev/tile-bundles.md:75: the bundle the command wrote is fully   *)
(* prepared to be passed to the model.                                      *)
BuiltBundleLoads ==
  (source # None /\ verdict # "none") => verdict # "rejected"

=============================================================================
