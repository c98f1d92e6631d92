-------------------------- MODULE TileBundleBuilder --------------------------
(***************************************************************************)
(* build_tile_bundle writes a bundle directory; a model may load that      *)
(* directory at any moment, also after a build that raised or was killed   *)
(* half way, and a directory may be built over again.                      *)
(*                                                                         *)
(* A build is described by the arguments of build_tile_bundle:             *)
(*   nodes                  num_nodes, or None                             *)
(*   grid, resolution       the two ways to name a grid (NoGrid, None)     *)
(*   tileGrid               tile_grid_shape, or NoGrid                     *)
(*   tileNodes, tileCount   the contiguous partition (None)                *)
(*   hops, undirected       the halo                                       *)
(*   edges                  pairs <<sender, receiver>>                     *)
(*   models                 how many tile models have been exported        *)
(* An index file holds the sorted array of a set of nodes.                 *)
(***************************************************************************)
EXTENDS Integers, Sequences, FiniteSets

CONSTANTS
  Builds,      \* the argument lists in use
  MaxTiles,    \* bound: tiles of any build
  MaxBuilds,   \* bound: builds of one directory
  None, NoGrid, NullGrid,
  Missing, Torn   \* a file that does not exist, or is only partly written

VARIABLES
  phase,      \* of the builder: "idle", "expand", "input" (file open), "half" (input
              \* file closed, output file not open), "output", "saved", "manifest"
  build,      \* arguments of the current or last build
  tile,       \* number of the tile at hand
  visited, frontier, hop,     \* expand_input_halo
  inputFile, outputFile,      \* the index files on disk, by tile number
  manifestFile,
  started,    \* builds begun so far
  begun,      \* their arguments
  whole       \* the build whose files make up the directory; None in between

builderVars == <<phase, build, tile, visited, frontier, hop, inputFile, outputFile,
                 manifestFile, started, begun, whole>>

-----------------------------------------------------------------------------
(* Plausible slips, each the body of one definition below.                  *)

AdjacentReversed(q, v) ==
  {u \in {e[2] : e \in q.edges} : <<v, u>> \in q.edges} \cup
  {u \in {e[1] : e \in q.edges} : q.undirected /\ <<u, v>> \in q.edges}

HaloDoneEarly == hop + 1 >= build.hops \/ frontier = {}

HaloDoneByFrontier == frontier = {}

CeilDown(n, k) == n \div k

-----------------------------------------------------------------------------
(* The arguments.                                                           *)

Ceil(n, k) == (n + k - 1) \div k

Positive(g) == g[1] > 0 /\ g[2] > 0

ResolutionGrid(r) == <<(180 \div r) + 1, 360 \div r>>

GridOf(q) == IF q.resolution # None THEN ResolutionGrid(q.resolution) ELSE q.grid

NodesOf(q) ==
  IF q.nodes # None THEN q.nodes ELSE GridOf(q)[1] * GridOf(q)[2]

(* num_nodes <= 0 and indices out of range raise; so does a tile shape      *)
(* without a grid, or an ambiguous contiguous partition.                    *)
GridAgrees(q) ==
  /\ q.grid # NoGrid => Positive(q.grid)
  /\ q.resolution # None =>
       /\ q.resolution > 0 /\ 180 % q.resolution = 0
       /\ q.grid # NoGrid => q.grid = ResolutionGrid(q.resolution)

ArgumentsFit(q) ==
  /\ GridAgrees(q)
  /\ q.nodes # None \/ GridOf(q) # NoGrid
  /\ NodesOf(q) > 0
  /\ \A e \in q.edges : e[1] \in 0 .. NodesOf(q) - 1 /\ e[2] \in 0 .. NodesOf(q) - 1
  /\ IF q.tileGrid # NoGrid THEN Positive(q.tileGrid) /\ GridOf(q) # NoGrid
     ELSE /\ (q.tileNodes = None) # (q.tileCount = None)
          /\ q.tileNodes # None => q.tileNodes > 0
          /\ q.tileCount # None => q.tileCount > 0

(* partition_regular_grid: blocks of tileGrid[1] x tileGrid[2] nodes, row   *)
(* by row, cut off at the edge of the grid.                                 *)
GridPartition(q) ==
  LET g == GridOf(q)
      b == q.tileGrid
      wide == Ceil(g[2], b[2])
      Block(r, c) == {i * g[2] + j : i \in {i \in 0 .. g[1] - 1 : i \div b[1] = r},
                                     j \in {j \in 0 .. g[2] - 1 : j \div b[2] = c}}
  IN  [k \in 1 .. Ceil(g[1], b[1]) * wide |-> Block((k - 1) \div wide, (k - 1) % wide)]

(* partition_contiguous_nodes.                                              *)
ContiguousPartition(q) ==
  LET n == NodesOf(q)
      size == IF q.tileCount # None THEN Ceil(n, q.tileCount) ELSE q.tileNodes
  IN  [k \in 1 .. Ceil(n, size) |-> {x \in 0 .. n - 1 : x \div size = k - 1}]

Partition(q) == IF q.tileGrid # NoGrid THEN GridPartition(q) ELSE ContiguousPartition(q)

(* build_receptive_field_adjacency: the neighbours a node reads from.       *)
Adjacent(q, v) ==
  {u \in 0 .. NodesOf(q) - 1 : <<u, v>> \in q.edges \/ (q.undirected /\ <<v, u>> \in q.edges)}

Neighbours(q, S) == UNION {Adjacent(q, v) : v \in S}

(* np.asarray(sorted(...)).                                                 *)
Sorted(S) ==
  [k \in 1 .. Cardinality(S) |-> CHOOSE x \in S : Cardinality({y \in S : y < x}) = k - 1]

ManifestOf(q) ==
  [shaped |-> TRUE, nodesIn |-> NodesOf(q), nodesOut |-> NodesOf(q),
   grid |-> IF GridOf(q) = NoGrid THEN NullGrid ELSE GridOf(q),
   tiles |-> [k \in 1 .. Len(Partition(q)) |-> k]]

(* The arguments have their declared types, and no build has more tiles     *)
(* than the directory is given room for.                                    *)
ASSUME BuildAssumption ==
  /\ MaxTiles \in Nat /\ MaxBuilds \in Nat
  /\ None \notin Builds
  /\ \A q \in Builds :
       /\ {q.nodes, q.resolution, q.tileNodes, q.tileCount} \subseteq Int \cup {None}
       /\ {q.grid, q.tileGrid} \subseteq (Int \X Int) \cup {NoGrid}
       /\ q.hops \in Int /\ q.models \in Nat /\ q.undirected \in BOOLEAN
       /\ q.edges \subseteq Int \X Int
       /\ ArgumentsFit(q) => Len(Partition(q)) <= MaxTiles

(* No grid is null, and no array or manifest is taken for a file that is    *)
(* missing or torn.                                                         *)
ASSUME FileAssumption ==
  /\ NullGrid \notin Int \X Int
  /\ \A f \in {Missing, Torn} :
       /\ f \notin Seq(Int)
       /\ f \notin [shaped : BOOLEAN, nodesIn : Int, nodesOut : Int,
                    grid : (Int \X Int) \cup {NullGrid}, tiles : Seq(Int)]

-----------------------------------------------------------------------------
(* The builder.                                                             *)

BuilderInit ==
  /\ phase = "idle"
  /\ build = None
  /\ tile = 0
  /\ visited = {} /\ frontier = {} /\ hop = 0
  /\ inputFile = [k \in 1 .. MaxTiles |-> Missing]
  /\ outputFile = [k \in 1 .. MaxTiles |-> Missing]
  /\ manifestFile = Missing
  /\ started = 0 /\ begun = {}
  /\ whole = None

(* The halo of tile k starts from its outputs.                              *)
Enter(q, k) ==
  /\ tile' = k
  /\ visited' = Partition(q)[k] /\ frontier' = Partition(q)[k] /\ hop' = 0

(* build_tile_bundle up to the loop: nothing is written by a call that      *)
(* raises here, a tile model not found or a negative halo included.         *)
StartBuild(q) ==
  /\ phase = "idle" /\ started < MaxBuilds
  /\ ArgumentsFit(q) /\ Len(Partition(q)) <= q.models /\ q.hops >= 0
  /\ started' = started + 1 /\ begun' = begun \cup {q}
  /\ build' = q
  /\ phase' = "expand"
  /\ Enter(q, 1)
  /\ UNCHANGED <<inputFile, outputFile, manifestFile, whole>>

HaloDone == hop = build.hops \/ frontier = {}

(* One round of the loop of expand_input_halo; a frontier node the graph    *)
(* does not have raises IndexError and ends the build.                      *)
Hop ==
  /\ phase = "expand" /\ ~HaloDone
  /\ IF frontier \subseteq 0 .. NodesOf(build) - 1
     THEN LET new == Neighbours(build, frontier) \ visited IN
          /\ visited' = visited \cup new
          /\ frontier' = new
          /\ hop' = hop + 1
          /\ UNCHANGED phase
     ELSE /\ phase' = "idle"
          /\ UNCHANGED <<visited, frontier, hop>>
  /\ UNCHANGED <<build, tile, inputFile, outputFile, manifestFile, started, begun, whole>>

(* np.save opens the file, which empties it; then it writes and closes it.  *)
(* The output file is opened by a call of its own.                          *)
OpenInput ==
  /\ phase = "expand" /\ HaloDone
  /\ phase' = "input"
  /\ inputFile' = [inputFile EXCEPT ![tile] = Torn]
  /\ whole' = None
  /\ UNCHANGED <<build, tile, visited, frontier, hop, outputFile, manifestFile, started, begun>>

SaveInput ==
  /\ phase = "input"
  /\ phase' = "half"
  /\ inputFile' = [inputFile EXCEPT ![tile] = Sorted(visited)]
  /\ UNCHANGED <<build, tile, visited, frontier, hop, outputFile, manifestFile, started, begun,
                 whole>>

OpenOutput ==
  /\ phase = "half"
  /\ phase' = "output"
  /\ outputFile' = [outputFile EXCEPT ![tile] = Torn]
  /\ UNCHANGED <<build, tile, visited, frontier, hop, inputFile, manifestFile, started, begun,
                 whole>>

SaveOutput ==
  /\ phase = "output"
  /\ outputFile' = [outputFile EXCEPT ![tile] = Sorted(Partition(build)[tile])]
  /\ IF tile < Len(Partition(build))
     THEN phase' = "expand" /\ Enter(build, tile + 1)
     ELSE phase' = "saved" /\ UNCHANGED <<tile, visited, frontier, hop>>
  /\ UNCHANGED <<build, inputFile, manifestFile, started, begun, whole>>

(* Until here an older manifest stands beside the new index files.          *)
CutManifest ==
  /\ phase = "saved"
  /\ phase' = "manifest"
  /\ manifestFile' = Torn
  /\ UNCHANGED <<build, tile, visited, frontier, hop, inputFile, outputFile, started, begun,
                 whole>>

WriteManifest ==
  /\ phase = "manifest"
  /\ phase' = "idle"
  /\ manifestFile' = ManifestOf(build)
  /\ whole' = build
  /\ UNCHANGED <<build, tile, visited, frontier, hop, inputFile, outputFile, started, begun>>

(* The process is killed, or a write fails.                                 *)
Crash ==
  /\ phase # "idle"
  /\ phase' = "idle"
  /\ UNCHANGED <<build, tile, visited, frontier, hop, inputFile, outputFile,
                 manifestFile, started, begun, whole>>

BuilderNext ==
  \/ \E q \in Builds : StartBuild(q)
  \/ Hop \/ OpenInput \/ SaveInput \/ OpenOutput \/ SaveOutput
  \/ CutManifest \/ WriteManifest
  \/ Crash

-----------------------------------------------------------------------------

(* Nodes at most q.hops edges away from a set, against the direction of the *)
(* messages: d(u, v) <= k in docs_src/api/tile_bundle.md:15.                *)
ReceptiveField(q, out) ==
  LET Arcs == q.edges \cup (IF q.undirected THEN {<<e[2], e[1]>> : e \in q.edges} ELSE {})
      ball[k \in 0 .. q.hops] ==
        IF k = 0 THEN out
        ELSE ball[k - 1] \cup {e[1] : e \in {e \in Arcs : e[2] \in ball[k - 1]}}
  IN  ball[q.hops]

(* The breadth-first search looks only at its frontier and stops early, yet *)
(* what it is about to save is the whole receptive field of the tile, and   *)
(* nothing else (tile_bundle.py:144-158).                                   *)
HaloExact ==
  phase \in {"input", "half", "output"} =>
    visited = ReceptiveField(build, Partition(build)[tile])

=============================================================================
