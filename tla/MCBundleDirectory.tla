-------------------------- MODULE MCBundleDirectory --------------------------
(***************************************************************************)
(* Bundles of at most six nodes and four tiles: regular and contiguous     *)
(* partitions, tiles cut off at the edge of the grid, halos of 0 to 2      *)
(* hops, grids given by shape, by resolution or not at all, node counts    *)
(* below, at and above the grid's, and arguments that are refused.         *)
(***************************************************************************)
EXTENDS BundleDirectory

Ring == {<<0, 1>>, <<1, 2>>, <<2, 3>>, <<3, 0>>}
Line == {<<0, 1>>, <<1, 2>>}

Plain == [nodes |-> None, grid |-> <<2, 2>>, resolution |-> None, tileGrid |-> NoGrid,
          tileNodes |-> None, tileCount |-> None, hops |-> 1, undirected |-> FALSE,
          edges |-> Ring, models |-> 4]

MCBuilds ==
  { [Plain EXCEPT !.tileGrid = <<1, 2>>],
    [Plain EXCEPT !.grid = NoGrid, !.nodes = 4, !.tileNodes = 3, !.hops = 2, !.undirected = TRUE],
    [Plain EXCEPT !.nodes = 5, !.tileGrid = <<2, 1>>],
    [Plain EXCEPT !.nodes = 3, !.tileGrid = <<1, 1>>, !.edges = Line],
    [Plain EXCEPT !.nodes = 3, !.tileGrid = <<1, 1>>, !.edges = Line, !.hops = 0],
    [Plain EXCEPT !.grid = <<1, 4>>, !.tileCount = 3],
    [Plain EXCEPT !.grid = NoGrid, !.resolution = 180, !.tileCount = 2, !.hops = 2],
    [Plain EXCEPT !.nodes = 6, !.tileNodes = 4, !.edges = Line],
    [Plain EXCEPT !.grid = <<2, 3>>, !.tileGrid = <<1, 2>>, !.undirected = TRUE],
    [Plain EXCEPT !.tileGrid = <<1, 1>>, !.models = 3],
    [Plain EXCEPT !.tileCount = 2, !.tileNodes = 2],
    [Plain EXCEPT !.resolution = 120, !.tileCount = 2],
    [Plain EXCEPT !.tileNodes = 2, !.edges = {<<0, 4>>}] }

(* A mesh without a grid, cut into runs of nodes.                           *)
MCIrregular == {q \in MCBuilds : q.grid = NoGrid /\ q.resolution = None}

=============================================================================
