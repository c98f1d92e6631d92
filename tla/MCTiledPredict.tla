---------------------------- MODULE MCTiledPredict ----------------------------
(***************************************************************************)
(* Values for TiledPredict.  Wide manifests: every pair of tiles from a    *)
(* pool over two nodes that holds each kind of index array the loader      *)
(* tells apart.  Deep manifests: up to three tiles over a line of three    *)
(* nodes, where halos, blending and hard boundaries meet.                  *)
(***************************************************************************)
EXTENDS TiledPredict, SequencesExt

CONSTANTS m0, m1

Weightings(k) == {<<FALSE, <<>>>>, <<TRUE, [p \in 1 .. k |-> 3]>>}

TileOf(path, in, out, w, rows) ==
  [path |-> path, input |-> in, output |-> out,
   weighted |-> w[1], weights |-> w[2], rows |-> rows]

WidePool ==
  LET Outputs == {<<>>, <<0>>, <<1>>, <<1, 0>>, <<0, 0>>, <<2>>, <<-1>>}
      Inputs  == {<<0, 1>>, <<-2, -1>>, <<1>>, <<0, 2>>}
  IN {TileOf(m0, i, o, w, Len(o)) : i \in Inputs, o \in Outputs, w \in Weightings(1)}
     \cup {TileOf(m1, <<0, 1>>, <<0, 1>>, w, 2) : w \in Weightings(2) \cup {<<TRUE, <<3, 0>>>>}}
     \cup {TileOf(m1, <<0, 1>>, <<1>>, <<TRUE, <<-1>>>>, 1), TileOf(m1, <<0>>, <<0>>, <<FALSE, <<>>>>, 2)}

WideManifests ==
  {[shaped |-> TRUE, nodesIn |-> 2, nodesOut |-> 2, grid |-> NoGrid, tiles |-> ts] :
     ts \in BoundedSeq(WidePool, 2)}

(* Totals at node 1 in quarters of 1.0: 0, 1 (below the floor), 2, 3 and up.  *)
DeepPool ==
  {TileOf(m0, <<0, 1>>, <<0>>, <<FALSE, <<>>>>, 1),
   TileOf(m0, <<0, 1, 2>>, <<0, 1>>, <<FALSE, <<>>>>, 2),
   TileOf(m0, <<0, 1, -1>>, <<0, 1>>, <<TRUE, <<4, 1>>>>, 2),
   TileOf(m1, <<0, 1, 2>>, <<2, 1>>, <<TRUE, <<4, 0>>>>, 2),
   TileOf(m1, <<2, 1>>, <<2>>, <<FALSE, <<>>>>, 1),
   TileOf(m1, <<1, 2>>, <<1, 2>>, <<TRUE, <<2, 3>>>>, 2)}

DeepManifests ==
  {[shaped |-> TRUE, nodesIn |-> 3, nodesOut |-> 3, grid |-> g, tiles |-> ts] :
     g \in {NoGrid, <<1, 3>>}, ts \in SeqOf(DeepPool, 3)}

GridManifests ==
  {[shaped |-> s, nodesIn |-> i, nodesOut |-> 4, grid |-> g,
    tiles |-> <<TileOf(m0, <<0, 1, 2, 3>>, <<0, 1, 2, 3>>, <<FALSE, <<>>>>, 4)>>] :
     s \in BOOLEAN, i \in {3, 4}, g \in {NoGrid, NullGrid, <<2, 2>>, <<1, 4>>, <<2, 3>>}}

MCManifests == WideManifests \cup DeepManifests \cup GridManifests
MCRequestedGrids == {NoGrid, <<2, 1>>, <<2, 2>>}

(* A line of nodes: each step reads the node and its two neighbours.        *)
MCNbr(nodes, n) == {m \in {n - 1, n, n + 1} : 0 <= m /\ m < nodes}
MCUpdate(n, view) == n + SumFunction(view)
MCStepIn(nodes) == IF nodes = 4 THEN {[n \in 0 .. 3 |-> 1]} ELSE [0 .. nodes - 1 -> {1, 3}]

=============================================================================
