----------------------------- MODULE TiledPredict -----------------------------
(***************************************************************************)
(* One model object with spatial tiling: it loads a bundle (TileBundle),   *)
(* then serves calls of _predict_tiled.  A call gathers the input rows of  *)
(* each tile, runs the tile's engine, adds the weighted rows to the output *)
(* buffer and the weights to the weight buffer, and divides at the end.    *)
(*                                                                         *)
(* A state holds one integer per node.  The ONNX graph of a tile is        *)
(* external: the row it computes for a node depends on those neighbours of *)
(* the node whose rows the tile was given (Nbr is the receptive field of   *)
(* one step).  Sums and products are exact where the code rounds to        *)
(* float32; weights and the floor of 1e-8 are counted in units of 1/Unit.  *)
(***************************************************************************)
EXTENDS TileBundle

CONSTANTS
  Nbr(_, _),     \* Nbr(nodes, n): nodes the step of node n reads
  Update(_, _),  \* Update(n, view): the next value of n from the rows it sees
  StepIn(_),     \* StepIn(nodes): states a caller may pass
  MaxCalls,      \* bound on the calls of predict
  Unit,          \* a weight of 1.0
  Floor,         \* the floor of 1e-8 under a node's total weight
  NoState

ASSUME UpdateAssumption ==
  \A nodes \in {m.nodesOut : m \in Manifests} : \A n \in 0 .. nodes - 1 :
    /\ Nbr(nodes, n) \subseteq 0 .. nodes - 1
    /\ \A x \in StepIn(nodes) : \A S \in SUBSET Nbr(nodes, n) :
         Update(n, [m \in S |-> x[m]]) \in Int

ASSUME BoundAssumption == MaxCalls \in Nat

ASSUME WeightAssumption == Unit \in Nat /\ Floor \in 1 .. Unit

VARIABLES
  phase,         \* "idle", "busy", "returned" or "failed"
  calls,         \* calls started
  input,         \* input_buffer
  tile,          \* number of the tile the loop is at
  acc,           \* output_buffer
  wt,            \* weight_buffer
  engines,       \* keys of _tile_engines
  stateCounter,  \* _tile_state_counter
  reply          \* what the last call returned

predVars == <<phase, calls, input, tile, acc, wt, engines, stateCounter, reply>>
vars == <<loadVars, predVars>>

GlobalStep(nodes, x) ==
  [n \in 0 .. nodes - 1 |-> Update(n, [m \in Nbr(nodes, n) |-> x[m]])]

(* NumPy indexing: a negative index counts from the end.                    *)
Wrap(i) == IF i < 0 THEN i + manifest.nodesIn ELSE i

Gatherable(t) == Range(t.input) \subseteq -manifest.nodesIn .. manifest.nodesIn - 1

Seen(t) == {Wrap(i) : i \in Range(t.input)}

(* The row the tile's engine computes for node n.                           *)
TileRow(t, n) ==
  Update(n, [m \in Nbr(manifest.nodesOut, n) \cap Seen(t) |-> input[m]])

WeightAt(t, n) ==
  IF t.weighted THEN t.weights[CHOOSE p \in DOMAIN t.output : t.output[p] = n] ELSE Unit

-----------------------------------------------------------------------------
(* Plausible slips, each the body of one definition below.                  *)

AddUnitWeights(t) == [n \in Node |-> IF n \in OutputOf(t) THEN wt[n] + Unit ELSE wt[n]]

ReturnsBuffer == acc

AddFloor(a, w) == a \div (w + Floor)

-----------------------------------------------------------------------------

AddRows(t) ==
  [n \in Node |-> IF n \in OutputOf(t) THEN acc[n] + WeightAt(t, n) * TileRow(t, n) ELSE acc[n]]

AddWeights(t) ==
  [n \in Node |-> IF n \in OutputOf(t) THEN wt[n] + WeightAt(t, n) ELSE wt[n]]

(* np.maximum(weight_buffer, 1e-8) and the division.                        *)
Normalise(a, w) == a \div (IF w < Floor THEN Floor ELSE w)

(* What a call that raises leaves to its caller.                            *)
OnRaise == NoState

PredInit ==
  /\ phase = "idle"
  /\ calls = 0
  /\ input = NoState
  /\ tile = 1
  /\ acc = NoState
  /\ wt = NoState
  /\ engines = {}
  /\ stateCounter = 0
  /\ reply = NoState

(* Entry of _predict_tiled: the shape check passed, the two state buffers   *)
(* are allocated and zeroed.                                                *)
Begin(x) ==
  /\ verdict = "accepted"
  /\ phase # "busy"
  /\ calls < MaxCalls
  /\ phase' = "busy"
  /\ calls' = calls + 1
  /\ input' = x
  /\ tile' = 1
  /\ acc' = [n \in Node |-> 0]
  /\ wt' = [n \in Node |-> 0]
  /\ stateCounter' = stateCounter + 2
  /\ reply' = NoState
  /\ UNCHANGED engines

(* The input does not have the bundle's global shape: nothing is allocated. *)
RefuseShape ==
  /\ verdict = "accepted"
  /\ phase # "busy"
  /\ calls < MaxCalls
  /\ phase' = "failed"
  /\ calls' = calls + 1
  /\ reply' = OnRaise
  /\ UNCHANGED <<input, tile, acc, wt, engines, stateCounter>>

RunTile ==
  LET t == Tiles[tile] IN
  /\ phase = "busy"
  /\ tile <= Len(Tiles)
  /\ Gatherable(t)
  /\ t.rows = Len(t.output)
  /\ engines' = engines \cup {t.path}
  /\ acc' = AddRows(t)
  /\ wt' = AddWeights(t)
  /\ tile' = tile + 1
  /\ UNCHANGED <<phase, calls, input, stateCounter, reply>>

(* The loop raises at a tile: an index out of range before its engine is    *)
(* looked up, an engine that cannot be created, or rows of another shape    *)
(* from an engine that stays cached.                                        *)
RaiseInTile ==
  LET t == Tiles[tile] IN
  /\ phase = "busy"
  /\ tile <= Len(Tiles)
  /\ \/ /\ ~Gatherable(t)
        /\ UNCHANGED engines
     \/ /\ Gatherable(t)
        /\ t.path \notin engines
        /\ UNCHANGED engines
     \/ /\ Gatherable(t)
        /\ t.rows # Len(t.output)
        /\ engines' = engines \cup {t.path}
  /\ phase' = "failed"
  /\ reply' = OnRaise
  /\ UNCHANGED <<calls, input, tile, acc, wt, stateCounter>>

Finish ==
  /\ phase = "busy"
  /\ tile > Len(Tiles)
  /\ phase' = "returned"
  /\ reply' = [n \in Node |-> Normalise(acc[n], wt[n])]
  /\ UNCHANGED <<calls, input, tile, acc, wt, engines, stateCounter>>

PredNext ==
  \/ \E x \in StepIn(manifest.nodesIn) : Begin(x)
  \/ RefuseShape
  \/ RunTile
  \/ RaiseInTile
  \/ Finish

Init == LoadInit /\ PredInit

Next ==
  \/ LoadNext /\ UNCHANGED predVars
  \/ PredNext /\ UNCHANGED loadVars

Spec == Init /\ [][Next]_vars

-----------------------------------------------------------------------------
(* A bundle that can reproduce the untiled step: every tile is given the    *)
(* receptive field of the nodes it owns, no weight is negative, and one of  *)
(* the owners of a node weighs it at the floor or more.  A ramp may go down *)
(* to 0.0 in the tiles beside that owner.                                   *)
HaloSuffices(t) == \A n \in OutputOf(t) : Nbr(manifest.nodesOut, n) \subseteq Seen(t)

HalosSuffice == \A i \in 1 .. Len(Tiles) : HaloSuffices(Tiles[i])

NonNegative(t) == t.weighted => \A p \in DOMAIN t.weights : t.weights[p] >= 0

WeightsNonNegative == \A i \in 1 .. Len(Tiles) : NonNegative(Tiles[i])

ReachesFloor(t, n) ==
  \E p \in DOMAIN t.output :
    t.output[p] = n /\ (t.weighted => p \in DOMAIN t.weights /\ t.weights[p] >= Floor)

OwnersReachFloor ==
  \A i \in 1 .. Len(Tiles) : \A n \in OutputOf(Tiles[i]) :
    \E j \in 1 .. Len(Tiles) : ReachesFloor(Tiles[j], n)

SoundBundle == HalosSuffice /\ WeightsNonNegative /\ OwnersReachFloor

TypeOK ==
  /\ LoadTypeOK
  /\ phase \in {"idle", "busy", "returned", "failed"}
  /\ calls \in 0 .. MaxCalls
  /\ tile \in 1 .. Len(Tiles) + 1
  /\ stateCounter \in 0 .. 2 * calls
  /\ phase = "busy" => acc \in [Node -> Int] /\ wt \in [Node -> Int]
  /\ engines \subseteq {Tiles[i].path : i \in 1 .. Len(Tiles)}

(* Between two tiles of the loop the output buffer is the untiled step      *)
(* scaled by the weight buffer at every node, however many tiles blend      *)
(* there, whatever their weights and whatever was left by a call that       *)
(* raised (model.py:542-558).                                               *)
PartialBlendExact ==
  phase = "busy" /\ HalosSuffice =>
    \A n \in Node : acc[n] = wt[n] * GlobalStep(manifest.nodesOut, input)[n]

(* The floor of 1e-8 (model.py:560) only damps: where the weights of a node *)
(* add up to less, the value returned lies between zero and the untiled     *)
(* one, and everywhere else it is the untiled one.                          *)
FloorOnlyDamps ==
  phase = "returned" /\ HalosSuffice /\ WeightsNonNegative =>
    \A n \in Node :
      LET untiled == GlobalStep(manifest.nodesOut, input)[n] IN
      \/ reply[n] = untiled
      \/ wt[n] < Floor /\ (reply[n] \in 0 .. untiled \/ reply[n] \in untiled .. 0)

(* A tiled call returns the untiled step of its input or raises; a call     *)
(* that raises after some tiles ran hands nothing out and does not disturb  *)
(* the next call.                                                           *)
Untiled == INSTANCE GlobalPredict WITH
  Step <- GlobalStep,
  NoReply <- NoState,
  sound <- SoundBundle,
  nodes <- manifest.nodesOut,
  request <- input

ImplementsUntiledStep == Untiled!Spec

=============================================================================
