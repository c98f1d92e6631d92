-------------------------- MODULE TiledPredict_proofs --------------------------
(***************************************************************************)
(* Proofs about TileBundle and TiledPredict, for every set of manifests,   *)
(* every receptive field and every step function that meet the assumptions *)
(* named in those modules.                                                 *)
(*                                                                         *)
(* Nothing the runs check is inductive as it stands.  AcceptedCovers needs *)
(* to know what the scan has established for the tiles before the cursor   *)
(* (Scanned); exactness of the reply needs the blend to be exact between   *)
(* two tiles, and each node to carry at least the weight of every owner    *)
(* already run (Blending).                                                 *)
(***************************************************************************)
EXTENDS TiledPredict, TLAPS

(* What the scan knows of the tiles before the cursor.                      *)
Scanned ==
  /\ verdict \in {"tiles", "accepted"} => manifest.nodesIn = manifest.nodesOut
  /\ covered = UNION {OutputOf(Tiles[i]) : i \in 1 .. cursor - 1}
  /\ \A i \in 1 .. cursor - 1 : WellFormed(Tiles[i])
  /\ \A i, j \in 1 .. cursor - 1 :
       (i < j /\ OutputOf(Tiles[i]) \cap OutputOf(Tiles[j]) # {}) => Tiles[j].weighted
  /\ verdict = "accepted" => cursor = Len(Tiles) + 1 /\ covered = Node

LoadInv == LoadTypeOK /\ Scanned

-----------------------------------------------------------------------------

(* Facts about the manifest that the assumptions give.                      *)
LEMMA ManifestFacts ==
  ASSUME manifest \in Manifests
  PROVE  /\ manifest.nodesIn \in Nat /\ manifest.nodesOut \in Nat
         /\ Tiles \in Seq(Range(Tiles)) /\ Len(Tiles) \in Nat
         /\ DOMAIN Tiles = 1 .. Len(Tiles)
         /\ \A i \in 1 .. Len(Tiles) :
              /\ Tiles[i].input \in Seq(Int)
              /\ Tiles[i].output \in Seq(Int)
              /\ Tiles[i].weights \in Seq(Int)
              /\ Tiles[i].weighted \in BOOLEAN
              /\ Tiles[i].rows \in Nat
<1>1. /\ manifest.nodesIn \in Nat /\ manifest.nodesOut \in Nat
      /\ Tiles \in Seq(Range(Tiles))
      /\ \A t \in Range(Tiles) :
           /\ t.input \in Seq(Int) /\ t.output \in Seq(Int) /\ t.weights \in Seq(Int)
           /\ t.weighted \in BOOLEAN /\ t.rows \in Nat
  BY ManifestAssumption DEF Tiles
<1>2. Len(Tiles) \in Nat /\ DOMAIN Tiles = 1 .. Len(Tiles)
  BY <1>1
<1>3. \A i \in 1 .. Len(Tiles) : Tiles[i] \in Range(Tiles)
  BY <1>2 DEF Range
<1> QED
  BY <1>1, <1>2, <1>3

(* The scan starts with no tile checked and no node covered.                *)
LEMMA LoadInitInv == LoadInit => LoadInv
<1> SUFFICES ASSUME LoadInit PROVE LoadInv
  OBVIOUS
<1> USE DEF LoadInit
<1>1. LoadTypeOK
  BY ManifestFacts DEF LoadTypeOK
<1>2. 1 .. cursor - 1 = {}
  OBVIOUS
<1>3. Scanned
  BY <1>2 DEF Scanned
<1> QED
  BY <1>1, <1>3 DEF LoadInv

(* A step of the loader keeps the invariant of the scan.                    *)
LEMMA LoadStepInv == LoadInv /\ [LoadNext]_loadVars => LoadInv'
<1> SUFFICES ASSUME LoadInv, [LoadNext]_loadVars PROVE LoadInv'
  OBVIOUS
<1> USE DEF LoadInv
<1>0. manifest \in Manifests
  BY DEF LoadTypeOK
<1>1. CASE CheckHeader
  BY <1>1 DEF CheckHeader, LoadTypeOK, Scanned, Tiles, Node, OutputOf, WellFormed
<1>2. CASE ScanTile
  <2> DEFINE t == Tiles[cursor]
  <2>1. /\ verdict = "tiles" /\ cursor \in 1 .. Len(Tiles) /\ UNCHANGED <<manifest, requested>>
        /\ Len(Tiles) \in Nat
    BY <1>0, <1>2, ManifestFacts DEF ScanTile, LoadTypeOK
  <2>2. CASE WellFormed(t) /\ MayCover(t)
    <3>1. covered' = covered \cup OutputOf(t) /\ cursor' = cursor + 1 /\ verdict' = verdict
      BY <1>2, <2>2 DEF ScanTile
    <3>2. Tiles' = Tiles /\ Node' = Node
      BY <2>1 DEF Tiles, Node
    <3>3. LoadTypeOK'
      BY <2>1, <2>2, <3>1, <3>2 DEF LoadTypeOK, WellFormed
    <3>4. 1 .. cursor' - 1 = (1 .. cursor - 1) \cup {cursor} /\ cursor \notin 1 .. cursor - 1
      BY <2>1, <3>1
    <3>5. covered' = UNION {OutputOf(Tiles[i]) : i \in 1 .. cursor' - 1}
      BY <3>1, <3>4 DEF Scanned
    <3>6. \A i \in 1 .. cursor' - 1 : WellFormed(Tiles[i])
      BY <2>2, <3>4 DEF Scanned
    <3>7. ASSUME NEW i \in 1 .. cursor' - 1, NEW j \in 1 .. cursor' - 1, i < j,
                 OutputOf(Tiles[i]) \cap OutputOf(Tiles[j]) # {}
          PROVE  Tiles[j].weighted
      <4>1. CASE j \in 1 .. cursor - 1
        <5>1. i \in 1 .. cursor - 1
          BY <2>1, <3>7, <4>1
        <5> QED
          BY <3>7, <4>1, <5>1 DEF Scanned
      <4>2. CASE j = cursor
        <5>1. i \in 1 .. cursor - 1
          BY <2>1, <3>4, <3>7, <4>2
        <5>2. OutputOf(Tiles[i]) \subseteq covered
          BY <5>1 DEF Scanned
        <5> QED
          BY <2>2, <3>7, <4>2, <5>2 DEF MayCover
      <4> QED
        BY <3>4, <3>7, <4>1, <4>2
    <3>8. \A i \in 1 .. cursor' - 1 : WellFormed(Tiles[i])'
      BY <3>2, <3>6 DEF WellFormed, OutputOf
    <3>9. (covered = UNION {OutputOf(Tiles[i]) : i \in 1 .. cursor - 1})'
      BY <3>2, <3>5 DEF OutputOf
    <3>10. (\A i, j \in 1 .. cursor - 1 :
              (i < j /\ OutputOf(Tiles[i]) \cap OutputOf(Tiles[j]) # {}) => Tiles[j].weighted)'
      BY <3>2, <3>7 DEF OutputOf
    <3>11. manifest'.nodesIn = manifest'.nodesOut /\ verdict' # "accepted"
      BY <2>1, <3>1 DEF Scanned
    <3> QED
      BY <3>3, <3>8, <3>9, <3>10, <3>11 DEF Scanned
  <2>3. CASE ~(WellFormed(t) /\ MayCover(t))
    <3>1. verdict' = "rejected" /\ UNCHANGED <<covered, cursor>>
      BY <1>2, <2>3 DEF ScanTile
    <3> QED
      BY <2>1, <3>1 DEF LoadTypeOK, Scanned, Tiles, Node, OutputOf, WellFormed
  <2> QED
    BY <2>2, <2>3
<1>3. CASE Conclude
  <2>1. /\ verdict = "tiles" /\ cursor > Len(Tiles) /\ UNCHANGED <<manifest, requested, cursor, covered>>
        /\ verdict' \in {"accepted", "rejected"} /\ (verdict' = "accepted" => covered = Node)
    BY <1>3 DEF Conclude, Complete
  <2>2. cursor = Len(Tiles) + 1
    BY <1>0, <2>1, ManifestFacts DEF LoadTypeOK
  <2>3. Tiles' = Tiles /\ Node' = Node
    BY <2>1 DEF Tiles, Node
  <2>4. LoadTypeOK'
    BY <2>1, <2>3 DEF LoadTypeOK
  <2>5. \A i \in 1 .. cursor - 1 : WellFormed(Tiles[i])'
    BY <2>1, <2>3 DEF Scanned, WellFormed, OutputOf
  <2>6. Scanned'
    BY <2>1, <2>2, <2>3, <2>5 DEF Scanned, OutputOf
  <2> QED
    BY <2>4, <2>6
<1>4. CASE UNCHANGED loadVars
  BY <1>4 DEF loadVars, LoadTypeOK, Scanned, Tiles, Node, OutputOf, WellFormed
<1> QED
  BY <1>1, <1>2, <1>3, <1>4 DEF LoadNext

(* What the invariant of the scan says once the bundle is accepted.         *)
LEMMA AcceptedFacts ==
  ASSUME LoadInv
  PROVE  AcceptedCovers /\ LaterOverlapIsWeighted
<1>1. ASSUME verdict = "accepted" PROVE 1 .. cursor - 1 = 1 .. Len(Tiles) /\ covered = Node
  <2>1. cursor = Len(Tiles) + 1 /\ covered = Node
    BY <1>1 DEF LoadInv, Scanned
  <2>2. Len(Tiles) \in Nat
    BY ManifestFacts DEF LoadInv, LoadTypeOK
  <2> QED
    BY <2>1, <2>2
<1>2. AcceptedCovers
  BY <1>1 DEF LoadInv, Scanned, AcceptedCovers, WellFormed
<1>3. LaterOverlapIsWeighted
  BY <1>1 DEF LoadInv, Scanned, LaterOverlapIsWeighted
<1> QED
  BY <1>2, <1>3

-----------------------------------------------------------------------------
(* The calls of predict.                                                    *)

(* The buffers of a call, and the weights added by the tiles already run.   *)
Calling ==
  /\ verdict # "accepted" => phase = "idle"
  /\ phase \in {"busy", "returned"} =>
       input \in StepIn(manifest.nodesOut) /\ acc \in [Node -> Int] /\ wt \in [Node -> Int]
  /\ phase = "returned" =>
       tile = Len(Tiles) + 1 /\ reply = [n \in Node |-> Normalise(acc[n], wt[n])]

Exact == \A n \in Node : acc[n] = wt[n] * GlobalStep(manifest.nodesOut, input)[n]

Weighed ==
  /\ \A n \in Node : wt[n] >= 0
  /\ \A i \in 1 .. tile - 1 : \A n \in OutputOf(Tiles[i]) : wt[n] >= WeightAt(Tiles[i], n)

Blending ==
  phase \in {"busy", "returned"} =>
    /\ HalosSuffice => Exact
    /\ WeightsNonNegative => Weighed

IInv == LoadInv /\ TypeOK /\ Calling /\ Blending

(* An accepted bundle, with what the scan established for each of its tiles. *)
LEMMA AcceptedTile ==
  ASSUME LoadInv, verdict = "accepted"
  PROVE  /\ manifest.nodesIn = manifest.nodesOut
         /\ \A i \in 1 .. Len(Tiles) : WellFormed(Tiles[i])
<1>1. cursor = Len(Tiles) + 1 /\ Len(Tiles) \in Nat
  BY ManifestFacts DEF LoadInv, LoadTypeOK, Scanned
<1>2. 1 .. cursor - 1 = 1 .. Len(Tiles)
  BY <1>1
<1> QED
  BY <1>2 DEF LoadInv, Scanned

(* A well-formed tile has an integer weight at each node it owns, which is  *)
(* not negative when none of its weights is, and reaches the floor where    *)
(* ReachesFloor says so.                                                    *)
LEMMA WeightFacts ==
  ASSUME NEW t, t.output \in Seq(Int), t.weights \in Seq(Int), WellFormed(t),
         NEW n \in OutputOf(t)
  PROVE  /\ WeightAt(t, n) \in Int
         /\ NonNegative(t) => WeightAt(t, n) >= 0
         /\ ReachesFloor(t, n) => WeightAt(t, n) >= Floor
<1> DEFINE p == CHOOSE q \in DOMAIN t.output : t.output[q] = n
<1>1. p \in DOMAIN t.output /\ t.output[p] = n
  BY DEF OutputOf, Range
<1>2. \A q \in DOMAIN t.output : t.output[q] = n => q = p
  BY <1>1 DEF WellFormed, IsInjective
<1>3. CASE t.weighted
  <2>1. DOMAIN t.weights = DOMAIN t.output
    BY <1>3 DEF WellFormed
  <2>2. WeightAt(t, n) = t.weights[p] /\ t.weights[p] \in Int
    BY <1>1, <1>3, <2>1 DEF WeightAt
  <2>3. ReachesFloor(t, n) => t.weights[p] >= Floor
    BY <1>2, <1>3 DEF ReachesFloor
  <2> HIDE DEF p
  <2> QED
    BY <1>1, <1>3, <2>1, <2>2, <2>3 DEF NonNegative
<1>4. CASE ~t.weighted
  BY <1>4, WeightAssumption DEF WeightAt
<1> QED
  BY <1>3, <1>4

(* Only a tile that owns a node can weigh it at the floor.                  *)
LEMMA ReachingOwns ==
  ASSUME NEW t, NEW n, ReachesFloor(t, n)
  PROVE  n \in OutputOf(t)
BY DEF ReachesFloor, OutputOf, Range

(* Every row of the untiled step, and every row a tile computes, is an      *)
(* integer; they are equal where the tile sees the whole receptive field.   *)
LEMMA RowFacts ==
  ASSUME manifest \in Manifests, input \in StepIn(manifest.nodesOut),
         NEW t, NEW n \in Node
  PROVE  /\ TileRow(t, n) \in Int
         /\ GlobalStep(manifest.nodesOut, input)[n] \in Int
         /\ Nbr(manifest.nodesOut, n) \subseteq Seen(t) =>
              TileRow(t, n) = GlobalStep(manifest.nodesOut, input)[n]
<1> DEFINE nodes == manifest.nodesOut
           Row(S) == Update(n, [m \in S |-> input[m]])
<1>1. nodes \in {m.nodesOut : m \in Manifests} /\ n \in 0 .. nodes - 1
  BY DEF Node
<1>2. \A S \in SUBSET Nbr(nodes, n) : Row(S) \in Int
  BY <1>1, UpdateAssumption
<1>3. TileRow(t, n) = Row(Nbr(nodes, n) \cap Seen(t))
  BY DEF TileRow
<1>4. GlobalStep(nodes, input)[n] = Row(Nbr(nodes, n))
  BY <1>1 DEF GlobalStep
<1>5. TileRow(t, n) \in Int
  <2>1. Nbr(nodes, n) \cap Seen(t) \in SUBSET Nbr(nodes, n)
    OBVIOUS
  <2> HIDE DEF Row
  <2> QED
    BY <1>2, <1>3, <2>1
<1>6. GlobalStep(nodes, input)[n] \in Int
  <2>1. Nbr(nodes, n) \in SUBSET Nbr(nodes, n)
    OBVIOUS
  <2> HIDE DEF Row
  <2> QED
    BY <1>2, <1>4, <2>1
<1>7. Nbr(nodes, n) \subseteq Seen(t) => Nbr(nodes, n) \cap Seen(t) = Nbr(nodes, n)
  OBVIOUS
<1> QED
  BY <1>3, <1>4, <1>5, <1>6, <1>7

(* The invariant holds before a bundle is loaded and a call is made.        *)
LEMMA InitInv == Init => IInv
<1> SUFFICES ASSUME Init PROVE IInv
  OBVIOUS
<1>1. LoadInv
  BY LoadInitInv DEF Init
<1>2. TypeOK
  <2>1. Len(Tiles) \in Nat
    BY ManifestFacts DEF Init, LoadInit
  <2> QED
    BY <1>1, <2>1, BoundAssumption DEF Init, PredInit, TypeOK, LoadInv
<1>3. Calling /\ Blending
  BY DEF Init, PredInit, LoadInit, Calling, Blending
<1> QED
  BY <1>1, <1>2, <1>3 DEF IInv

(* Distributivity, kept apart because the arithmetic is not linear.         *)
LEMMA BlendArithmetic ==
  ASSUME NEW w \in Int, NEW d \in Int, NEW r \in Int
  PROVE  w * r + d * r = (w + d) * r
OBVIOUS

(* A multiple of a positive weight is divided back exactly.                 *)
LEMMA QuotientExact ==
  ASSUME NEW w \in Int, w > 0, NEW r \in Int
  PROVE  (w * r) \div w = r
OBVIOUS

(* Multiplication keeps the order, kept apart for the same reason.          *)
LEMMA ProductOrder ==
  ASSUME NEW a \in Int, NEW b \in Int, a <= b, NEW r \in Int, r >= 0
  PROVE  a * r <= b * r
OBVIOUS

(* A quotient between two multiples of the divisor.                         *)
LEMMA QuotientBounds ==
  ASSUME NEW a \in Int, NEW f \in Int, f > 0, NEW lo \in Int, NEW hi \in Int,
         f * lo <= a, a <= f * hi
  PROVE  a \div f \in lo .. hi
<1> DEFINE q == a \div f
<1>1. q \in Int /\ f * q <= a /\ a < f * (q + 1)
  OBVIOUS
<1> HIDE DEF q
<1>2. q + 1 > lo
  <2> SUFFICES ASSUME q + 1 <= lo PROVE FALSE
    BY <1>1
  <2>1. f * (q + 1) <= f * lo
    BY <1>1, ProductOrder
  <2> QED
    BY <1>1, <2>1
<1>3. q <= hi
  <2> SUFFICES ASSUME q >= hi + 1 PROVE FALSE
    BY <1>1
  <2>1. f * (hi + 1) <= f * q
    BY <1>1, ProductOrder
  <2>2. f * (hi + 1) = f * hi + f
    OBVIOUS
  <2> QED
    BY <1>1, <2>1, <2>2
<1> QED
  BY <1>1, <1>2, <1>3 DEF q

(* A total below the floor divided by the floor: the quotient lies between  *)
(* zero and the row.                                                        *)
LEMMA QuotientDamped ==
  ASSUME NEW w \in Int, 0 <= w, w < Floor, NEW r \in Int
  PROVE  (w * r) \div Floor \in 0 .. r \/ (w * r) \div Floor \in r .. 0
<1>1. Floor \in Int /\ Floor > 0 /\ w * r \in Int
  BY WeightAssumption
<1>2. CASE r >= 0
  <2>1. 0 * r <= w * r /\ w * r <= Floor * r
    BY <1>1, <1>2, ProductOrder
  <2>2. Floor * 0 <= w * r
    BY <1>1, <2>1
  <2>3. (w * r) \div Floor \in 0 .. r
    BY <1>1, <2>1, <2>2, QuotientBounds
  <2> QED
    BY <2>3
<1>3. CASE r < 0
  <2>1. 0 * (-r) <= w * (-r) /\ w * (-r) <= Floor * (-r)
    BY <1>1, <1>3, ProductOrder
  <2>2. w * (-r) = -(w * r) /\ Floor * (-r) = -(Floor * r)
    BY <1>1
  <2>3. Floor * r \in Int /\ Floor * 0 = 0
    BY <1>1
  <2>4. Floor * r <= w * r /\ w * r <= Floor * 0
    BY <1>1, <2>1, <2>2, <2>3
  <2>5. (w * r) \div Floor \in r .. 0
    BY <1>1, <2>4, QuotientBounds
  <2> QED
    BY <2>5
<1> QED
  BY <1>2, <1>3

(* While the loader runs no call is under way, so what is said of the       *)
(* buffers stays true.                                                      *)
LEMMA LoadKeepsInv == IInv /\ LoadNext /\ UNCHANGED predVars => IInv'
<1> SUFFICES ASSUME IInv, LoadNext, UNCHANGED predVars PROVE IInv'
  OBVIOUS
<1>1. LoadInv'
  BY LoadStepInv DEF IInv
<1>2. verdict # "accepted" /\ manifest' = manifest /\ phase = "idle" /\ phase' = "idle"
  BY DEF LoadNext, CheckHeader, ScanTile, Conclude, IInv, Calling, predVars
<1>3. Tiles' = Tiles /\ Node' = Node
  BY <1>2 DEF Tiles, Node
<1>4. TypeOK'
  BY <1>1, <1>2, <1>3 DEF IInv, TypeOK, LoadInv, predVars
<1>5. Calling' /\ Blending'
  BY <1>2 DEF Calling, Blending
<1> QED
  BY <1>1, <1>4, <1>5 DEF IInv

(* What every action of a call leaves alone.                                *)
LEMMA PredFrame ==
  ASSUME IInv, UNCHANGED loadVars
  PROVE  /\ LoadInv' /\ LoadTypeOK' /\ Tiles' = Tiles /\ Node' = Node
         /\ manifest' = manifest /\ verdict' = verdict /\ SoundBundle' = SoundBundle
         /\ HalosSuffice' = HalosSuffice /\ WeightsNonNegative' = WeightsNonNegative
         /\ Len(Tiles) \in Nat
<1>1. LoadInv' /\ LoadTypeOK'
  BY LoadStepInv DEF IInv, LoadInv
<1>2. manifest' = manifest /\ verdict' = verdict /\ Tiles' = Tiles /\ Node' = Node
  BY DEF loadVars, Tiles, Node
<1>3. HalosSuffice' = HalosSuffice /\ WeightsNonNegative' = WeightsNonNegative
  BY <1>2 DEF HalosSuffice, HaloSuffices, WeightsNonNegative, Seen, Wrap, OutputOf
<1>3a. SoundBundle' = SoundBundle
  BY <1>2, <1>3 DEF SoundBundle, OwnersReachFloor, OutputOf
<1>4. Len(Tiles) \in Nat
  BY ManifestFacts DEF IInv, LoadInv, LoadTypeOK
<1> QED
  BY <1>1, <1>2, <1>3, <1>3a, <1>4

(* What is said of the blend lasts while neither buffer, input nor tile     *)
(* counter changes.                                                         *)
LEMMA BlendingFrame ==
  ASSUME IInv, UNCHANGED loadVars, UNCHANGED <<input, tile, acc, wt>>,
         phase' \in {"busy", "returned"} => phase \in {"busy", "returned"}
  PROVE  Blending'
<1>1. GlobalStep(manifest.nodesOut, input)' = GlobalStep(manifest.nodesOut, input)
  BY PredFrame DEF GlobalStep
<1>2. Exact' <=> Exact
  BY <1>1, PredFrame DEF Exact
<1>3. /\ \A i : OutputOf(Tiles[i])' = OutputOf(Tiles[i])
      /\ \A i, n : WeightAt(Tiles[i], n)' = WeightAt(Tiles[i], n)
  BY PredFrame DEF OutputOf, WeightAt
<1>4. Weighed' <=> Weighed
  BY <1>3, PredFrame DEF Weighed
<1> QED
  BY <1>2, <1>4, PredFrame DEF IInv, Blending

(* Begin: both buffers are zero, the sum over no tile.                      *)
LEMMA BeginKeepsInv ==
  ASSUME IInv, UNCHANGED loadVars, NEW x \in StepIn(manifest.nodesIn), Begin(x)
  PROVE  IInv'
<1>1. /\ verdict = "accepted" /\ calls < MaxCalls /\ calls' = calls + 1
      /\ phase' = "busy" /\ input' = x /\ tile' = 1
      /\ acc' = [n \in Node |-> 0] /\ wt' = [n \in Node |-> 0]
      /\ stateCounter' = stateCounter + 2 /\ engines' = engines
  BY DEF Begin
<1>2. manifest.nodesIn = manifest.nodesOut /\ manifest \in Manifests
  BY <1>1, AcceptedTile DEF IInv, LoadInv, LoadTypeOK
<1>3. TypeOK'
  BY <1>1, PredFrame, BoundAssumption DEF IInv, TypeOK
<1>4. Calling'
  BY <1>1, <1>2, PredFrame DEF Calling
<1>5. \A n \in Node : GlobalStep(manifest.nodesOut, x)[n] \in Int
  <2>1. \A n \in Node : Nbr(manifest.nodesOut, n) \in SUBSET Nbr(manifest.nodesOut, n)
    OBVIOUS
  <2> QED
    BY <1>2, <2>1, UpdateAssumption DEF GlobalStep, Node
<1>6. 1 .. tile' - 1 = {}
  BY <1>1
<1>7. Blending'
  BY <1>1, <1>5, <1>6, PredFrame DEF Blending, Exact, Weighed
<1> QED
  BY <1>3, <1>4, <1>7, PredFrame DEF IInv


(* RefuseShape: a call that raises before its buffers are allocated.        *)
LEMMA RefuseKeepsInv ==
  ASSUME IInv, UNCHANGED loadVars, RefuseShape
  PROVE  IInv'
<1>1. /\ verdict = "accepted" /\ calls < MaxCalls /\ calls' = calls + 1 /\ phase' = "failed"
      /\ UNCHANGED <<input, tile, acc, wt, engines, stateCounter>>
  BY DEF RefuseShape
<1>2. TypeOK'
  BY <1>1, PredFrame, BoundAssumption DEF IInv, TypeOK
<1>3. Calling' /\ Blending'
  BY <1>1, PredFrame DEF Calling, Blending
<1> QED
  BY <1>2, <1>3, PredFrame DEF IInv

(* RaiseInTile: a call that raises in the loop hands nothing out.           *)
LEMMA RaiseKeepsInv ==
  ASSUME IInv, UNCHANGED loadVars, RaiseInTile
  PROVE  IInv'
<1>1. /\ phase = "busy" /\ phase' = "failed" /\ tile \in 1 .. Len(Tiles)
      /\ UNCHANGED <<calls, input, tile, acc, wt, stateCounter>>
      /\ engines' \subseteq engines \cup {Tiles[tile].path}
  BY PredFrame DEF RaiseInTile, IInv, TypeOK
<1>2. TypeOK'
  BY <1>1, PredFrame DEF IInv, TypeOK
<1>3. Calling' /\ Blending'
  BY <1>1, PredFrame DEF IInv, Calling, Blending
<1> QED
  BY <1>2, <1>3, PredFrame DEF IInv

(* Finish: the loop has added every tile.                                   *)
LEMMA FinishKeepsInv ==
  ASSUME IInv, UNCHANGED loadVars, Finish
  PROVE  IInv'
<1>1. /\ phase = "busy" /\ phase' = "returned" /\ tile > Len(Tiles)
      /\ UNCHANGED <<calls, input, tile, acc, wt, engines, stateCounter>>
  BY DEF Finish
<1>2. TypeOK' /\ tile = Len(Tiles) + 1
  BY <1>1, PredFrame DEF IInv, TypeOK
<1>3. reply' = [n \in Node |-> Normalise(acc[n], wt[n])]'
  BY <1>1, PredFrame DEF Finish, Normalise
<1>4. Calling'
  BY <1>1, <1>2, <1>3, PredFrame DEF IInv, Calling
<1>5. Blending'
  BY <1>1, BlendingFrame
<1> QED
  BY <1>2, <1>4, <1>5, PredFrame DEF IInv

(* One tile keeps the blend exact: where it writes, weight and row are      *)
(* added alike; elsewhere both buffers stay as they are.                    *)
LEMMA RunTileKeepsInv ==
  ASSUME IInv, UNCHANGED loadVars, RunTile
  PROVE  IInv'
<1> DEFINE t == Tiles[tile]
           step == GlobalStep(manifest.nodesOut, input)
<1>1. /\ phase = "busy" /\ tile \in 1 .. Len(Tiles) /\ tile' = tile + 1
      /\ engines' = engines \cup {t.path} /\ acc' = AddRows(t) /\ wt' = AddWeights(t)
      /\ UNCHANGED <<phase, calls, input, stateCounter, reply>>
  BY PredFrame DEF RunTile, IInv, TypeOK
<1>2. /\ verdict = "accepted" /\ manifest \in Manifests
      /\ input \in StepIn(manifest.nodesOut) /\ acc \in [Node -> Int] /\ wt \in [Node -> Int]
  BY <1>1 DEF IInv, Calling, LoadInv, LoadTypeOK
<1>3. t.output \in Seq(Int) /\ t.weights \in Seq(Int) /\ WellFormed(t)
  BY <1>1, <1>2, ManifestFacts, AcceptedTile DEF IInv
<1>4. OutputOf(t) \subseteq Node
  BY <1>3 DEF WellFormed
<1>5. \A n \in OutputOf(t) : WeightAt(t, n) \in Int
  BY <1>3, WeightFacts
<1>6. \A n \in Node : TileRow(t, n) \in Int /\ step[n] \in Int
  BY <1>2, RowFacts
<1>7. acc' \in [Node -> Int] /\ wt' \in [Node -> Int]
  <2>1. \A n \in OutputOf(t) : acc[n] + WeightAt(t, n) * TileRow(t, n) \in Int
    BY <1>2, <1>4, <1>5, <1>6
  <2>2. \A n \in OutputOf(t) : wt[n] + WeightAt(t, n) \in Int
    BY <1>2, <1>4, <1>5
  <2> QED
    BY <1>1, <1>2, <2>1, <2>2 DEF AddRows, AddWeights
<1>8. TypeOK'
  <2>1. tile' \in 1 .. Len(Tiles) + 1
    BY <1>1, PredFrame
  <2>2. engines' \subseteq {Tiles[i].path : i \in 1 .. Len(Tiles)}
    BY <1>1 DEF IInv, TypeOK
  <2> QED
    BY <1>1, <1>7, <2>1, <2>2, PredFrame DEF IInv, TypeOK
<1>9. Calling'
  BY <1>1, <1>2, <1>7, PredFrame DEF Calling
<1>10. \A n \in Node \ OutputOf(t) : wt'[n] = wt[n] /\ acc'[n] = acc[n]
  BY <1>1 DEF AddRows, AddWeights
<1>11. \A n \in Node : wt'[n] \in Int /\ wt[n] \in Int
  BY <1>2, <1>7
<1>12. ASSUME HalosSuffice, NEW n \in Node PROVE acc'[n] = wt'[n] * step[n]
  <2>1. HaloSuffices(t) /\ acc[n] = wt[n] * step[n]
    BY <1>1, <1>12 DEF HalosSuffice, IInv, Blending, Exact
  <2>2. CASE n \in OutputOf(t)
    <3>1. TileRow(t, n) = step[n]
      BY <1>2, <2>1, <2>2, RowFacts DEF HaloSuffices
    <3>2. wt'[n] = wt[n] + WeightAt(t, n) /\ acc'[n] = acc[n] + WeightAt(t, n) * step[n]
      BY <1>1, <2>2, <3>1 DEF AddRows, AddWeights
    <3> QED
      BY <1>5, <1>6, <1>11, <2>1, <2>2, <3>2, BlendArithmetic
  <2> QED
    BY <1>10, <2>1, <2>2
<1>13. ASSUME WeightsNonNegative
       PROVE  /\ \A n \in Node : wt'[n] >= wt[n] /\ wt'[n] >= 0
              /\ \A n \in OutputOf(t) : wt'[n] >= WeightAt(t, n)
  <2>1. NonNegative(t) /\ \A n \in Node : wt[n] >= 0
    BY <1>1, <1>13 DEF WeightsNonNegative, IInv, Blending, Weighed
  <2>2. \A n \in OutputOf(t) : WeightAt(t, n) >= 0 /\ WeightAt(t, n) \in Int
    BY <1>3, <2>1, WeightFacts
  <2>3. \A n \in OutputOf(t) : wt'[n] = wt[n] + WeightAt(t, n)
    BY <1>1, <1>4 DEF AddWeights
  <2> QED
    BY <1>4, <1>10, <1>11, <2>1, <2>2, <2>3
<1>14. ASSUME WeightsNonNegative, NEW i \in 1 .. tile' - 1, NEW n \in OutputOf(Tiles[i])
       PROVE  wt'[n] >= WeightAt(Tiles[i], n)
  <2>1. i \in 1 .. tile - 1 \/ i = tile
    BY <1>1, PredFrame
  <2>2. i \in 1 .. Len(Tiles)
    BY <1>1, <2>1, PredFrame
  <2>3. CASE i \in 1 .. tile - 1
    <3>1. n \in Node /\ WeightAt(Tiles[i], n) \in Int
      <4>1. WellFormed(Tiles[i]) /\ Tiles[i].output \in Seq(Int) /\ Tiles[i].weights \in Seq(Int)
        BY <1>2, <2>2, ManifestFacts, AcceptedTile DEF IInv
      <4> QED
        BY <4>1, WeightFacts DEF WellFormed
    <3>2. wt[n] >= WeightAt(Tiles[i], n)
      BY <1>1, <1>14, <2>3 DEF IInv, Blending, Weighed
    <3> QED
      BY <1>11, <1>13, <1>14, <3>1, <3>2
  <2> QED
    BY <1>13, <1>14, <2>1, <2>3
<1>15. Blending'
  <2>1. step' = step
    BY <1>1, PredFrame DEF GlobalStep
  <2>2. \A i : OutputOf(Tiles[i])' = OutputOf(Tiles[i])
    BY PredFrame DEF OutputOf
  <2>3. \A i, n : WeightAt(Tiles[i], n)' = WeightAt(Tiles[i], n)
    BY PredFrame DEF WeightAt
  <2>4. HalosSuffice' => Exact'
    BY <1>12, <2>1, PredFrame DEF Exact
  <2>5. WeightsNonNegative' => Weighed'
    BY <1>13, <1>14, <2>2, <2>3, PredFrame DEF Weighed
  <2> QED
    BY <2>4, <2>5 DEF Blending
<1> QED
  BY <1>8, <1>9, <1>15, PredFrame DEF IInv

(* Every step of the specification keeps the invariant: one case per        *)
(* action.                                                                  *)
LEMMA StepInv == IInv /\ [Next]_vars => IInv'
<1> SUFFICES ASSUME IInv, [Next]_vars PROVE IInv'
  OBVIOUS
<1>1. CASE LoadNext /\ UNCHANGED predVars
  BY <1>1, LoadKeepsInv
<1>2. CASE PredNext /\ UNCHANGED loadVars
  <2>1. CASE \E x \in StepIn(manifest.nodesIn) : Begin(x)
    BY <1>2, <2>1, BeginKeepsInv
  <2>2. CASE RefuseShape
    BY <1>2, <2>2, RefuseKeepsInv
  <2>3. CASE RunTile
    BY <1>2, <2>3, RunTileKeepsInv
  <2>4. CASE RaiseInTile
    BY <1>2, <2>4, RaiseKeepsInv
  <2>5. CASE Finish
    BY <1>2, <2>5, FinishKeepsInv
  <2> QED
    BY <1>2, <2>1, <2>2, <2>3, <2>4, <2>5 DEF PredNext
<1>3. CASE UNCHANGED vars
  <2>1. UNCHANGED loadVars /\ UNCHANGED predVars
    BY <1>3 DEF vars
  <2>3. TypeOK' /\ Calling'
    BY <2>1, PredFrame DEF IInv, TypeOK, Calling, Normalise, predVars
  <2>4. Blending'
    BY <2>1, BlendingFrame DEF predVars
  <2> QED
    BY <2>1, <2>3, <2>4, PredFrame DEF IInv
<1> QED
  BY <1>1, <1>2, <1>3 DEF Next

(* The strengthening of all the invariants below is inductive.              *)
THEOREM Inductive == Spec => []IInv
<1> QED
  BY InitInv, StepInv, PTL DEF Spec

-----------------------------------------------------------------------------

(* Every variable of a model object has its type: in particular the cursor, *)
(* the tile counter, the two buffers and the engine cache stay within what  *)
(* the manifest declares (model.py:417-566).                                *)
THEOREM TypeCorrect == Spec => []TypeOK
<1>1. IInv => TypeOK
  BY DEF IInv
<1> QED
  BY <1>1, Inductive, PTL

(* Whatever bundles exist, one the constructor accepts covers every output  *)
(* node and indexes no other (model.py:454-484).                            *)
THEOREM Coverage == Spec => []AcceptedCovers
<1>1. IInv => AcceptedCovers
  BY AcceptedFacts DEF IInv
<1> QED
  BY <1>1, Inductive, PTL

(* In an accepted bundle the later of two overlapping tiles is weighted     *)
(* (model.py:466-478).                                                      *)
THEOREM OverlapDiscipline == Spec => []LaterOverlapIsWeighted
<1>1. IInv => LaterOverlapIsWeighted
  BY AcceptedFacts DEF IInv
<1> QED
  BY <1>1, Inductive, PTL

(* Between two tiles of a call the output buffer is the untiled step scaled *)
(* by the weight buffer (model.py:542-558).                                 *)
THEOREM BlendExact == Spec => []PartialBlendExact
<1>1. IInv => PartialBlendExact
  BY DEF IInv, Blending, Exact, PartialBlendExact
<1> QED
  BY <1>1, Inductive, PTL

(* When the loop has ended, every node of a sound bundle has at least the   *)
(* weight of the owner that reaches the floor.                              *)
LEMMA FullWeight ==
  ASSUME IInv, SoundBundle, phase \in {"busy", "returned"}, tile = Len(Tiles) + 1,
         NEW n \in Node
  PROVE  wt[n] >= Floor
<1>1. Len(Tiles) \in Nat /\ AcceptedCovers /\ verdict = "accepted" /\ manifest \in Manifests
  BY ManifestFacts, AcceptedFacts DEF IInv, LoadInv, LoadTypeOK, Calling
<1>2. 1 .. tile - 1 = 1 .. Len(Tiles)
  BY <1>1
<1>3. PICK i \in 1 .. Len(Tiles) : n \in OutputOf(Tiles[i])
  BY <1>1 DEF AcceptedCovers
<1>4. PICK j \in 1 .. Len(Tiles) : ReachesFloor(Tiles[j], n)
  BY <1>3 DEF SoundBundle, OwnersReachFloor
<1>5. /\ WellFormed(Tiles[j]) /\ Tiles[j].output \in Seq(Int) /\ Tiles[j].weights \in Seq(Int)
      /\ n \in OutputOf(Tiles[j])
  BY <1>1, <1>4, ManifestFacts, AcceptedTile, ReachingOwns DEF IInv
<1>6. WeightAt(Tiles[j], n) >= Floor /\ WeightAt(Tiles[j], n) \in Int
  BY <1>4, <1>5, WeightFacts
<1>7. wt[n] >= WeightAt(Tiles[j], n)
  BY <1>2, <1>5 DEF IInv, Blending, SoundBundle, Weighed
<1>8. wt[n] \in Int /\ Floor \in Int
  BY WeightAssumption DEF IInv, Calling
<1> QED
  BY <1>6, <1>7, <1>8

(* What the division makes of a node whose row is the untiled one.          *)
LEMMA NormaliseFacts ==
  ASSUME NEW w \in Int, w >= 0, NEW r \in Int
  PROVE  /\ w >= Floor => Normalise(w * r, w) = r
         /\ w < Floor => Normalise(w * r, w) \in 0 .. r \/ Normalise(w * r, w) \in r .. 0
<1>1. Floor \in Int /\ Floor > 0
  BY WeightAssumption
<1>2. CASE w >= Floor
  BY <1>1, <1>2, QuotientExact DEF Normalise
<1>3. CASE w < Floor
  BY <1>1, <1>3, QuotientDamped DEF Normalise
<1> QED
  BY <1>1, <1>2, <1>3

(* The floor under the weights damps a value and never inflates it, for any *)
(* weights that are not negative, ramps down to 0.0 included, and any floor *)
(* (model.py:560).                                                          *)
THEOREM FloorDamps == Spec => []FloorOnlyDamps
<1>1. IInv => FloorOnlyDamps
  <2> SUFFICES ASSUME IInv, phase = "returned", HalosSuffice, WeightsNonNegative, NEW n \in Node
               PROVE  LET untiled == GlobalStep(manifest.nodesOut, input)[n] IN
                      \/ reply[n] = untiled
                      \/ wt[n] < Floor /\ (reply[n] \in 0 .. untiled \/ reply[n] \in untiled .. 0)
    BY DEF FloorOnlyDamps
  <2> DEFINE untiled == GlobalStep(manifest.nodesOut, input)[n]
  <2>1. manifest \in Manifests /\ input \in StepIn(manifest.nodesOut) /\ wt[n] \in Int
    BY DEF IInv, Calling, LoadInv, LoadTypeOK
  <2>2. untiled \in Int
    BY <2>1, RowFacts
  <2>3. wt[n] >= 0 /\ acc[n] = wt[n] * untiled
    BY DEF IInv, Blending, Exact, Weighed
  <2>4. reply[n] = Normalise(wt[n] * untiled, wt[n])
    BY <2>3 DEF IInv, Calling
  <2> HIDE DEF untiled
  <2>5. wt[n] >= Floor \/ wt[n] < Floor
    BY <2>1, WeightAssumption
  <2>6. \/ reply[n] = untiled
        \/ wt[n] < Floor /\ (reply[n] \in 0 .. untiled \/ reply[n] \in untiled .. 0)
    BY <2>1, <2>2, <2>3, <2>4, <2>5, NormaliseFacts
  <2> QED
    BY <2>6 DEF untiled
<1> QED
  BY <1>1, Inductive, PTL

(* The reply of a sound bundle is the untiled step of the input.            *)
LEMMA ReplyExact ==
  ASSUME IInv, Finish, SoundBundle
  PROVE  reply' = GlobalStep(manifest.nodesOut, input)
<1> DEFINE step == GlobalStep(manifest.nodesOut, input)
<1>1. phase = "busy" /\ tile > Len(Tiles) /\ tile \in 1 .. Len(Tiles) + 1
  BY DEF Finish, IInv, TypeOK
<1>2. manifest \in Manifests /\ input \in StepIn(manifest.nodesOut) /\ wt \in [Node -> Int]
  BY <1>1 DEF IInv, Calling, LoadInv, LoadTypeOK
<1>3. tile = Len(Tiles) + 1
  BY <1>1, <1>2, ManifestFacts
<1>4. ASSUME NEW n \in Node PROVE Normalise(acc[n], wt[n]) = step[n]
  <2>1. wt[n] >= Floor /\ wt[n] >= 0 /\ wt[n] \in Int
    BY <1>1, <1>2, <1>3, FullWeight DEF IInv, Blending, SoundBundle, Weighed
  <2>2. acc[n] = wt[n] * step[n]
    BY <1>1 DEF IInv, Blending, SoundBundle, Exact
  <2>3. step[n] \in Int
    BY <1>2, RowFacts
  <2> HIDE DEF step
  <2> QED
    BY <2>1, <2>2, <2>3, NormaliseFacts
<1>5. reply' = [n \in Node |-> step[n]]
  BY <1>4 DEF Finish
<1> QED
  BY <1>5 DEF GlobalStep, Node

(* A tiled call implements the untiled one: it returns the step the whole   *)
(* model would compute, or raises and hands out nothing, whatever earlier   *)
(* calls left behind (model.py:529-566).                                    *)
THEOREM TiledImplementsUntiled == Spec => ImplementsUntiledStep
<1>1. Init => Untiled!Init
  BY DEF Init, PredInit, Untiled!Init
<1>2. IInv /\ [Next]_vars => [Untiled!Next]_(Untiled!vars)
  <2> SUFFICES ASSUME IInv, [Next]_vars PROVE [Untiled!Next]_(Untiled!vars)
    OBVIOUS
  <2> USE DEF Untiled!Next, Untiled!vars
  <2>1. CASE LoadNext /\ UNCHANGED predVars
    <3>1. manifest' = manifest
      BY <2>1 DEF LoadNext, CheckHeader, ScanTile, Conclude
    <3>2. SoundBundle' = SoundBundle
      BY <3>1 DEF SoundBundle, HalosSuffice, HaloSuffices, WeightsNonNegative,
        OwnersReachFloor, OutputOf, Seen, Wrap, Tiles
    <3> QED
      BY <2>1, <3>1, <3>2 DEF predVars
  <2>2. CASE PredNext /\ UNCHANGED loadVars
    <3>0. SoundBundle' = SoundBundle /\ manifest' = manifest
      BY <2>2, PredFrame
    <3>1. CASE \E x \in StepIn(manifest.nodesIn) : Begin(x)
      BY <3>0, <3>1 DEF Begin, Untiled!Call
    <3>2. CASE RefuseShape
      BY <3>0, <3>2 DEF RefuseShape, OnRaise, Untiled!Raise
    <3>3. CASE RunTile
      BY <3>0, <3>3 DEF RunTile
    <3>4. CASE RaiseInTile
      BY <3>0, <3>4 DEF RaiseInTile, OnRaise, Untiled!Raise
    <3>5. CASE Finish
      BY <3>0, <3>5, ReplyExact DEF Finish, Untiled!Return
    <3> QED
      BY <2>2, <3>1, <3>2, <3>3, <3>4, <3>5 DEF PredNext
  <2>3. CASE UNCHANGED vars
    <3>1. UNCHANGED loadVars /\ UNCHANGED predVars
      BY <2>3 DEF vars
    <3> QED
      BY <3>1, PredFrame DEF predVars
  <2> QED
    BY <2>1, <2>2, <2>3 DEF Next
<1> QED
  BY <1>1, <1>2, Inductive, PTL DEF Spec, ImplementsUntiledStep, Untiled!Spec

=============================================================================
