---------------------------- MODULE Ensemble_proofs ----------------------------
(***************************************************************************)
(* Proofs about Ensemble: the running mean and M2 of every aggregated step *)
(* are exact for every ensemble size, graph, noise and request.            *)
(*                                                                         *)
(* The algebra of one step of Welford's recurrence is the lemma Welford;   *)
(* the invariant ties each row to the members added to it so far (Exact),  *)
(* and says that a row no member has reached is still zero (Untouched).    *)
(***************************************************************************)
EXTENDS Ensemble, TLAPS

(* The accumulators and the reference have their types.                     *)
Accumulators ==
  /\ mean \in [Rows -> [Cell -> Int \cup {NaN}]]
  /\ m2 \in [Rows -> [Cell -> Int \cup {NaN}]]
  /\ counter \in [Rows -> [Rules \X Nodes -> Nat]]
  /\ total \in [Steps -> [Cell -> Int]] /\ squares \in [Steps -> [Cell -> Int]]
  /\ poisoned \in [Steps -> SUBSET Cell]
  /\ hits \in [Steps -> [Rules \X Nodes -> Nat]]

RowsTyped ==
  /\ agg \in [Rows -> Steps] /\ Rows \subseteq Int
  /\ \A a, b \in Rows : a < b => agg[a] <= agg[b]

Control ==
  /\ request \in Requests /\ initial \in Initial
  /\ phase \in {"new", "member", "run", "aggregate", "feed", "done", "rejected", "failed"}
  /\ phase = "new" => member = 0 /\ step = 0
  /\ Live => Valid(request) /\ member \in 0 .. request.members /\ step \in Steps
  /\ phase \in {"run", "aggregate", "feed"} => member >= 1

Buffers ==
  /\ phase \in {"run", "aggregate"} => bufIn \in [Cell -> Int]
  /\ phase \in {"aggregate", "feed"} => bufOut \in [Cell -> Value]

Typed == Control /\ Buffers /\ (Live => RowsTyped /\ Accumulators)

Untouched(a) ==
  \A c \in Cell : c \notin poisoned[agg[a]] =>
    mean[a][c] = 0 /\ m2[a][c] = 0 /\ total[agg[a]][c] = 0 /\ squares[agg[a]][c] = 0

Exact ==
  Live => \A a \in Rows :
    /\ LastOfStep(a) => ExactRow(a, agg[a])
    /\ (LastOfStep(a) /\ Added(agg[a]) = 0) => Untouched(a)
    /\ \A p \in Rules \X Nodes : counter[a][p] <= Added(agg[a])

IInv == Typed /\ Exact

-----------------------------------------------------------------------------
(* The algebra.                                                             *)

(* Polynomial identities.                                                   *)
LEMMA MeanIdentity ==
  ASSUME NEW m \in Int, NEW k \in Int, NEW v \in Int, NEW S \in Int
  PROVE  /\ v * ((m * (m - 1)) * k) - (m * k) * S = m * (k * ((m - 1) * v - S))
         /\ (m * k) * S + k * ((m - 1) * v - S) = (k * (m - 1)) * (S + v)
         /\ m * ((k * (m - 1)) * (S + v)) = ((m * (m - 1)) * k) * (S + v)
         /\ v * ((m * (m - 1)) * k) - (k * (m - 1)) * (S + v) = (k * (m - 1)) * ((m - 1) * v - S)
OBVIOUS

(* The same for the squares.                                                *)
LEMMA SquareIdentity ==
  ASSUME NEW m \in Int, NEW v \in Int, NEW S \in Int, NEW Q \in Int
  PROVE  m * ((m - 1) * Q - S * S) + ((m - 1) * v - S) * ((m - 1) * v - S)
           = (m - 1) * (m * (Q + v * v) - (S + v) * (S + v))
OBVIOUS

(* A nonzero factor cancels.                                                *)
LEMMA Cancel ==
  ASSUME NEW n \in Int, n # 0, NEW a \in Int, NEW b \in Int, n * a = n * b
  PROVE  a = b
OBVIOUS

(* Integer division is exact on a multiple.                                 *)
LEMMA DivExact ==
  ASSUME NEW m \in Int, m > 0, NEW q \in Int
  PROVE  (m * q) \div m = q
OBVIOUS

(* mu and M are the mean and M2 of m values with sum S and squares Q.        *)
Moments(m, S, Q, mu, M) ==
  /\ mu \in Int /\ M \in Int
  /\ m * mu = Scale * S
  /\ m * M = (Scale * Scale) * (m * Q - S * S)

(* One step of Welford's recurrence, from m - 1 values to m: with exact     *)
(* arithmetic the mean and M2 are those of the textbook definition.         *)
LEMMA Welford ==
  ASSUME NEW m \in 1 .. MaxMembers,
         NEW v \in Int, NEW S \in Int, NEW Q \in Int, NEW mu, NEW M,
         m = 1 => mu = 0 /\ M = 0 /\ S = 0 /\ Q = 0,
         Moments(m - 1, S, Q, mu, M),
         NEW mu2, mu2 = NextMean(v, mu, m),
         NEW M2, M2 = NextM2(v, M, mu, mu2)
  PROVE  Moments(m, S + v, Q + v * v, mu2, M2)
<1> SUFFICES ASSUME mu \in Int, M \in Int,
                    (m - 1) * mu = Scale * S,
                    (m - 1) * M = (Scale * Scale) * ((m - 1) * Q - S * S)
             PROVE  /\ mu2 \in Int /\ M2 \in Int
                    /\ m * mu2 = Scale * (S + v)
                    /\ m * M2 = (Scale * Scale) * (m * (Q + v * v) - (S + v) * (S + v))
  BY DEF Moments
<1>0. m \in Int /\ m > 0 /\ Scale \in Int /\ Scale > 0
  BY ScaleAssumption
<1>1. CASE m = 1
  <2>1. mu2 = v * Scale
    BY <1>0, <1>1 DEF NextMean
  <2>2. v * Scale \in Int
    BY <1>0
  <2>3. M2 = 0 + (v * Scale - 0) * (v * Scale - v * Scale)
    BY <1>1, <2>1, <2>2 DEF NextM2, WelfordTerm
  <2>4. M2 = 0
    BY <2>2, <2>3
  <2>5. v * v \in Int /\ 1 * (0 + v * v) - (0 + v) * (0 + v) = 0
    OBVIOUS
  <2>6. (Scale * Scale) * 0 = 0
    BY <1>0
  <2> QED
    BY <1>0, <1>1, <2>1, <2>2, <2>4, <2>5, <2>6
<1>2. CASE m # 1
  <2>1. PICK k \in 1 .. Scale : Scale = (m * (m - 1)) * k
    <3>1. \A j \in 2 .. MaxMembers : \E k \in 1 .. Scale : Scale = (j * (j - 1)) * k
      BY ScaleAssumption
    <3>2. m \in 2 .. MaxMembers
      BY <1>0, <1>2, ScaleAssumption
    <3> QED
      BY <3>1, <3>2, Zenon
  <2>2. k \in Int /\ k > 0 /\ m - 1 \in Int /\ m - 1 # 0 /\ m # 0
    BY <1>0, <1>2, <2>1
  <2> DEFINE D == (m - 1) * v - S
  <2>3. D \in Int /\ (m * k) * S \in Int /\ k * D \in Int
    BY <1>0, <2>2
  <2>4. mu = (m * k) * S
    <3>1. (m - 1) * ((m * k) * S) = ((m * (m - 1)) * k) * S
      BY <1>0, <2>2
    <3> QED
      BY <2>1, <2>2, <2>3, <3>1, Cancel
  <2>5. v * Scale - mu = m * (k * D)
    BY <1>0, <2>1, <2>2, <2>4, MeanIdentity
  <2>6. mu2 = (k * (m - 1)) * (S + v)
    <3>1. (v * Scale - mu) \div m = k * D
      <4> HIDE DEF D
      <4> QED
        BY <1>0, <2>3, <2>5, DivExact
    <3>2. mu2 = mu + k * D
      BY <3>1 DEF NextMean
    <3> QED
      BY <1>0, <2>2, <2>4, <3>2, MeanIdentity
  <2>7. mu2 \in Int /\ m * mu2 = Scale * (S + v)
    BY <1>0, <2>1, <2>2, <2>6, MeanIdentity
  <2>8. v * Scale - mu2 = (k * (m - 1)) * D
    BY <1>0, <2>1, <2>2, <2>6, MeanIdentity
  <2>9. M2 = M + (m * (k * D)) * ((k * (m - 1)) * D)
    BY <2>5, <2>7, <2>8 DEF NextM2, WelfordTerm
  <2> DEFINE A == (m - 1) * Q - S * S
             B == m * (Q + v * v) - (S + v) * (S + v)
             c == (m * (m - 1)) * k
  <2>10. A \in Int /\ B \in Int /\ D * D \in Int
    BY <1>0, <2>2, <2>3
  <2>11. m * A + D * D = (m - 1) * B
    BY <1>0, SquareIdentity
  <2>12. (m - 1) * M = (c * c) * A
    BY <2>1
  <2> HIDE DEF A, B, D
  <2>13. M = (((m * k) * (m * k)) * (m - 1)) * A
    <3>1. (m - 1) * ((((m * k) * (m * k)) * (m - 1)) * A) = (c * c) * A
      BY <1>0, <2>2, <2>10
    <3>2. (((m * k) * (m * k)) * (m - 1)) * A \in Int
      BY <1>0, <2>2, <2>10
    <3> QED
      BY <2>2, <2>12, <3>1, <3>2, Cancel
  <2>14. M2 \in Int /\ m * M2 = (((m * k) * (m * k)) * (m - 1)) * (m * A + D * D)
    BY <1>0, <2>2, <2>3, <2>9, <2>10, <2>13
  <2>15. (((m * k) * (m * k)) * (m - 1)) * ((m - 1) * B) = (c * c) * B
    BY <1>0, <2>2, <2>10
  <2>16. m * M2 = (Scale * Scale) * B
    BY <2>1, <2>11, <2>14, <2>15
  <2> QED
    BY <2>7, <2>14, <2>16 DEF B
<1> QED
  BY <1>1, <1>2

-----------------------------------------------------------------------------
(* What the assumption on Requests says of the one at hand.                 *)
LEMMA RequestFacts ==
  ASSUME request \in Requests
  PROVE  /\ request.steps \in Int /\ request.members \in Int /\ request.members <= MaxMembers
         /\ request.aggregate \in Seq(Int)
         /\ \A r \in Rules : /\ Rule(r).channel \in Channels
                              /\ Rule(r).greater \in BOOLEAN
                              /\ Rule(r).value \in Int
<1>1. /\ request.steps \in Int /\ request.members \in Int /\ request.members <= MaxMembers
      /\ request.aggregate \in Seq(Int)
  BY RequestAssumption
<1>2. ASSUME NEW r \in Rules
      PROVE  /\ Rule(r).channel \in Channels
             /\ Rule(r).greater \in BOOLEAN /\ Rule(r).value \in Int
  <2>1. r[1] \in DOMAIN request.thresholds /\ r[2] \in Levels
    BY DEF Rules, Threshold
  <2>2. Threshold(r).var \in Vars /\ Threshold(r).greater \in BOOLEAN /\ Threshold(r).value \in Int
    BY <2>1, RequestAssumption DEF Threshold
  <2> QED
    BY <2>1, <2>2 DEF Rule, Channels
<1> QED
  BY <1>1, <1>2

(* A sanitised state is finite.                                             *)
LEMMA SanitiseFacts ==
  ASSUME NEW x
  PROVE  Sanitise(x) \in [Cell -> Int]
BY DEF Sanitise

(* The invariant holds before the request is looked at.                    *)
LEMMA InitInv == Init => IInv
<1> SUFFICES ASSUME Init PROVE IInv
  OBVIOUS
<1> USE DEF Init
<1>1. Typed
  BY DEF Typed, Control, Buffers, Live
<1>2. Exact
  BY DEF Exact, Live
<1> QED
  BY <1>1, <1>2 DEF IInv

(* The rows of an accepted request: steps in range, in ascending order.     *)
LEMMA AggFacts ==
  ASSUME request \in Requests, Valid(request), NEW t \in AggSteps(request)
  PROVE  /\ t \in [DOMAIN t -> Steps] /\ DOMAIN t \subseteq Int
         /\ \A a, b \in DOMAIN t : a < b => t[a] <= t[b]
<1>1. request.steps \in Int /\ request.aggregate \in Seq(Int)
  BY RequestFacts
<1>2. CASE request.aggregate = <<>>
  <2>1. t = [i \in 1 .. request.steps |-> i - 1]
    BY <1>2 DEF AggSteps
  <2> QED
    BY <1>1, <2>1 DEF Steps
<1>3. CASE request.aggregate # <<>>
  <2> DEFINE s == request.aggregate
  <2>1. /\ t \in [1 .. Len(s) -> {s[i] : i \in 1 .. Len(s)}]
        /\ \A i, j \in 1 .. Len(s) : i < j => t[i] <= t[j]
    BY <1>3 DEF AggSteps, SortOf
  <2>2. \A i \in 1 .. Len(s) : s[i] \in Steps
    BY DEF Valid, Steps
  <2>3. {s[i] : i \in 1 .. Len(s)} \subseteq Steps
    BY <2>2
  <2>4. DOMAIN t = 1 .. Len(s) /\ Len(s) \in Nat
    BY <1>1, <2>1
  <2> QED
    BY <2>1, <2>3, <2>4
<1> QED
  BY <1>2, <1>3

(* An accepted request starts with zero rows.                               *)
LEMMA AcceptKeeps == ASSUME IInv, Accept PROVE IInv'
<1>1. /\ phase = "new" /\ Valid(request) /\ phase' = "member" /\ agg' \in AggSteps(request)
      /\ mean' = [a \in Rows' |-> Zeros(Cell)] /\ m2' = [a \in Rows' |-> Zeros(Cell)]
      /\ counter' = [a \in Rows' |-> Zeros(Rules \X Nodes)]
      /\ total' = [s \in Steps |-> Zeros(Cell)] /\ squares' = [s \in Steps |-> Zeros(Cell)]
      /\ poisoned' = [s \in Steps |-> {}] /\ hits' = [s \in Steps |-> Zeros(Rules \X Nodes)]
      /\ UNCHANGED <<request, initial, member, step, bufIn, bufOut>>
  BY DEF Accept, Rows
<1>2. /\ member = 0 /\ step = 0 /\ request \in Requests /\ initial \in Initial
      /\ request.steps \in Int /\ request.steps >= 1 /\ request.members \in Int
      /\ request.members >= 1
  BY <1>1, RequestFacts DEF IInv, Typed, Control, Valid
<1>3. /\ agg' \in [Rows' -> Steps] /\ Rows' \subseteq Int
      /\ \A a, b \in Rows' : a < b => agg'[a] <= agg'[b]
  BY <1>1, <1>2, AggFacts DEF Rows
<1>4. Steps' = Steps /\ Rules' = Rules /\ Valid(request)' /\ 0 \in Steps
  BY <1>1, <1>2 DEF Steps, Rules, Threshold, Valid
<1>5. Zeros(Cell) \in [Cell -> Int \cup {NaN}] /\ Zeros(Cell) \in [Cell -> Int]
  BY DEF Zeros
<1>6. Zeros(Rules \X Nodes) \in [Rules \X Nodes -> Nat]
  BY DEF Zeros
<1>7. Typed'
  <2>1. Control'
    BY <1>1, <1>2, <1>4 DEF Control, Live
  <2>2. Buffers'
    BY <1>1 DEF Buffers
  <2>3. RowsTyped'
    BY <1>3, <1>4 DEF RowsTyped
  <2>4. Accumulators'
    BY <1>1, <1>4, <1>5, <1>6 DEF Accumulators
  <2> QED
    BY <2>1, <2>2, <2>3, <2>4 DEF Typed
<1>8. ASSUME NEW a \in Rows' PROVE Added(agg[a])' = 0
  BY <1>1, <1>2 DEF Added
<1>9. ASSUME NEW a \in Rows'
      PROVE  /\ ExactRow(a, agg[a])' /\ Untouched(a)'
             /\ \A p \in (Rules \X Nodes)' : counter'[a][p] = 0
  <2>1. /\ agg'[a] \in Steps /\ \A c \in Cell : mean'[a][c] = 0 /\ m2'[a][c] = 0
        /\ \A s \in Steps : poisoned'[s] = {} /\ hits'[s] = Zeros(Rules \X Nodes)
        /\ \A s \in Steps : \A c \in Cell : total'[s][c] = 0 /\ squares'[s][c] = 0
        /\ counter'[a] = Zeros(Rules \X Nodes)
    BY <1>1, <1>3, <1>9 DEF Zeros
  <2>2. Scale * 0 = 0 /\ (Scale * Scale) * (0 * 0 - 0 * 0) = 0 /\ 0 * 0 = 0
    BY ScaleAssumption
  <2>3. ExactRow(a, agg[a])'
    <3>1. counter'[a] = hits'[agg'[a]]
      BY <2>1
    <3>2. \A c \in Cell : c \notin poisoned'[agg'[a]]
      BY <2>1
    <3>3. ASSUME NEW c \in Cell
          PROVE  /\ mean'[a][c] \in Int /\ m2'[a][c] \in Int
                 /\ 0 * mean'[a][c] = Scale * total'[agg'[a]][c]
                 /\ 0 * m2'[a][c] = (Scale * Scale) * (0 * squares'[agg'[a]][c]
                                      - total'[agg'[a]][c] * total'[agg'[a]][c])
      <4>1. /\ mean'[a][c] = 0 /\ m2'[a][c] = 0
            /\ total'[agg'[a]][c] = 0 /\ squares'[agg'[a]][c] = 0
        BY <2>1
      <4> QED
        BY <2>2, <4>1
    <3> QED
      BY <1>8, <1>9, <3>1, <3>2, <3>3 DEF ExactRow
  <2>4. Untouched(a)'
    BY <2>1 DEF Untouched
  <2>5. \A p \in (Rules \X Nodes)' : counter'[a][p] = 0
    BY <1>4, <2>1 DEF Zeros
  <2> QED
    BY <2>3, <2>4, <2>5
<1>10. Exact'
  <2>1. \A a \in Rows' : \A p \in (Rules \X Nodes)' : counter'[a][p] <= Added(agg[a])'
    BY <1>8, <1>9
  <2> QED
    BY <1>9, <2>1 DEF Exact
<1> QED
  BY <1>7, <1>10 DEF IInv

-----------------------------------------------------------------------------
(* The steps that leave the accumulators alone.                             *)

kept == <<inputs, mean, m2, counter, total, squares, poisoned, hits>>

(* They keep Exact when no step gains or loses a member.                    *)
LEMMA ExactStays ==
  ASSUME Exact, Live' => Live, Live => RowsTyped, UNCHANGED kept,
         \A s \in Steps : Added(s)' = Added(s)
  PROVE  Exact'
<1> SUFFICES ASSUME Live' PROVE Exact'
  BY DEF Exact
<1>1. /\ Live /\ RowsTyped
      /\ agg' = agg /\ mean' = mean /\ m2' = m2 /\ counter' = counter /\ total' = total
      /\ squares' = squares /\ poisoned' = poisoned /\ hits' = hits /\ request' = request
  BY DEF kept, inputs
<1>2. Rows' = Rows /\ Rules' = Rules
  BY <1>1 DEF Rows, Rules, Threshold
<1>3. ASSUME NEW a \in Rows
      PROVE  /\ LastOfStep(a)' => LastOfStep(a)
             /\ Added(agg[a])' = Added(agg[a])
             /\ ExactRow(a, agg[a]) => ExactRow(a, agg[a])'
             /\ Untouched(a) => Untouched(a)'
  <2>1. agg[a] \in Steps
    BY <1>1 DEF RowsTyped
  <2>2. Added(agg[a])' = Added(agg[a])
    BY <1>1, <2>1 DEF Added
  <2>3. LastOfStep(a)' => LastOfStep(a)
    BY <1>1, <1>2 DEF LastOfStep
  <2>4. ExactRow(a, agg[a]) => ExactRow(a, agg[a])'
    BY <1>1, <2>2 DEF ExactRow
  <2>5. Untouched(a) => Untouched(a)'
    BY <1>1 DEF Untouched
  <2> QED
    BY <2>2, <2>3, <2>4, <2>5
<1>4. ASSUME NEW a \in Rows
      PROVE  /\ LastOfStep(a)' => ExactRow(a, agg[a])'
             /\ LastOfStep(a)' /\ Added(agg[a])' = 0 => Untouched(a)'
             /\ \A p \in (Rules \X Nodes)' : counter'[a][p] <= Added(agg[a])'
  <2>1. /\ LastOfStep(a) => ExactRow(a, agg[a])
        /\ (LastOfStep(a) /\ Added(agg[a]) = 0) => Untouched(a)
        /\ \A p \in Rules \X Nodes : counter[a][p] <= Added(agg[a])
    BY <1>1 DEF Exact
  <2>2. \A p \in (Rules \X Nodes)' : counter'[a][p] <= Added(agg[a])'
    BY <1>1, <1>2, <1>3, <2>1
  <2> QED
    BY <1>3, <2>1, <2>2
<1> QED
  BY <1>2, <1>4 DEF Exact

(* So do the types of the accumulators.                                     *)
LEMMA TypesStay ==
  ASSUME RowsTyped, Accumulators, UNCHANGED kept
  PROVE  RowsTyped' /\ Accumulators'
<1>1. /\ agg' = agg /\ mean' = mean /\ m2' = m2 /\ counter' = counter /\ total' = total
      /\ squares' = squares /\ poisoned' = poisoned /\ hits' = hits /\ request' = request
  BY DEF kept, inputs
<1>2. Rows' = Rows /\ Rules' = Rules /\ Steps' = Steps
  BY <1>1 DEF Rows, Rules, Threshold, Steps
<1>3. RowsTyped'
  BY <1>1, <1>2 DEF RowsTyped
<1>4. Accumulators'
  BY <1>1, <1>2 DEF Accumulators
<1> QED
  BY <1>3, <1>4

(* A refused request or a failed run ends with no accumulator to speak of.  *)
LEMMA StopKeeps == ASSUME IInv, Refuse \/ RunFails PROVE IInv'
<1>1. phase' \in {"rejected", "failed"} /\ request' = request /\ initial' = initial
  BY DEF Refuse, RunFails, inputs
<1>2. ~Live'
  BY <1>1 DEF Live
<1>3. Control'
  BY <1>1, <1>2 DEF IInv, Typed, Control
<1>4. Buffers'
  BY <1>1 DEF Buffers
<1> QED
  BY <1>2, <1>3, <1>4 DEF IInv, Typed, Exact

(* A member starts from the caller's state, whatever the last one left.     *)
LEMMA StartKeeps == ASSUME IInv, NEW noise, StartMember(noise) PROVE IInv'
<1>1. /\ phase = "member" /\ phase' = "run" /\ member < request.members
      /\ member' = member + 1 /\ step' = 0 /\ bufIn' = Sanitise(Perturbed(MemberStart, noise))
      /\ request' = request /\ initial' = initial
      /\ UNCHANGED kept
  BY DEF StartMember, inputs, sums, kept
<1>2. /\ Control /\ Live /\ RowsTyped /\ Accumulators /\ Exact
      /\ request.steps \in Int /\ request.members \in Int /\ request.steps >= 1
      /\ member \in 0 .. request.members
  BY <1>1, RequestFacts DEF IInv, Typed, Control, Live, Valid
<1>3. Control'
  BY <1>1, <1>2 DEF Control, Live, Valid, Steps
<1>4. Buffers'
  BY <1>1, SanitiseFacts DEF Buffers
<1>5. RowsTyped' /\ Accumulators'
  BY <1>1, <1>2, TypesStay
<1>6. \A s \in Steps : Added(s)' = Added(s)
  BY <1>1, <1>2 DEF Added, Steps
<1>7. Exact'
  BY <1>1, <1>2, <1>6, ExactStays
<1> QED
  BY <1>3, <1>4, <1>5, <1>7 DEF IInv, Typed

(* A run of the session.                                                    *)
LEMMA RunKeeps == ASSUME IInv, RunGraph PROVE IInv'
<1>1. /\ phase = "run" /\ phase' = "aggregate" /\ bufOut' \in [Cell -> Value]
      /\ member' = member /\ step' = step /\ bufIn' = bufIn
      /\ request' = request /\ initial' = initial
      /\ UNCHANGED kept
  BY DEF RunGraph, inputs, sums, kept
<1>2. /\ Control /\ Buffers /\ Live /\ RowsTyped /\ Accumulators /\ Exact
  BY <1>1 DEF IInv, Typed, Live
<1>3. Control'
  BY <1>1, <1>2 DEF Control, Live, Valid, Steps
<1>4. Buffers'
  BY <1>1, <1>2 DEF Buffers
<1>5. RowsTyped' /\ Accumulators'
  BY <1>1, <1>2, TypesStay
<1>6. \A s \in Steps : Added(s)' = Added(s)
  BY <1>1 DEF Added
<1>7. Exact'
  BY <1>1, <1>2, <1>6, ExactStays
<1> QED
  BY <1>3, <1>4, <1>5, <1>7 DEF IInv, Typed

(* The output is fed back, or the member ends.                              *)
LEMMA FeedKeeps == ASSUME IInv, NEW noise, Feed(noise) PROVE IInv'
<1>1. /\ phase = "feed" /\ member' = member /\ bufOut' = bufOut
      /\ request' = request /\ initial' = initial
      /\ UNCHANGED kept
  BY DEF Feed, inputs, sums, kept
<1>2. /\ Control /\ Live /\ RowsTyped /\ Accumulators /\ Exact
      /\ request.steps \in Int /\ request.steps >= 1 /\ step \in 0 .. request.steps - 1
      /\ member \in 0 .. request.members /\ request.members \in Int /\ member >= 1
  BY <1>1, RequestFacts DEF IInv, Typed, Control, Live, Valid, Steps
<1>3. RowsTyped' /\ Accumulators'
  BY <1>1, <1>2, TypesStay
<1>4. /\ phase' \in {"run", "member"} /\ step' \in 0 .. request.steps - 1
      /\ phase' = "run" => bufIn' \in [Cell -> Int]
  BY <1>1, <1>2, SanitiseFacts DEF Feed
<1>5. Control'
  BY <1>1, <1>2, <1>4 DEF Control, Live, Valid, Steps
<1>6. Buffers'
  BY <1>4 DEF Buffers
<1>7. \A s \in Steps : Added(s)' = Added(s)
  BY <1>1, <1>2 DEF Added, Steps, Feed
<1>8. Exact'
  BY <1>1, <1>2, <1>4, <1>7, ExactStays DEF Live
<1> QED
  BY <1>3, <1>5, <1>6, <1>8 DEF IInv, Typed

(* The last member has run.                                                 *)
LEMMA FinaliseKeeps == ASSUME IInv, Finalise PROVE IInv'
<1>1. /\ phase = "member" /\ phase' = "done"
      /\ member' = member /\ step' = step
      /\ request' = request /\ initial' = initial
      /\ UNCHANGED kept
  BY DEF Finalise, inputs, kept
<1>2. Control /\ Live /\ RowsTyped /\ Accumulators /\ Exact
  BY <1>1 DEF IInv, Typed, Live
<1>3. Control'
  BY <1>1, <1>2 DEF Control, Live, Valid, Steps
<1>4. Buffers'
  BY <1>1 DEF Buffers
<1>5. RowsTyped' /\ Accumulators'
  BY <1>1, <1>2, TypesStay
<1>6. \A s \in Steps : Added(s)' = Added(s)
  BY <1>1 DEF Added
<1>7. Exact'
  BY <1>1, <1>2, <1>6, ExactStays
<1> QED
  BY <1>3, <1>4, <1>5, <1>7 DEF IInv, Typed

-----------------------------------------------------------------------------
(* Aggregate.                                                               *)

(* The code's comparison counts what the reference counts.                  *)
LEMMA HitIsCrossed ==
  ASSUME NEW rule, rule.greater \in BOOLEAN, NEW v \in Value
  PROVE  Hit(rule, v) <=> \/ rule.greater /\ Above(rule, v)
                          \/ ~rule.greater /\ Below(rule, v)
<1>1. CASE v \in Int
  BY <1>1, ValueAssumption DEF Hit, Above, Below
<1>2. CASE v \notin Int /\ rule.greater
  BY <1>2, ValueAssumption DEF Hit, Above
<1>3. CASE v \notin Int /\ ~rule.greater
  BY <1>3, ValueAssumption DEF Hit, Below
<1> QED
  BY <1>1, <1>2, <1>3

(* NaN, once in a mean or an M2, stays.                                     *)
LEMMA PoisonStays ==
  ASSUME NEW v \in Value, NEW mu, NEW M, NEW mu2, NEW m, v \notin Int \/ (mu = NaN /\ M = NaN)
  PROVE  NextMean(v, mu, m) = NaN /\ NextM2(v, M, mu, mu2) = NaN
BY ValueAssumption DEF NextMean, NextM2

(* What Aggregate reads and writes, without EXCEPT.                         *)
AggregateFacts ==
  /\ phase = "aggregate" /\ phase' = "feed"
  /\ request' = request /\ initial' = initial /\ agg' = agg /\ member' = member /\ step' = step
  /\ bufIn' = bufIn /\ bufOut' = bufOut
  /\ Control /\ Exact /\ RowsTyped /\ Accumulators /\ Live
  /\ bufOut \in [Cell -> Value] /\ bufIn \in [Cell -> Int]
  /\ step \in Steps /\ member \in 1 .. request.members /\ request \in Requests
  /\ request.members \in Int /\ request.members <= MaxMembers

(* They follow from the invariant.                                          *)
LEMMA AggregateReads == ASSUME IInv, Aggregate PROVE AggregateFacts
<1>1. /\ phase = "aggregate" /\ phase' = "feed"
      /\ request' = request /\ initial' = initial /\ agg' = agg /\ member' = member /\ step' = step
      /\ bufIn' = bufIn /\ bufOut' = bufOut
  BY DEF Aggregate, inputs
<1>2. Control /\ Buffers /\ Exact /\ RowsTyped /\ Accumulators /\ Live
  BY <1>1 DEF IInv, Typed, Live
<1>3. bufOut \in [Cell -> Value] /\ bufIn \in [Cell -> Int]
  BY <1>1, <1>2 DEF Buffers
<1>4. /\ step \in Steps /\ member \in 1 .. request.members /\ request \in Requests
      /\ request.members \in Int /\ request.members <= MaxMembers
  BY <1>1, <1>2, RequestFacts DEF Control
<1> QED
  BY <1>1, <1>2, <1>3, <1>4 DEF AggregateFacts

(* The reference after the step, pointwise.                                 *)
LEMMA TallyFacts ==
  ASSUME Tally, Accumulators, step \in Steps
  PROVE  /\ \A s \in Steps : s # step =>
              /\ total'[s] = total[s] /\ squares'[s] = squares[s]
              /\ poisoned'[s] = poisoned[s] /\ hits'[s] = hits[s]
         /\ \A c \in Cell :
              /\ bufOut[c] \in Int =>
                   /\ total'[step][c] = total[step][c] + bufOut[c]
                   /\ squares'[step][c] = squares[step][c] + bufOut[c] * bufOut[c]
              /\ bufOut[c] \notin Int =>
                   /\ total'[step][c] = total[step][c]
                   /\ squares'[step][c] = squares[step][c]
         /\ poisoned'[step] = poisoned[step] \cup {c \in Cell : bufOut[c] \notin Int}
         /\ hits'[step] = [p \in Rules \X Nodes |-> hits[step][p] +
              IF \/ Rule(p[1]).greater
                    /\ Above(Rule(p[1]), bufOut[<<p[2], Rule(p[1]).channel>>])
                 \/ ~Rule(p[1]).greater
                    /\ Below(Rule(p[1]), bufOut[<<p[2], Rule(p[1]).channel>>])
              THEN 1 ELSE 0]
         /\ DOMAIN total' = Steps /\ DOMAIN squares' = Steps
         /\ DOMAIN poisoned' = Steps /\ DOMAIN hits' = Steps
<1>1. DOMAIN total = Steps /\ DOMAIN squares = Steps /\ DOMAIN poisoned = Steps /\ DOMAIN hits = Steps
  BY DEF Accumulators
<1>2. /\ DOMAIN total' = Steps
      /\ \A s \in Steps : s # step => total'[s] = total[s]
      /\ total'[step] = [c \in Cell |-> IF bufOut[c] \in Int THEN total[step][c] + bufOut[c] ELSE total[step][c]]
  BY <1>1 DEF Tally
<1>3. /\ DOMAIN squares' = Steps
      /\ \A s \in Steps : s # step => squares'[s] = squares[s]
      /\ squares'[step] = [c \in Cell |-> IF bufOut[c] \in Int
                             THEN squares[step][c] + bufOut[c] * bufOut[c] ELSE squares[step][c]]
  BY <1>1 DEF Tally
<1>4. /\ DOMAIN poisoned' = Steps
      /\ \A s \in Steps : s # step => poisoned'[s] = poisoned[s]
      /\ poisoned'[step] = poisoned[step] \cup {c \in Cell : bufOut[c] \notin Int}
  BY <1>1 DEF Tally
<1>5. /\ DOMAIN hits' = Steps
      /\ \A s \in Steps : s # step => hits'[s] = hits[s]
      /\ hits'[step] = [p \in Rules \X Nodes |-> hits[step][p] +
              IF \/ Rule(p[1]).greater
                    /\ Above(Rule(p[1]), bufOut[<<p[2], Rule(p[1]).channel>>])
                 \/ ~Rule(p[1]).greater
                    /\ Below(Rule(p[1]), bufOut[<<p[2], Rule(p[1]).channel>>])
              THEN 1 ELSE 0]
  BY <1>1 DEF Tally
<1> QED
  BY <1>2, <1>3, <1>4, <1>5

(* One cell of the row that receives the member.                            *)
LEMMA ReceivingCell ==
  ASSUME AggregateFacts, Accumulate, Tally, NEW a \in Rows, Receives(a, step), NEW c \in Cell
  PROVE  IF c \in poisoned'[step] THEN mean'[a][c] = NaN /\ m2'[a][c] = NaN
         ELSE /\ mean'[a][c] \in Int /\ m2'[a][c] \in Int
              /\ member * mean'[a][c] = Scale * total'[step][c]
              /\ member * m2'[a][c] = (Scale * Scale) *
                   (member * squares'[step][c] - total'[step][c] * total'[step][c])
<1>1. /\ mean'[a][c] = NextMean(bufOut[c], mean[a][c], member)
      /\ m2'[a][c] = NextM2(bufOut[c], m2[a][c], mean[a][c], mean'[a][c])
  BY DEF Accumulate
<1>2. /\ bufOut[c] \in Value /\ step \in Steps /\ Accumulators
      /\ member \in 1 .. MaxMembers
  BY ScaleAssumption DEF AggregateFacts
<1>3. agg[a] = step /\ LastOfStep(a)
  BY DEF Receives, LastOfStep
<1>4. Added(step) = member - 1
  BY <1>2 DEF Added, AggregateFacts, Steps
<1>5. ExactRow(a, step) /\ (member = 1 => Untouched(a))
  BY <1>2, <1>3, <1>4 DEF AggregateFacts, Exact
<1>6. c \in poisoned'[step] <=> c \in poisoned[step] \/ bufOut[c] \notin Int
  BY <1>2, TallyFacts
<1>7. CASE c \in poisoned'[step]
  <2>1. ASSUME bufOut[c] \in Int PROVE mean[a][c] = NaN /\ m2[a][c] = NaN
    <3>1. c \in poisoned[step]
      BY <1>6, <1>7, <2>1
    <3>2. ExactRow(a, step)
      BY <1>5
    <3> QED
      BY <3>1, <3>2 DEF ExactRow
  <2> QED
    BY <1>1, <1>2, <1>7, <2>1, PoisonStays
<1>8. CASE c \notin poisoned'[step]
  <2>1. c \notin poisoned[step] /\ bufOut[c] \in Int
    BY <1>6, <1>8
  <2>2. /\ mean[a][c] \in Int /\ m2[a][c] \in Int
        /\ (member - 1) * mean[a][c] = Scale * total[step][c]
        /\ (member - 1) * m2[a][c] = (Scale * Scale) *
             ((member - 1) * squares[step][c] - total[step][c] * total[step][c])
    BY <1>4, <1>5, <2>1 DEF ExactRow
  <2>3. member = 1 => /\ mean[a][c] = 0 /\ m2[a][c] = 0
                      /\ total[step][c] = 0 /\ squares[step][c] = 0
    BY <1>3, <1>5, <2>1 DEF Untouched
  <2>4. total[step][c] \in Int /\ squares[step][c] \in Int
    BY <1>2 DEF Accumulators
  <2>5. /\ mean'[a][c] \in Int /\ m2'[a][c] \in Int
        /\ member * mean'[a][c] = Scale * (total[step][c] + bufOut[c])
        /\ member * m2'[a][c] = (Scale * Scale) *
             (member * (squares[step][c] + bufOut[c] * bufOut[c])
               - (total[step][c] + bufOut[c]) * (total[step][c] + bufOut[c]))
    <3>1. /\ bufOut[c] \in Int /\ total[step][c] \in Int /\ squares[step][c] \in Int
          /\ member \in 1 .. MaxMembers
      BY <1>2, <2>1, <2>4
    <3>2. Moments(member - 1, total[step][c], squares[step][c], mean[a][c], m2[a][c])
      BY <2>2 DEF Moments
    <3>3. Moments(member, total[step][c] + bufOut[c], squares[step][c] + bufOut[c] * bufOut[c],
                  mean'[a][c], m2'[a][c])
      BY <1>1, <2>3, <3>1, <3>2, Welford
    <3> QED
      BY <3>3 DEF Moments
  <2>6. /\ total'[step][c] = total[step][c] + bufOut[c]
        /\ squares'[step][c] = squares[step][c] + bufOut[c] * bufOut[c]
    BY <1>2, <2>1, TallyFacts
  <2> QED
    BY <1>8, <2>5, <2>6
<1> QED
  BY <1>7, <1>8

(* Its counters.                                                            *)
LEMMA ReceivingCounter ==
  ASSUME AggregateFacts, Accumulate, Tally, NEW a \in Rows, Receives(a, step)
  PROVE  counter'[a] = hits'[step]
<1> DEFINE rule(p) == Rule(p[1])
           v(p) == bufOut[<<p[2], rule(p).channel>>]
           crossed(p) == \/ rule(p).greater /\ Above(rule(p), v(p))
                         \/ ~rule(p).greater /\ Below(rule(p), v(p))
<1>1. counter'[a] = [p \in Rules \X Nodes |->
                       counter[a][p] + IF Hit(rule(p), v(p)) THEN 1 ELSE 0]
  BY DEF Accumulate
<1>2. hits'[step] = [p \in Rules \X Nodes |->
                       hits[step][p] + IF crossed(p) THEN 1 ELSE 0]
  BY TallyFacts DEF AggregateFacts
<1>3. counter[a] = hits[step]
  <2>1. agg[a] = step /\ LastOfStep(a)
    BY DEF Receives, LastOfStep
  <2> QED
    BY <2>1 DEF AggregateFacts, Exact, ExactRow
<1>4. ASSUME NEW p \in Rules \X Nodes PROVE Hit(rule(p), v(p)) <=> crossed(p)
  <2>1. p[1] \in Rules /\ p[2] \in Nodes
    OBVIOUS
  <2>2. rule(p).channel \in Channels /\ rule(p).greater \in BOOLEAN
    BY <2>1, RequestFacts DEF AggregateFacts
  <2>3. v(p) \in Value
    BY <2>1, <2>2 DEF AggregateFacts, Cell
  <2> HIDE DEF rule, v
  <2>4. Hit(rule(p), v(p)) <=> \/ rule(p).greater /\ Above(rule(p), v(p))
                               \/ ~rule(p).greater /\ Below(rule(p), v(p))
    BY <2>2, <2>3, HitIsCrossed
  <2> QED
    BY <2>4 DEF crossed
<1> HIDE DEF crossed, v, rule
<1> QED
  BY <1>1, <1>2, <1>3, <1>4

(* The rows that receive nothing.                                           *)
LEMMA OtherRow ==
  ASSUME Accumulate, NEW a \in Rows, ~Receives(a, step)
  PROVE  mean'[a] = mean[a] /\ m2'[a] = m2[a] /\ counter'[a] = counter[a]
BY DEF Accumulate

(* The accumulators keep their types.                                       *)
LEMMA AggregateTypes ==
  ASSUME AggregateFacts, Accumulate, Tally
  PROVE  Accumulators'
<1>1. /\ Rows' = Rows /\ Rules' = Rules /\ Steps' = Steps /\ Accumulators
      /\ step \in Steps /\ member \in Int /\ member > 0
  BY DEF AggregateFacts, Rows, Rules, Threshold, Steps
<1>2. ASSUME NEW v, NEW mu, NEW M, NEW mu2 \in Int \cup {NaN}
      PROVE  /\ NextMean(v, mu, member) \in Int \cup {NaN}
             /\ v \in Int /\ mu \in Int => NextMean(v, mu, member) \in Int
  BY <1>1, ScaleAssumption DEF NextMean
<1>3. ASSUME NEW v, NEW mu
      PROVE  NextM2(v, NaN, mu, NextMean(v, mu, member)) = NaN
  BY ValueAssumption DEF NextM2
<1>4. ASSUME NEW v, NEW mu, NEW M
      PROVE  NextM2(v, M, mu, NextMean(v, mu, member)) \in Int \cup {NaN}
  <2>1. CASE v \in Int /\ mu \in Int /\ M \in Int
    <3>1. NextMean(v, mu, member) \in Int
      BY <1>1, <2>1, ScaleAssumption DEF NextMean
    <3> QED
      BY <2>1, <3>1, ScaleAssumption DEF NextM2, WelfordTerm
  <2>2. CASE ~(v \in Int /\ mu \in Int /\ M \in Int)
    BY <2>2 DEF NextM2
  <2> QED
    BY <2>1, <2>2
<1>5. ASSUME NEW a \in Rows
      PROVE  mean'[a] \in [Cell -> Int \cup {NaN}] /\ m2'[a] \in [Cell -> Int \cup {NaN}]
  <2>1. CASE Receives(a, step)
    <3>1. mean'[a] = [c \in Cell |-> NextMean(bufOut[c], mean[a][c], member)]
      BY <2>1 DEF Accumulate
    <3>2. m2'[a] = [c \in Cell |-> NextM2(bufOut[c], m2[a][c], mean[a][c], mean'[a][c])]
      BY <2>1 DEF Accumulate
    <3>3. \A c \in Cell : mean'[a][c] = NextMean(bufOut[c], mean[a][c], member)
      BY <3>1
    <3> QED
      BY <1>2, <1>4, <3>1, <3>2, <3>3
  <2>2. CASE ~Receives(a, step)
    BY <1>1, <2>2, OtherRow DEF Accumulators
  <2> QED
    BY <2>1, <2>2
<1>6. ASSUME NEW a \in Rows
      PROVE  counter'[a] \in [Rules \X Nodes -> Nat]
  <2>1. CASE Receives(a, step)
    <3>1. counter'[a] = [p \in Rules \X Nodes |-> counter[a][p] +
             IF Hit(Rule(p[1]), bufOut[<<p[2], Rule(p[1]).channel>>]) THEN 1 ELSE 0]
      BY <2>1 DEF Accumulate
    <3>2. counter[a] \in [Rules \X Nodes -> Nat]
      BY <1>1 DEF Accumulators
    <3> QED
      BY <3>1, <3>2
  <2>2. CASE ~Receives(a, step)
    BY <1>1, <2>2, OtherRow DEF Accumulators
  <2> QED
    BY <2>1, <2>2
<1>7. DOMAIN mean' = Rows /\ DOMAIN m2' = Rows /\ DOMAIN counter' = Rows
  BY DEF Accumulate
<1>8. /\ mean' \in [Rows -> [Cell -> Int \cup {NaN}]]
      /\ m2' \in [Rows -> [Cell -> Int \cup {NaN}]]
      /\ counter' \in [Rows -> [Rules \X Nodes -> Nat]]
  <2>1. /\ mean' = [a \in Rows |-> mean'[a]] /\ m2' = [a \in Rows |-> m2'[a]]
        /\ counter' = [a \in Rows |-> counter'[a]]
    BY DEF Accumulate
  <2> QED
    BY <1>5, <1>6, <2>1
<1>9. /\ total' \in [Steps -> [Cell -> Int]] /\ squares' \in [Steps -> [Cell -> Int]]
      /\ poisoned' \in [Steps -> SUBSET Cell]
      /\ hits' \in [Steps -> [Rules \X Nodes -> Nat]]
  <2>1. /\ [c \in Cell |-> IF bufOut[c] \in Int THEN total[step][c] + bufOut[c] ELSE total[step][c]]
             \in [Cell -> Int]
        /\ [c \in Cell |-> IF bufOut[c] \in Int
             THEN squares[step][c] + bufOut[c] * bufOut[c] ELSE squares[step][c]] \in [Cell -> Int]
    BY <1>1 DEF Accumulators
  <2>2. total' \in [Steps -> [Cell -> Int]]
    BY <1>1, <2>1 DEF Tally, Accumulators
  <2>3. squares' \in [Steps -> [Cell -> Int]]
    BY <1>1, <2>1 DEF Tally, Accumulators
  <2>4. poisoned' \in [Steps -> SUBSET Cell]
    BY <1>1 DEF Tally, Accumulators
  <2>5. hits' \in [Steps -> [Rules \X Nodes -> Nat]]
    BY <1>1 DEF Tally, Accumulators
  <2> QED
    BY <2>2, <2>3, <2>4, <2>5
<1> QED
  BY <1>1, <1>8, <1>9 DEF Accumulators

(* Aggregating a member keeps every row exact.                              *)
LEMMA AggregateKeeps == ASSUME IInv, Aggregate PROVE IInv'
<1>1. AggregateFacts /\ Accumulate /\ Tally
  BY AggregateReads DEF Aggregate
<1>2. Rows' = Rows /\ Rules' = Rules /\ Steps' = Steps /\ Accumulators /\ step \in Steps
  BY <1>1 DEF AggregateFacts, Rows, Rules, Threshold, Steps
<1>3. Control' /\ Buffers' /\ RowsTyped'
  <2>1. Control'
    BY <1>1, <1>2 DEF AggregateFacts, Control, Valid, Live
  <2>2. Buffers'
    BY <1>1 DEF AggregateFacts, Buffers
  <2>3. RowsTyped'
    BY <1>1, <1>2 DEF AggregateFacts, RowsTyped
  <2> QED
    BY <2>1, <2>2, <2>3
<1>4. Accumulators'
  BY <1>1, AggregateTypes
<1>5. ASSUME NEW a \in Rows, Receives(a, step)
      PROVE  /\ ExactRow(a, agg[a])' /\ Added(agg[a])' # 0
             /\ \A p \in (Rules \X Nodes)' : counter'[a][p] <= Added(agg[a])'
  <2>1. agg'[a] = step /\ step' = step /\ LastOfStep(a)
    BY <1>1, <1>5 DEF AggregateFacts, Receives, LastOfStep
  <2>2. Added(agg[a])' = member /\ member \in Int /\ member > 0
    BY <1>1, <2>1 DEF AggregateFacts, Added
  <2>3. ExactRow(a, agg[a])'
    BY <1>1, <1>5, <2>1, <2>2, ReceivingCell, ReceivingCounter DEF ExactRow
  <2>4. \A p \in Rules \X Nodes : counter[a][p] <= member - 1
    <3>1. Added(agg[a]) = member - 1
      BY <1>1, <1>2, <2>1 DEF AggregateFacts, Added, Steps
    <3> QED
      BY <1>1, <3>1 DEF AggregateFacts, Exact
  <2>5. ASSUME NEW p \in Rules \X Nodes PROVE counter'[a][p] <= member
    <3>1. counter[a][p] \in Nat
      BY <1>2 DEF Accumulators
    <3>2. counter'[a][p] = counter[a][p] +
             IF Hit(Rule(p[1]), bufOut[<<p[2], Rule(p[1]).channel>>]) THEN 1 ELSE 0
      BY <1>1, <1>5 DEF Accumulate
    <3> QED
      BY <2>2, <2>4, <3>1, <3>2
  <2> QED
    BY <1>2, <2>2, <2>3, <2>5
<1>6. ASSUME NEW a \in Rows, ~Receives(a, step)
      PROVE  /\ LastOfStep(a)' => ExactRow(a, agg[a])'
             /\ LastOfStep(a)' /\ Added(agg[a])' = 0 => Untouched(a)'
             /\ \A p \in (Rules \X Nodes)' : counter'[a][p] <= Added(agg[a])'
  <2>1. mean'[a] = mean[a] /\ m2'[a] = m2[a] /\ counter'[a] = counter[a]
    BY <1>1, <1>6, OtherRow
  <2>2. /\ LastOfStep(a) => ExactRow(a, agg[a])
        /\ (LastOfStep(a) /\ Added(agg[a]) = 0) => Untouched(a)
        /\ \A p \in Rules \X Nodes : counter[a][p] <= Added(agg[a])
    BY <1>1 DEF AggregateFacts, Exact
  <2>3. agg[a] \in Steps /\ agg' = agg
    BY <1>1 DEF AggregateFacts, RowsTyped
  <2>4. /\ agg[a] # step => Added(agg[a])' = Added(agg[a])
        /\ Added(agg[a]) <= Added(agg[a])'
        /\ Added(agg[a]) \in Int /\ Added(agg[a])' \in Int
    BY <1>1, <1>2, <2>3 DEF AggregateFacts, Added, Steps
  <2>5. LastOfStep(a)' => LastOfStep(a) /\ agg[a] # step
    BY <1>2, <1>6, <2>3 DEF LastOfStep, Receives
  <2>6. agg[a] # step => /\ total'[agg[a]] = total[agg[a]] /\ squares'[agg[a]] = squares[agg[a]]
                         /\ poisoned'[agg[a]] = poisoned[agg[a]] /\ hits'[agg[a]] = hits[agg[a]]
    BY <1>1, <1>2, <2>3, TallyFacts
  <2>7. agg[a] # step => /\ ExactRow(a, agg[a]) => ExactRow(a, agg[a])'
                         /\ Untouched(a) => Untouched(a)'
    BY <2>1, <2>3, <2>4, <2>6 DEF ExactRow, Untouched
  <2>8. ASSUME NEW p \in Rules \X Nodes PROVE counter'[a][p] <= Added(agg[a])'
    <3>1. counter[a][p] \in Nat
      BY <1>2 DEF Accumulators
    <3> QED
      BY <2>1, <2>2, <2>4, <3>1
  <2> QED
    BY <1>2, <2>2, <2>4, <2>5, <2>7, <2>8
<1>7. Exact'
  BY <1>2, <1>5, <1>6 DEF Exact
<1> QED
  BY <1>3, <1>4, <1>7 DEF IInv, Typed

-----------------------------------------------------------------------------

(* Every step of the specification keeps the invariant.                     *)
LEMMA StepInv == IInv /\ [Next]_vars => IInv'
<1> SUFFICES ASSUME IInv, [Next]_vars PROVE IInv'
  OBVIOUS
<1>1. CASE Refuse
  BY <1>1, StopKeeps
<1>2. CASE Accept
  BY <1>2, AcceptKeeps
<1>3. ASSUME NEW noise \in Draws, StartMember(noise) PROVE IInv'
  BY <1>3, StartKeeps
<1>4. ASSUME NEW noise \in Draws, Feed(noise) PROVE IInv'
  BY <1>4, FeedKeeps
<1>5. CASE RunGraph
  BY <1>5, RunKeeps
<1>6. CASE RunFails
  BY <1>6, StopKeeps
<1>7. CASE Aggregate
  BY <1>7, AggregateKeeps
<1>8. CASE Finalise
  BY <1>8, FinaliseKeeps
<1>9. CASE UNCHANGED vars
  <2>1. /\ UNCHANGED <<phase, request, initial, agg, member, step, bufIn, bufOut>>
        /\ UNCHANGED kept
    BY <1>9 DEF vars, inputs, sums, kept
  <2>2. (Live' = Live) /\ Control' /\ Buffers'
    <3>1. Live' = Live
      BY <2>1 DEF Live
    <3>2. Control'
      BY <2>1 DEF IInv, Typed, Control, Live, Valid, Steps
    <3>3. Buffers'
      BY <2>1 DEF IInv, Typed, Buffers
    <3> QED
      BY <3>1, <3>2, <3>3
  <2>3. Live => RowsTyped' /\ Accumulators'
    BY <2>1, TypesStay DEF IInv, Typed
  <2>4. \A s \in Steps : Added(s)' = Added(s)
    BY <2>1 DEF Added
  <2>5. Exact'
    BY <2>1, <2>2, <2>4, ExactStays DEF IInv, Typed
  <2> QED
    BY <2>2, <2>3, <2>5 DEF IInv, Typed
<1> QED
  BY <1>1, <1>2, <1>3, <1>4, <1>5, <1>6, <1>7, <1>8, <1>9 DEF Next

(* What the invariant says of the checked properties.                       *)
LEMMA InvImplies == IInv => TypeOK /\ GraphInputFinite
<1> SUFFICES ASSUME IInv PROVE TypeOK /\ GraphInputFinite
  OBVIOUS
<1>1. GraphInputFinite
  BY DEF IInv, Typed, Buffers, GraphInputFinite
<1>2. ASSUME Live PROVE counter \in [Rows -> [Rules \X Nodes -> 0 .. member]]
  <2>1. Accumulators /\ RowsTyped /\ Control /\ Exact
    BY <1>2 DEF IInv, Typed
  <2>2. request.members \in Int /\ member \in 0 .. request.members
    BY <1>2, <2>1, RequestFacts DEF Control
  <2>3. ASSUME NEW a \in Rows, NEW p \in Rules \X Nodes PROVE counter[a][p] \in 0 .. member
    <3>1. counter[a][p] \in Nat /\ counter[a][p] <= Added(agg[a])
      BY <1>2, <2>1 DEF Accumulators, Exact
    <3>2. Added(agg[a]) \in {member, member - 1}
      BY DEF Added
    <3> QED
      BY <2>2, <3>1, <3>2
  <2> QED
    BY <2>1, <2>3 DEF Accumulators
<1>3. TypeOK
  BY <1>2 DEF IInv, Typed, TypeOK, Control, RowsTyped, Accumulators
<1> QED
  BY <1>1, <1>3

(* The invariant holds throughout.                                          *)
THEOREM Inductive == Spec => []IInv
<1> QED
  BY InitInv, StepInv, PTL DEF Spec

(* Every variable keeps its type; no counter exceeds the members that ran.  *)
THEOREM TypeCorrect == Spec => []TypeOK
<1> QED
  BY Inductive, InvImplies, PTL

(* The session is only ever run on a finite state.                          *)
THEOREM FiniteInputs == Spec => []GraphInputFinite
<1> QED
  BY Inductive, InvImplies, PTL

-----------------------------------------------------------------------------
(* Without noise.  No member may see what an earlier one left: the outputs  *)
(* of the steps are then one sequence T, and every member adds T again.     *)

Quiet == \A ch \in Channels : ScaleOf(request, ch) <= 0

Outputs == [Steps -> [Cell -> Value]]

Input(T, s) == IF s = 0 THEN Sanitise(initial) ELSE Sanitise(T[s - 1])

(* The members added at step s all yielded T[s].                            *)
Alike(T, s) ==
  /\ T[s] = Graph(Input(T, s))
  /\ \A c \in Cell :
       /\ T[s][c] \notin Int => c \in poisoned[s]
       /\ T[s][c] \in Int => /\ c \notin poisoned[s]
                             /\ total[s][c] = Added(s) * T[s][c]
                             /\ squares[s][c] = Added(s) * (T[s][c] * T[s][c])

Unreached(s) ==
  poisoned[s] = {} /\ \A c \in Cell : total[s][c] = 0 /\ squares[s][c] = 0

Repetition(T) ==
  /\ \A s \in Steps : /\ Added(s) = 0 => Unreached(s)
                      /\ Added(s) # 0 => Alike(T, s)
  /\ phase \in {"run", "aggregate"} => bufIn = Input(T, step)
  /\ phase \in {"aggregate", "feed"} => bufOut = Graph(Input(T, step))

Repeats == Live /\ Quiet => \E T \in Outputs : Repetition(T)

(* A row that is not the last of its step is never written.                 *)
Passed == Live => \A a \in Rows : ~LastOfStep(a) => Unwritten(a)

(* The result shows, under each name, the last rule of that name.           *)
Reported == phase = "done" => maps = [n \in {NameOf(r) : r \in Rules} |-> LastNamed(n)]

Further == IInv /\ Repeats /\ Passed /\ Reported

(* Without a positive scale perturb changes nothing.                        *)
LEMMA QuietDraw ==
  ASSUME Quiet, request \in Requests
  PROVE  \A x, noise : Sanitise(Perturbed(x, noise)) = Sanitise(x)
<1>1. ASSUME NEW ch \in Channels PROVE ~(ScaleOf(request, ch) > 0)
  <2>1. ScaleOf(request, ch) <= 0
    BY DEF Quiet
  <2>2. ch[1] \in Vars
    BY DEF Channels
  <2>3. ScaleOf(request, ch) \in Int
    BY <2>2, RequestAssumption DEF ScaleOf
  <2> QED
    BY <2>1, <2>3
<1>2. ASSUME NEW x, NEW noise PROVE Sanitise(Perturbed(x, noise)) = Sanitise(x)
  <2>1. \A c \in Cell : Perturbed(x, noise)[c] = x[c]
    BY <1>1 DEF Perturbed, Cell
  <2> QED
    BY <2>1 DEF Sanitise
<1> QED
  BY <1>2

(* What one more equal output does to the sums.                             *)
LEMMA OneMore ==
  ASSUME NEW m \in Int, NEW v \in Int
  PROVE  (m - 1) * v + v = m * v
OBVIOUS

(* Equal values have no spread.                                             *)
LEMMA NoSquares ==
  ASSUME NEW n \in Int, NEW v \in Int
  PROVE  n * (n * (v * v)) - (n * v) * (n * v) = 0
OBVIOUS

(* The sums of a step stay when nothing is added anywhere.                  *)
LEMMA AlikeStays ==
  ASSUME UNCHANGED kept, \A s \in Steps : Added(s)' = Added(s), NEW T
  PROVE  /\ Steps' = Steps /\ \A s : Input(T, s)' = Input(T, s)
         /\ \A s \in Steps : /\ Unreached(s) => Unreached(s)'
                             /\ Alike(T, s) => Alike(T, s)'
<1>1. /\ request' = request /\ initial' = initial /\ total' = total
      /\ squares' = squares /\ poisoned' = poisoned
  BY DEF kept, inputs
<1>2. Steps' = Steps /\ \A s : Input(T, s)' = Input(T, s)
  BY <1>1 DEF Steps, Input
<1>3. ASSUME NEW s \in Steps
      PROVE  /\ Unreached(s) => Unreached(s)'
             /\ Alike(T, s) => Alike(T, s)'
  <2>1. Added(s)' = Added(s)
    OBVIOUS
  <2>2. Unreached(s) => Unreached(s)'
    BY <1>1 DEF Unreached
  <2>3. Alike(T, s) => Alike(T, s)'
    BY <1>1, <1>2, <2>1 DEF Alike
  <2> QED
    BY <2>2, <2>3
<1> QED
  BY <1>2, <1>3

(* So it is enough that the buffers hold what T says.                       *)
LEMMA RepeatsStays ==
  ASSUME UNCHANGED kept, \A s \in Steps : Added(s)' = Added(s),
         Repeats, Live' => Live,
         \A T \in Outputs : Quiet /\ Repetition(T) =>
            /\ phase' \in {"run", "aggregate"} => bufIn' = Input(T, step')
            /\ phase' \in {"aggregate", "feed"} => bufOut' = Graph(Input(T, step'))
  PROVE  Repeats'
<1> SUFFICES ASSUME Live', Quiet' PROVE \E T \in Outputs' : Repetition(T)'
  BY DEF Repeats
<1>1. request' = request /\ Live
  BY DEF kept, inputs
<1>2. Quiet /\ Outputs' = Outputs
  BY <1>1 DEF Quiet, Outputs, Steps, ScaleOf
<1>3. PICK T \in Outputs : Repetition(T)
  BY <1>1, <1>2 DEF Repeats
<1>4. /\ Steps' = Steps /\ \A s : Input(T, s)' = Input(T, s)
      /\ \A s \in Steps : /\ Unreached(s) => Unreached(s)'
                          /\ Alike(T, s) => Alike(T, s)'
  BY AlikeStays
<1>5. \A s \in Steps : /\ Added(s)' = 0 => Unreached(s)'
                       /\ Added(s)' # 0 => Alike(T, s)'
  BY <1>3, <1>4 DEF Repetition
<1>6. Input(T, step)' = Input(T, step')
  BY DEF kept, inputs, Input
<1>7. Repetition(T)'
  BY <1>2, <1>3, <1>4, <1>5, <1>6 DEF Repetition
<1> QED
  BY <1>2, <1>7

(* A member that is aggregated adds to each step what the others added.     *)
LEMMA AggregateRepeats == ASSUME IInv, Repeats, Aggregate PROVE Repeats'
<1> SUFFICES ASSUME Live', Quiet' PROVE \E T \in Outputs' : Repetition(T)'
  BY DEF Repeats
<1>1. AggregateFacts /\ Tally
  BY AggregateReads DEF Aggregate
<1>2. /\ request' = request /\ initial' = initial /\ step' = step /\ member' = member
      /\ phase = "aggregate" /\ phase' = "feed" /\ bufOut' = bufOut /\ Live
      /\ bufOut \in [Cell -> Value] /\ step \in Steps /\ member \in Int /\ member >= 1
      /\ Accumulators /\ request.steps \in Int /\ request \in Requests
  BY <1>1, RequestFacts DEF AggregateFacts
<1>3. /\ Quiet /\ Outputs' = Outputs /\ Steps' = Steps
      /\ \A T, s : Input(T, s)' = Input(T, s)
  BY <1>2 DEF Quiet, Outputs, Steps, ScaleOf, Input
<1>4. PICK T \in Outputs : Repetition(T)
  BY <1>2, <1>3 DEF Repeats
<1>5. /\ T \in [Steps -> [Cell -> Value]] /\ bufOut = Graph(Input(T, step))
      /\ \A s \in Steps : s \in Int /\ 0 <= s /\ (s > 0 => s - 1 \in Steps)
  BY <1>2, <1>4 DEF Repetition, Outputs, Steps
<1>6. PICK U \in Outputs : U[step] = bufOut /\ \A s \in Steps : s # step => U[s] = T[s]
  <2>1. [T EXCEPT ![step] = bufOut] \in Outputs
    BY <1>2, <1>5 DEF Outputs
  <2> QED
    BY <1>2, <1>5, <2>1
<1>7. /\ Added(step)' = member /\ Added(step) = member - 1
      /\ \A s \in Steps : s # step =>
           /\ Added(s)' = Added(s)
           /\ Added(s) # 0 => s <= step \/ member # 1
  <2>1. step \in Int
    BY <1>2, <1>5
  <2>2. Added(step)' = member /\ Added(step) = member - 1
    BY <1>2, <2>1 DEF Added
  <2>3. ASSUME NEW s \in Steps, s # step
        PROVE  Added(s)' = Added(s) /\ (Added(s) # 0 => s <= step \/ member # 1)
    <3>1. s \in Int
      BY <1>5
    <3> QED
      BY <1>2, <2>1, <2>3, <3>1 DEF Added
  <2> QED
    BY <2>2, <2>3
<1>8. member # 1 => U[step] = T[step]
  <2>1. ASSUME member # 1 PROVE Alike(T, step)
    <3>1. Added(step) # 0
      BY <1>2, <1>5, <1>7, <2>1
    <3> QED
      BY <1>2, <1>4, <3>1 DEF Repetition
  <2> QED
    BY <1>5, <1>6, <2>1 DEF Alike
<1>9. ASSUME NEW s \in Steps, s <= step \/ member # 1
      PROVE  Input(U, s) = Input(T, s)
  <2>1. CASE s = 0
    BY <2>1 DEF Input
  <2>2. CASE s # 0
    <3>1. s - 1 \in Steps /\ (s - 1 = step => member # 1)
      BY <1>2, <1>5, <1>9, <2>2
    <3>2. U[s - 1] = T[s - 1]
      BY <1>6, <1>8, <3>1
    <3> QED
      BY <2>2, <3>2 DEF Input
  <2> QED
    BY <2>1, <2>2
<1>10. Input(U, step)' = Input(T, step) /\ bufOut' = Graph(Input(U, step)')
  <2>1. Input(U, step)' = Input(U, step)
    BY <1>2 DEF Input
  <2>2. step \in Int
    BY <1>2, <1>5 DEF Steps
  <2> QED
    BY <1>2, <1>5, <1>9, <2>1, <2>2
<1>12. Alike(U, step)'
  <2>1. U[step] = Graph(Input(U, step)')
    BY <1>2, <1>6, <1>10
  <2>2. Added(step)' = member
    BY <1>7
  <2>3. ASSUME NEW c \in Cell
        PROVE  /\ bufOut[c] \notin Int => c \in poisoned'[step]
               /\ bufOut[c] \in Int => /\ c \notin poisoned'[step]
                                       /\ total'[step][c] = member * bufOut[c]
                                       /\ squares'[step][c] = member * (bufOut[c] * bufOut[c])
    <3>1. c \in poisoned'[step] <=> c \in poisoned[step] \/ bufOut[c] \notin Int
      BY <1>1, <1>2, TallyFacts
    <3>2. ASSUME bufOut[c] \in Int
          PROVE  /\ c \notin poisoned[step]
                 /\ total[step][c] = (member - 1) * bufOut[c]
                 /\ squares[step][c] = (member - 1) * (bufOut[c] * bufOut[c])
      <4>1. CASE member = 1
        <5>1. Added(step) = 0
          BY <1>7, <4>1
        <5>2. Unreached(step)
          BY <1>2, <1>4, <5>1 DEF Repetition
        <5>3. total[step][c] = 0 /\ squares[step][c] = 0 /\ c \notin poisoned[step]
          BY <5>2 DEF Unreached
        <5> QED
          BY <3>2, <4>1, <5>3
      <4>2. CASE member # 1
        <5>1. Added(step) = member - 1 /\ Added(step) # 0
          BY <1>2, <1>7, <4>2
        <5>2. Alike(T, step)
          BY <1>2, <1>4, <5>1 DEF Repetition
        <5>3. T[step] = bufOut
          BY <1>6, <1>8, <4>2
        <5> QED
          BY <3>2, <5>1, <5>2, <5>3 DEF Alike
      <4> QED
        BY <4>1, <4>2
    <3>3. bufOut[c] \in Int =>
            /\ total'[step][c] = total[step][c] + bufOut[c]
            /\ squares'[step][c] = squares[step][c] + bufOut[c] * bufOut[c]
      BY <1>1, <1>2, TallyFacts
    <3>4. ASSUME bufOut[c] \in Int
          PROVE  /\ total'[step][c] = member * bufOut[c]
                 /\ squares'[step][c] = member * (bufOut[c] * bufOut[c])
      <4>1. bufOut[c] * bufOut[c] \in Int
        BY <3>4
      <4>2. total'[step][c] = (member - 1) * bufOut[c] + bufOut[c]
        BY <3>2, <3>3, <3>4
      <4>3. squares'[step][c] = (member - 1) * (bufOut[c] * bufOut[c]) + bufOut[c] * bufOut[c]
        BY <3>2, <3>3, <3>4
      <4> QED
        BY <1>2, <3>4, <4>1, <4>2, <4>3, OneMore
    <3> QED
      BY <3>1, <3>2, <3>4
  <2>4. \A c \in Cell : U[step][c] = bufOut[c]
    BY <1>6
  <2> QED
    BY <1>2, <1>6, <2>1, <2>2, <2>3, <2>4 DEF Alike
<1>11. ASSUME NEW s \in Steps, s # step
       PROVE  /\ Added(s)' = 0 => Unreached(s)'
              /\ Added(s)' # 0 => Alike(U, s)'
  <2>1. /\ total'[s] = total[s] /\ squares'[s] = squares[s] /\ poisoned'[s] = poisoned[s]
    BY <1>1, <1>2, <1>11, TallyFacts
  <2>2. Added(s)' = Added(s) /\ (Added(s) # 0 => s <= step \/ member # 1)
    BY <1>7, <1>11
  <2>3. Unreached(s) => Unreached(s)'
    BY <2>1 DEF Unreached
  <2>4. Added(s) # 0 /\ Alike(T, s) => Alike(U, s)'
    <3>1. U[s] = T[s]
      BY <1>6, <1>11
    <3>2. Added(s) # 0 => Input(U, s)' = Input(T, s)
      BY <1>3, <1>9, <2>2
    <3> QED
      BY <2>1, <2>2, <3>1, <3>2 DEF Alike
  <2> QED
    BY <1>4, <2>2, <2>3, <2>4 DEF Repetition
<1>13. ASSUME NEW s \in Steps
       PROVE  (/\ Added(s) = 0 => Unreached(s)
               /\ Added(s) # 0 => Alike(U, s))'
  <2>1. CASE s = step
    <3>1. Added(step)' # 0
      BY <1>2, <1>7
    <3> QED
      BY <1>2, <1>12, <2>1, <3>1
  <2>2. CASE s # step
    BY <1>11, <2>2
  <2> QED
    BY <2>1, <2>2
<1>14. Repetition(U)'
  <2>1. /\ phase' \notin {"run", "aggregate"}
        /\ bufOut' = Graph(Input(U, step)')
    BY <1>2, <1>10
  <2> QED
    BY <1>3, <1>13, <2>1 DEF Repetition
<1> QED
  BY <1>3, <1>14

(* The other steps of an accepted request.                                  *)
LEMMA StartRepeats ==
  ASSUME IInv, Repeats, NEW noise, StartMember(noise) PROVE Repeats'
<1>1. /\ phase = "member" /\ phase' = "run" /\ member' = member + 1 /\ step' = 0
      /\ bufIn' = Sanitise(Perturbed(MemberStart, noise)) /\ UNCHANGED kept
  BY DEF StartMember, inputs, sums, kept
<1>2. Live /\ request \in Requests /\ request.steps \in Int /\ member \in Int
  BY <1>1, RequestFacts DEF IInv, Typed, Control, Live
<1>3. \A s \in Steps : Added(s)' = Added(s)
  BY <1>1, <1>2 DEF Added, Steps
<1>4. ASSUME NEW T \in Outputs, Quiet PROVE bufIn' = Input(T, step')
  BY <1>1, <1>2, <1>4, QuietDraw DEF Input, MemberStart
<1> QED
  BY <1>1, <1>2, <1>3, <1>4, RepeatsStays

(* A run yields what T says, from what T says.                              *)
LEMMA RunRepeats == ASSUME IInv, Repeats, RunGraph PROVE Repeats'
<1>1. /\ phase = "run" /\ phase' = "aggregate" /\ member' = member /\ step' = step
      /\ bufIn' = bufIn /\ bufOut' = Graph(bufIn) /\ UNCHANGED kept
  BY DEF RunGraph, inputs, sums, kept
<1>2. Live
  BY <1>1 DEF Live
<1>3. \A s \in Steps : Added(s)' = Added(s)
  BY <1>1 DEF Added
<1>4. ASSUME NEW T \in Outputs, Repetition(T)
      PROVE  bufIn' = Input(T, step') /\ bufOut' = Graph(Input(T, step'))
  BY <1>1, <1>4 DEF Repetition
<1> QED
  BY <1>1, <1>2, <1>3, <1>4, RepeatsStays

(* What is fed back is the output T says, sanitised.                        *)
LEMMA FeedRepeats ==
  ASSUME IInv, Repeats, NEW noise, Feed(noise) PROVE Repeats'
<1>1. /\ phase = "feed" /\ member' = member /\ UNCHANGED kept
      /\ phase' \in {"run", "member"}
      /\ phase' = "run" => step' = step + 1 /\ bufIn' = Sanitise(Perturbed(bufOut, noise))
  BY DEF Feed, inputs, sums, kept
<1>2. /\ Live /\ request \in Requests /\ request.steps \in Int /\ step \in Steps
      /\ member \in Int /\ member >= 1 /\ step \in Int /\ step >= 0
  BY <1>1, RequestFacts DEF IInv, Typed, Control, Live, Steps
<1>3. \A s \in Steps : Added(s)' = Added(s)
  BY <1>1, <1>2 DEF Added, Steps, Feed
<1>4. ASSUME NEW T \in Outputs, Quiet, Repetition(T), phase' = "run"
      PROVE  bufIn' = Input(T, step')
  <2>1. Added(step) # 0
    BY <1>1, <1>2 DEF Added
  <2>2. T[step] = bufOut
    BY <1>1, <1>2, <1>4, <2>1 DEF Repetition, Alike
  <2>3. bufIn' = Sanitise(T[step])
    BY <1>1, <1>2, <1>4, <2>2, QuietDraw
  <2>4. step' # 0 /\ step' - 1 = step
    BY <1>1, <1>2, <1>4
  <2> QED
    BY <2>3, <2>4 DEF Input
<1> QED
  BY <1>1, <1>2, <1>3, <1>4, RepeatsStays

(* Nothing is added at the end.                                             *)
LEMMA FinaliseRepeats == ASSUME IInv, Repeats, Finalise PROVE Repeats'
<1>1. /\ phase = "member" /\ phase' = "done" /\ member' = member /\ step' = step
      /\ UNCHANGED kept
  BY DEF Finalise, inputs, kept
<1>2. Live
  BY <1>1 DEF Live
<1>3. \A s \in Steps : Added(s)' = Added(s)
  BY <1>1 DEF Added
<1> QED
  BY <1>1, <1>2, <1>3, RepeatsStays

(* Nothing has been added when the request is accepted.                     *)
LEMMA AcceptRepeats == ASSUME IInv, Accept PROVE Repeats'
<1>1. /\ phase = "new" /\ phase' = "member" /\ member' = member /\ step' = step
      /\ request' = request
      /\ total' = [s \in Steps |-> Zeros(Cell)] /\ squares' = [s \in Steps |-> Zeros(Cell)]
      /\ poisoned' = [s \in Steps |-> {}]
  BY DEF Accept
<1>2. member = 0
  BY <1>1 DEF IInv, Typed, Control
<1>3. Steps' = Steps /\ Outputs' = Outputs
  BY <1>1 DEF Steps, Outputs
<1>4. PICK T : T \in Outputs
  <2>1. [s \in Steps |-> Zeros(Cell)] \in Outputs
    BY DEF Outputs, Zeros, Value
  <2> QED
    BY <2>1
<1>5. ASSUME NEW s \in Steps
      PROVE  (/\ Added(s) = 0 => Unreached(s)
              /\ Added(s) # 0 => Alike(T, s))'
  <2>1. Added(s)' = 0
    BY <1>1, <1>2 DEF Added
  <2>2. Unreached(s)'
    BY <1>1 DEF Unreached, Zeros
  <2> QED
    BY <2>1, <2>2
<1>6. Repetition(T)'
  <2>1. phase' \notin {"run", "aggregate"} /\ phase' \notin {"aggregate", "feed"}
    BY <1>1
  <2> QED
    BY <1>3, <1>5, <2>1 DEF Repetition
<1> QED
  BY <1>3, <1>4, <1>6 DEF Repeats

(* The rows that are not the last of their step.                            *)
LEMMA PassedStays ==
  ASSUME Passed, Live' => Live, agg' = agg, request' = request,
         \A a \in Rows : ~LastOfStep(a) =>
           mean'[a] = mean[a] /\ m2'[a] = m2[a] /\ counter'[a] = counter[a]
  PROVE  Passed'
<1> SUFFICES ASSUME Live' PROVE Passed'
  BY DEF Passed
<1>1. Rows' = Rows /\ Rules' = Rules
  BY DEF Rows, Rules, Threshold
<1>2. ASSUME NEW a \in Rows, ~LastOfStep(a)' PROVE Unwritten(a)'
  <2>1. ~LastOfStep(a)
    BY <1>1, <1>2 DEF LastOfStep
  <2> QED
    BY <1>1, <2>1 DEF Passed, Unwritten
<1> QED
  BY <1>1, <1>2 DEF Passed

(* The further invariant holds at first.                                    *)
LEMMA FurtherInit == Init => Further
<1> SUFFICES ASSUME Init PROVE Further
  OBVIOUS
<1>1. phase = "new"
  BY DEF Init
<1>2. Repeats /\ Passed /\ Reported
  BY <1>1 DEF Repeats, Passed, Reported, Live
<1> QED
  BY <1>2, InitInv DEF Further

(* Every step keeps what is said of the rows and of the result.             *)
LEMMA PassedKept == ASSUME IInv, Passed, [Next]_vars PROVE Passed'
<1>1. CASE Refuse \/ RunFails
  BY <1>1 DEF Refuse, RunFails, Passed, Live
<1>2. CASE Accept
  <2>1. /\ mean' = [a \in Rows' |-> Zeros(Cell)] /\ m2' = [a \in Rows' |-> Zeros(Cell)]
        /\ counter' = [a \in Rows' |-> Zeros(Rules' \X Nodes)]
    BY <1>2 DEF Accept, Rows, Rules, Threshold
  <2> QED
    BY <2>1 DEF Passed, Unwritten
<1>3. ASSUME NEW noise, StartMember(noise) \/ Feed(noise) PROVE Passed'
  <2>1. /\ phase \in {"member", "feed"} /\ agg' = agg /\ request' = request
        /\ mean' = mean /\ m2' = m2 /\ counter' = counter
    BY <1>3 DEF StartMember, Feed, inputs, sums
  <2> QED
    BY <2>1, PassedStays DEF Live
<1>4. CASE RunGraph \/ Finalise
  <2>1. /\ phase \in {"member", "run"} /\ agg' = agg /\ request' = request
        /\ mean' = mean /\ m2' = m2 /\ counter' = counter
    BY <1>4 DEF RunGraph, Finalise, inputs, sums
  <2> QED
    BY <2>1, PassedStays DEF Live
<1>5. CASE Aggregate
  <2>1. phase = "aggregate" /\ agg' = agg /\ request' = request /\ Accumulate
    BY <1>5 DEF Aggregate, inputs
  <2>2. ASSUME NEW a \in Rows, ~LastOfStep(a)
        PROVE  mean'[a] = mean[a] /\ m2'[a] = m2[a] /\ counter'[a] = counter[a]
    <3>1. ~Receives(a, step)
      BY <2>2 DEF Receives, LastOfStep
    <3> QED
      BY <2>1, <3>1, OtherRow
  <2> QED
    BY <2>1, <2>2, PassedStays DEF Live
<1>6. CASE UNCHANGED vars
  <2>1. /\ phase' = phase /\ agg' = agg /\ request' = request
        /\ mean' = mean /\ m2' = m2 /\ counter' = counter
    BY <1>6 DEF vars, inputs, sums
  <2> QED
    BY <2>1, PassedStays DEF Live
<1> QED
  BY <1>1, <1>2, <1>3, <1>4, <1>5, <1>6 DEF Next

(* The maps are set once, from the rules of the request.                    *)
LEMMA ReportedKept == ASSUME Reported, [Next]_vars PROVE Reported'
<1> SUFFICES ASSUME phase' = "done"
             PROVE  (maps = [n \in {NameOf(r) : r \in Rules} |-> LastNamed(n)])'
  BY DEF Reported
<1>1. CASE Finalise
  BY <1>1 DEF Finalise, inputs, NameOf, Rules, Threshold, LastNamed
<1>2. CASE UNCHANGED vars
  BY <1>2 DEF vars, inputs, sums, Reported, NameOf, Rules, Threshold, LastNamed
<1> QED
  BY <1>1, <1>2 DEF Next, Refuse, Accept, StartMember, Feed, RunGraph, RunFails, Aggregate

(* Every step of the specification keeps the further invariant.             *)
LEMMA FurtherStep == Further /\ [Next]_vars => Further'
<1> SUFFICES ASSUME Further, [Next]_vars PROVE Further'
  OBVIOUS
<1>1. IInv' /\ Passed' /\ Reported'
  BY StepInv, PassedKept, ReportedKept DEF Further
<1>2. Repeats'
  <2>1. CASE Refuse \/ RunFails
    BY <2>1 DEF Refuse, RunFails, Repeats, Live
  <2>2. CASE Accept
    BY <2>2, AcceptRepeats DEF Further
  <2>3. ASSUME NEW noise \in Draws, StartMember(noise) PROVE Repeats'
    BY <2>3, StartRepeats DEF Further
  <2>4. ASSUME NEW noise \in Draws, Feed(noise) PROVE Repeats'
    BY <2>4, FeedRepeats DEF Further
  <2>5. CASE RunGraph
    BY <2>5, RunRepeats DEF Further
  <2>6. CASE Aggregate
    BY <2>6, AggregateRepeats DEF Further
  <2>7. CASE Finalise
    BY <2>7, FinaliseRepeats DEF Further
  <2>8. CASE UNCHANGED vars
    <3>1. /\ UNCHANGED <<phase, member, step, bufIn, bufOut>> /\ UNCHANGED kept
      BY <2>8 DEF vars, inputs, sums, kept
    <3>2. (\A s \in Steps : Added(s)' = Added(s)) /\ (Live' => Live)
      BY <3>1 DEF Added, Live
    <3>3. ASSUME NEW T \in Outputs, Repetition(T)
          PROVE  /\ phase' \in {"run", "aggregate"} => bufIn' = Input(T, step')
                 /\ phase' \in {"aggregate", "feed"} => bufOut' = Graph(Input(T, step'))
      BY <3>1, <3>3 DEF Repetition
    <3> QED
      BY <3>1, <3>2, <3>3, RepeatsStays DEF Further
  <2> QED
    BY <2>1, <2>2, <2>3, <2>4, <2>5, <2>6, <2>7, <2>8 DEF Next
<1> QED
  BY <1>1, <1>2 DEF Further

(* Equal pairs have equal parts.                                            *)
LEMMA Pairs ==
  ASSUME NEW a, NEW b, NEW c, NEW d, <<a, b>> = <<c, d>>
  PROVE  a = c /\ b = d
OBVIOUS

(* Two rules of one name are one rule, as long as no threshold carries a    *)
(* level in its name.                                                       *)
LEMMA OneName ==
  ASSUME request \in Requests,
         \A i \in DOMAIN request.thresholds : request.thresholds[i].name \in Labels,
         NEW r \in Rules, NEW q \in Rules, NameOf(r) = NameOf(q)
  PROVE  r = q
<1>1. /\ r[1] \in DOMAIN request.thresholds /\ r[2] \in Levels
      /\ q[1] \in DOMAIN request.thresholds /\ q[2] \in Levels
      /\ r = <<r[1], r[2]>> /\ q = <<q[1], q[2]>>
      /\ Threshold(r).level \in {AllLevels, r[2]} /\ Threshold(q).level \in {AllLevels, q[2]}
  BY DEF Rules
<1>2. /\ Threshold(r).name \in Labels /\ Threshold(q).name \in Labels
      /\ <<Threshold(r).name, r[2]>> \notin Labels /\ <<Threshold(q).name, q[2]>> \notin Labels
  BY <1>1, LabelAssumption DEF Threshold
<1>3. Threshold(r).name = Threshold(q).name => r[1] = q[1]
  BY <1>1, RequestAssumption DEF Threshold
<1>4. CASE Threshold(r).level = AllLevels
  <2>1. NameOf(r) = <<Threshold(r).name, r[2]>>
    BY <1>4 DEF NameOf
  <2>2. NameOf(q) # Threshold(q).name
    BY <1>2, <2>1
  <2>3. NameOf(q) = <<Threshold(q).name, q[2]>>
    BY <2>2 DEF NameOf
  <2>4. Threshold(r).name = Threshold(q).name /\ r[2] = q[2]
    <3>1. <<Threshold(r).name, r[2]>> = <<Threshold(q).name, q[2]>>
      BY <2>1, <2>3
    <3> QED
      BY <3>1, Pairs
  <2> QED
    BY <1>1, <1>3, <2>4
<1>5. CASE Threshold(r).level # AllLevels
  <2>1. NameOf(r) = Threshold(r).name
    BY <1>5 DEF NameOf
  <2>2. Threshold(q).level # AllLevels
    BY <1>2, <2>1 DEF NameOf
  <2>3. NameOf(q) = Threshold(q).name
    BY <2>2 DEF NameOf
  <2>4. r[1] = q[1]
    BY <1>3, <2>1, <2>3
  <2>5. r[2] = q[2]
    BY <1>1, <1>5, <2>2, <2>4 DEF Threshold
  <2> QED
    BY <1>1, <2>4, <2>5
<1> QED
  BY <1>4, <1>5

(* So the name of a rule leads to that rule.                                *)
LEMMA ReportedImplies == IInv /\ Reported => EveryRuleReported
<1> SUFFICES ASSUME IInv, Reported, phase = "done",
                    \A i \in DOMAIN request.thresholds : request.thresholds[i].name \in Labels
             PROVE  {maps[n] : n \in DOMAIN maps} = Rules
  BY DEF EveryRuleReported
<1>1. request \in Requests
  BY DEF IInv, Typed, Control
<1>2. ASSUME NEW r \in Rules PROVE LastNamed(NameOf(r)) = r
  <2>1. \A q \in Rules : NameOf(q) = NameOf(r) => q = r
    BY <1>1, OneName
  <2>2. r[1] <= r[1]
    <3>1. r[1] \in DOMAIN request.thresholds
      BY DEF Rules
    <3> QED
      BY <1>1, <3>1, RequestAssumption
  <2>3. /\ NameOf(r) = NameOf(r)
        /\ \A q \in Rules : NameOf(q) = NameOf(r) => q[1] <= r[1]
    BY <2>1, <2>2
  <2> QED
    BY <2>1, <2>3 DEF LastNamed
<1>3. DOMAIN maps = {NameOf(r) : r \in Rules} /\ \A r \in Rules : maps[NameOf(r)] = r
  BY <1>2 DEF Reported
<1> QED
  BY <1>3

(* n equal values have their mean for a mean and no deviation from it.      *)
LEMMA SpreadOfEqual ==
  ASSUME NEW n \in Int, n # 0, NEW v \in Int, NEW M \in Int,
         n * M = (Scale * Scale) * (n * (n * (v * v)) - (n * v) * (n * v))
  PROVE  M = 0
<1>1. n * (n * (v * v)) - (n * v) * (n * v) = 0
  BY NoSquares
<1>2. n * M = 0
  <2>1. (Scale * Scale) * 0 = 0
    BY ScaleAssumption
  <2> QED
    BY <1>1, <2>1
<1>3. n * 0 = 0
  OBVIOUS
<1> QED
  BY <1>2, <1>3, Cancel

(* What it says of the checked properties.                                  *)
LEMMA FurtherImplies == Further => MomentsExact /\ NoNoiseNoSpread /\ EveryRuleReported
<1> SUFFICES ASSUME Further PROVE NoNoiseNoSpread
  BY ReportedImplies DEF Further, IInv, Exact, Passed, MomentsExact
<1> SUFFICES ASSUME Live, Quiet, NEW a \in Rows, NEW c \in Cell
             PROVE  m2[a][c] \in {0, NaN}
  BY DEF NoNoiseNoSpread, Quiet
<1>1. CASE ~LastOfStep(a)
  BY <1>1 DEF Further, Passed, Unwritten, Zeros
<1>2. CASE LastOfStep(a)
  <2> DEFINE s == agg[a]
  <2>1. /\ s \in Steps /\ ExactRow(a, s)
        /\ Added(s) = 0 => Untouched(a)
        /\ Added(s) \in Int
    <3>1. member \in Int
      BY RequestFacts DEF Further, IInv, Typed, Control
    <3> QED
      BY <1>2, <3>1 DEF Further, IInv, Typed, Exact, RowsTyped, Added
  <2>2. PICK T \in Outputs : Repetition(T)
    BY DEF Further, Repeats
  <2>3. CASE Added(s) = 0
    <3>1. c \notin poisoned[s]
      BY <2>1, <2>2, <2>3 DEF Repetition, Unreached
    <3> QED
      BY <2>1, <2>3, <3>1 DEF Untouched
  <2>4. CASE Added(s) # 0
    <3>1. Alike(T, s)
      BY <2>1, <2>2, <2>4 DEF Repetition
    <3>2. CASE T[s][c] \notin Int
      BY <2>1, <3>1, <3>2 DEF Alike, ExactRow
    <3>3. CASE T[s][c] \in Int
      <4>1. /\ m2[a][c] \in Int
            /\ Added(s) * m2[a][c] =
                 (Scale * Scale) * (Added(s) * squares[s][c] - total[s][c] * total[s][c])
            /\ total[s][c] = Added(s) * T[s][c]
            /\ squares[s][c] = Added(s) * (T[s][c] * T[s][c])
        BY <2>1, <3>1, <3>3 DEF Alike, ExactRow
      <4> HIDE DEF s
      <4> QED
        BY <2>1, <2>4, <3>3, <4>1, SpreadOfEqual
    <3> QED
      BY <3>2, <3>3
  <2> QED
    BY <2>3, <2>4
<1> QED
  BY <1>1, <1>2

(* It holds throughout.                                                     *)
LEMMA FurtherHolds == Spec => []Further
<1> QED
  BY FurtherInit, FurtherStep, PTL DEF Spec

(* The one-pass mean, M2 and counters of a step's last row are the two-pass *)
(* ones at every moment of the loops, and its other rows stay at zero, for  *)
(* every ensemble size, graph, noise and list of steps.                     *)
THEOREM OnePassIsExact == Spec => []MomentsExact
<1> QED
  BY FurtherHolds, FurtherImplies, PTL

(* Without noise every member adds the same values to a step, so M2 is zero *)
(* or NaN at every moment: no member sees what an earlier one left in the   *)
(* work buffers.                                                            *)
THEOREM SpreadIsZero == Spec => []NoNoiseNoSpread
<1> QED
  BY FurtherHolds, FurtherImplies, PTL

(* The result has the map of every rule when no threshold carries a level   *)
(* in its name.                                                             *)
THEOREM RulesReported == Spec => []EveryRuleReported
<1> QED
  BY FurtherHolds, FurtherImplies, PTL

=============================================================================
