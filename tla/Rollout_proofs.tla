----------------------------- MODULE Rollout_proofs -----------------------------
(***************************************************************************)
(* Proofs about Rollout, for any number of model objects and rollouts.     *)
(*                                                                         *)
(* The invariant has two parts.  Base says of every rollout where its      *)
(* buffers are: in the directory of its model, or in RAM.  Good says of a  *)
(* rollout whose model shares its directory with no other what they hold:  *)
(* that the content names the rollout and the step is what keeps two such  *)
(* rollouts apart, since a step of r writes only to buffers that are fresh *)
(* (Fresh) or that name r.  Rollouts of models that share a directory may  *)
(* overwrite each other, but only where no isolated rollout has a buffer   *)
(* (SharedKeeps).                                                          *)
(***************************************************************************)
EXTENDS Rollout, TLAPS

Prefixes == {"predict_input", "tile_input", "tile_output", "tile_weight", "array"}

Is(c, tag, r, k) == c.tag = tag /\ c.of = r /\ c.step = k

Shape ==
  /\ pc \in [Rollouts -> {"new", "ready", "tiles", "done", "failed"}]
  /\ steps \in [Rollouts -> 0 .. MaxSteps \cup {1}]
  /\ tile \in [Rollouts -> 0 .. NumTiles]
  /\ DOMAIN input = Rollouts /\ input = [r \in Rollouts |-> input[r]]
  /\ DOMAIN output = Rollouts /\ output = [r \in Rollouts |-> output[r]]
  /\ DOMAIN weight = Rollouts /\ weight = [r \in Rollouts |-> weight[r]]
  /\ DOMAIN kept = Rollouts /\ kept = [r \in Rollouts |-> kept[r]]
  /\ raw \in [Rollouts -> Seq(Contents)]
  /\ counter \in [Models -> Nat] /\ heap \in Nat
  /\ mem \in [Buffers -> Contents]

(* Every buffer bears a number that was given out in its space.             *)
Numbered ==
  \A b \in Buffers :
    \/ b.space = Heap /\ b.n \in 0 .. heap - 1
    \/ \E m \in Memmap : b.space = StateDir(m) /\ b.n \in 0 .. counter[m] - 1

Space(m) == IF m \in Memmap THEN StateDir(m) ELSE Heap

(* The buffers a rollout uses exist, in the space of its model.             *)
Placed(r) ==
  /\ kept[r] \in Seq(Buffers)
  /\ Len(raw[r]) = Len(kept[r]) /\ Len(kept[r]) <= steps[r]
  /\ pc[r] = "new" => kept[r] = <<>>
  /\ \A i \in 1 .. Len(kept[r]) : kept[r][i].space = Space(ModelOf[r])
  /\ pc[r] \in {"ready", "tiles"} =>
       input[r] \in Buffers /\ input[r].space = Space(ModelOf[r])
  /\ pc[r] = "tiles" =>
       /\ ModelOf[r] \in Tiled /\ Len(kept[r]) < steps[r]
       /\ output[r] \in Buffers /\ output[r].space = Space(ModelOf[r])
       /\ weight[r] \in Buffers /\ weight[r].space = Space(ModelOf[r])

Base == Shape /\ Numbered /\ \A r \in Rollouts : Placed(r)

(* What the buffers of one rollout hold.                                    *)
Held(r) ==
  \A i \in 1 .. Len(kept[r]) :
    /\ Is(mem[kept[r][i]], "state", r, i)
    /\ \/ mem[kept[r][i]] = raw[r][i]
       \/ /\ ModelOf[r] \notin Tiled
          /\ i < Len(kept[r]) \/ pc[r] = "failed"
          /\ mem[kept[r][i]] = Sanitised(raw[r][i])

Running(r) ==
  /\ pc[r] \in {"ready", "tiles"} => Is(mem[input[r]], "state", r, Len(kept[r]))
  /\ pc[r] = "tiles" =>
       /\ mem[output[r]] = Part(r, Len(kept[r]) + 1, tile[r])
       /\ mem[weight[r]] = Weights(r, Len(kept[r]) + 1, tile[r])

Good(r) == Held(r) /\ Running(r)

IInv == Base /\ \A r \in Isolated : Good(r)

-----------------------------------------------------------------------------

(* One buffer written, or two.                                              *)
LEMMA WriteOne ==
  ASSUME Shape, NEW b, NEW c \in Contents, mem' = Put(mem, b, c)
  PROVE  /\ Buffers' = Buffers \cup {b}
         /\ mem' \in [Buffers' -> Contents]
         /\ mem'[b] = c
         /\ \A a \in Buffers : a # b => mem'[a] = mem[a]
BY DEF Put, Buffers, Shape

(* Writing two buffers changes those two and no other.                      *)
LEMMA WriteTwo ==
  ASSUME Shape, NEW b1, NEW c1 \in Contents, NEW b2, NEW c2 \in Contents,
         mem' = Put(Put(mem, b1, c1), b2, c2)
  PROVE  /\ Buffers' = Buffers \cup {b1, b2}
         /\ mem' \in [Buffers' -> Contents]
         /\ b1 # b2 => mem'[b1] = c1
         /\ mem'[b2] = c2
         /\ \A a \in Buffers : a # b1 /\ a # b2 => mem'[a] = mem[a]
BY DEF Put, Buffers, Shape

(* Whatever the buffers hold, a step writes contents.                       *)
LEMMA ContentsClosed ==
  ASSUME NEW s \in Contents, NEW c \in Contents, NEW n \in Nat, NEW nan \in BOOLEAN
  PROVE  /\ StepOf(c, nan) \in Contents /\ Sanitised(c) \in Contents
         /\ AddTile(s, c, n) \in Contents /\ AddWeights(c, n) \in Contents
         /\ Quotient(s, c, nan) \in Contents
<1>1. Junk \in Contents
  BY DEF Junk, Content, Contents
<1>2. c.of \in Rollouts \cup {NoBuffer} /\ s.of \in Rollouts \cup {NoBuffer}
      /\ c.step \in Nat /\ c.step + 1 \in Nat /\ s.step \in Nat /\ n + 1 \in Nat
  BY DEF Contents
<1>3. /\ State(c.of, c.step + 1, nan) \in Contents /\ State(s.of, s.step, nan) \in Contents
      /\ Part(c.of, c.step + 1, n + 1) \in Contents /\ Weights(c.of, c.step, n + 1) \in Contents
  BY <1>2 DEF State, Part, Weights, Content, Contents
<1>4. Sanitised(c) \in Contents
  BY DEF Sanitised, Contents
<1> QED
  BY <1>1, <1>3, <1>4 DEF StepOf, AddTile, AddWeights, Quotient

(* A buffer is in the space of the model that allocates it.                 *)
LEMMA BufferSpace ==
  ASSUME NEW m \in Models, NEW prefix, NEW i \in Nat
  PROVE  Buffer(m, prefix, i).space = Space(m)
BY DEF Buffer, Space

(* The space of an isolated rollout that spills is its model's alone.       *)
LEMMA SpaceOfIsolated ==
  ASSUME NEW r \in Rollouts, r \notin Isolated, NEW q \in Isolated
  PROVE  Space(ModelOf[r]) # Space(ModelOf[q])
<1>1. PICK m2 \in Memmap : m2 # ModelOf[r] /\ StateDir(m2) = StateDir(ModelOf[r])
  BY DEF Isolated, Private
<1>2. ModelOf[r] \in Memmap
  BY DEF Isolated, Private
<1>3. CASE ModelOf[q] \notin Memmap
  BY <1>2, <1>3 DEF Space, StateDir, Heap
<1>4. CASE ModelOf[q] \in Memmap
  <2>1. \A m \in Memmap : m # ModelOf[q] => StateDir(m) # StateDir(ModelOf[q])
    BY <1>4 DEF Isolated, Private
  <2> QED
    BY <1>1, <1>2, <1>4, <2>1 DEF Space
<1> QED
  BY <1>3, <1>4

(* The contents the model writes have the type of contents, and are of the  *)
(* rollout and step they name.                                              *)
LEMMA ContentFacts ==
  ASSUME NEW r \in Rollouts, NEW k \in Nat, NEW n \in Nat, NEW nan \in BOOLEAN
  PROVE  /\ State(r, k, nan) \in Contents /\ Is(State(r, k, nan), "state", r, k)
         /\ Part(r, k, n) \in Contents /\ Is(Part(r, k, n), "part", r, k)
         /\ Weights(r, k, n) \in Contents /\ Is(Weights(r, k, n), "weights", r, k)
BY DEF State, Part, Weights, Content, Contents, Is

(* Sanitising keeps what a buffer is a state of and only clears nan.        *)
LEMMA SanitisedFacts ==
  ASSUME NEW c \in Contents
  PROVE  /\ Sanitised(c) \in Contents
         /\ \A tag, r, k : Is(c, tag, r, k) => Is(Sanitised(c), tag, r, k)
BY DEF Sanitised, Contents, Is

(* A buffer about to be allocated is none that exists: the counter of the   *)
(* model has passed the number of every file in its directory, if no other  *)
(* model uses that directory.                                               *)
LEMMA Fresh ==
  ASSUME Shape, Numbered, NEW m \in Models, Private(m), NEW prefix, NEW i \in Nat
  PROVE  Buffer(m, prefix, i) \notin Buffers
<1> DEFINE b == Buffer(m, prefix, i)
<1> SUFFICES ASSUME b \in Buffers PROVE FALSE
  OBVIOUS
<1>1. CASE m \in Memmap
  <2>1. b.space = StateDir(m) /\ b.n = counter[m] + i
    BY <1>1 DEF Buffer
  <2>2. StateDir(m) # Heap
    BY DEF StateDir, Heap
  <2>3. PICK q \in Memmap : b.space = StateDir(q) /\ b.n \in 0 .. counter[q] - 1
    BY <2>1, <2>2 DEF Numbered
  <2>4. q = m
    BY <1>1, <2>1, <2>3 DEF Private
  <2> QED
    BY <2>1, <2>3, <2>4 DEF Shape
<1>2. CASE m \notin Memmap
  <2>1. b.space = Heap /\ b.n = heap + i
    BY <1>2 DEF Buffer
  <2>2. \A q \in Memmap : StateDir(q) # Heap
    BY DEF StateDir, Heap
  <2>3. b.n \in 0 .. heap - 1
    BY <2>1, <2>2 DEF Numbered
  <2> QED
    BY <2>1, <2>3 DEF Shape
<1> QED
  BY <1>1, <1>2

(* Allocation keeps the counters typed and every buffer numbered.           *)
LEMMA AllocationNumbered ==
  ASSUME Shape, Numbered, NEW m \in Models, NEW n \in Nat, Taken(m, n),
         \A b \in Buffers' : b \notin Buffers =>
           \E prefix \in Prefixes, i \in 0 .. n - 1 : b = Buffer(m, prefix, i)
  PROVE  Numbered' /\ counter' \in [Models -> Nat] /\ heap' \in Nat
<1>1. counter' \in [Models -> Nat] /\ heap' \in Nat
  BY DEF Taken, Shape
<1>2. heap' >= heap /\ \A q \in Models : counter'[q] >= counter[q]
  BY DEF Taken, Shape
<1>3. ASSUME NEW b \in Buffers' PROVE
        \/ b.space = Heap /\ b.n \in 0 .. heap' - 1
        \/ \E q \in Memmap : b.space = StateDir(q) /\ b.n \in 0 .. counter'[q] - 1
  <2>1. CASE b \in Buffers
    <3>1. CASE b.space = Heap /\ b.n \in 0 .. heap - 1
      BY <1>1, <1>2, <3>1 DEF Shape
    <3>2. CASE \E q \in Memmap : b.space = StateDir(q) /\ b.n \in 0 .. counter[q] - 1
      <4>1. PICK q \in Memmap : b.space = StateDir(q) /\ b.n \in 0 .. counter[q] - 1
        BY <3>2
      <4>2. q \in Models
        BY ModelAssumption
      <4>3. b.n \in 0 .. counter'[q] - 1
        BY <1>1, <1>2, <4>1, <4>2 DEF Shape
      <4> QED
        BY <4>1, <4>3
    <3> QED
      BY <2>1, <3>1, <3>2 DEF Numbered
  <2>2. CASE b \notin Buffers
    <3>1. PICK prefix \in Prefixes, i \in 0 .. n - 1 : b = Buffer(m, prefix, i)
      BY <1>3, <2>2
    <3>2. CASE m \in Memmap
      BY <1>1, <3>1, <3>2 DEF Buffer, Taken, Shape
    <3>3. CASE m \notin Memmap
      BY <1>1, <3>1, <3>3 DEF Buffer, Taken, Shape
    <3> QED
      BY <3>2, <3>3
  <2> QED
    BY <1>3, <2>1, <2>2
<1> QED
  BY <1>1, <1>3 DEF Numbered

(* A rollout whose variables a step leaves alone keeps its buffers...        *)
LEMMA PlacedKeeps ==
  ASSUME NEW q \in Rollouts, Placed(q), Buffers \subseteq Buffers',
         UNCHANGED <<pc[q], steps[q], input[q], output[q], weight[q], tile[q], kept[q], raw[q]>>
  PROVE  Placed(q)'
<1>1. kept[q] \in Seq(Buffers')
  BY DEF Placed
<1> QED
  BY <1>1 DEF Placed

(* ... and what is in them, if the step writes to none in its space that    *)
(* names it.                                                                *)
LEMMA OtherKeeps ==
  ASSUME NEW q \in Isolated, Placed(q), Good(q),
         UNCHANGED <<pc[q], steps[q], input[q], output[q], weight[q], tile[q], kept[q], raw[q]>>,
         \A b \in Buffers :
           mem[b].of = q /\ b.space = Space(ModelOf[q]) => mem'[b] = mem[b]
  PROVE  Good(q)'
<1>1. Held(q)'
  <2>1. \A i \in 1 .. Len(kept[q]) : mem'[kept[q][i]] = mem[kept[q][i]]
    BY DEF Good, Held, Placed, Is
  <2> QED
    BY <2>1 DEF Good, Held, Is
<1>2. Running(q)'
  BY DEF Good, Running, Placed, Is, Part, Weights, Content
<1> QED
  BY <1>1, <1>2 DEF Good

(* Before any rollout starts there is no buffer, and the invariant holds.   *)
LEMMA InitInv == Init => IInv
<1> SUFFICES ASSUME Init PROVE IInv
  OBVIOUS
<1> USE DEF Init
<1>1. Buffers = {}
  BY DEF Buffers
<1>2. Shape
  BY <1>1, ModelAssumption DEF Shape
<1>3. Numbered
  BY <1>1 DEF Numbered
<1>4. \A r \in Rollouts : Placed(r)
  BY ModelAssumption DEF Placed
<1>5. \A r \in Isolated : Good(r)
  BY DEF Good, Held, Running, Isolated
<1> QED
  BY <1>2, <1>3, <1>4, <1>5 DEF IInv, Base

-----------------------------------------------------------------------------
(* Where the buffers are: one lemma per action, for any rollout.            *)

(* Start: one buffer in the space of the model.                             *)
LEMMA StartBase ==
  ASSUME Base, NEW r \in Rollouts, NEW n \in 0 .. MaxSteps, NEW nan \in BOOLEAN,
         Start(r, n, nan)
  PROVE  Base'
<1> DEFINE b == Buffer(ModelOf[r], Prefix(r), 0)
<1>1. /\ pc[r] = "new" /\ pc' = [pc EXCEPT ![r] = "ready"]
      /\ steps' = [steps EXCEPT ![r] = n] /\ input' = [input EXCEPT ![r] = b]
      /\ mem' = Put(mem, b, State(r, 0, nan)) /\ Taken(ModelOf[r], 1)
      /\ UNCHANGED <<output, weight, tile, kept, raw>>
  BY DEF Start
<1>2. Shape /\ Numbered /\ Placed(r) /\ ModelOf[r] \in Models
  BY ModelAssumption DEF Base
<1>3. Prefix(r) \in Prefixes /\ b.space = Space(ModelOf[r])
  BY <1>2, BufferSpace DEF Prefix, Prefixes
<1>4. State(r, 0, nan) \in Contents
  BY ContentFacts
<1>5. Buffers' = Buffers \cup {b} /\ mem' \in [Buffers' -> Contents]
  <2> HIDE DEF b
  <2> QED
    BY <1>1, <1>2, <1>4, WriteOne
<1>6. Numbered' /\ counter' \in [Models -> Nat] /\ heap' \in Nat
  <2>1. \E prefix \in Prefixes, i \in 0 .. 1 - 1 : b = Buffer(ModelOf[r], prefix, i)
    BY <1>3
  <2> HIDE DEF b
  <2>2. \A c \in Buffers' : c \notin Buffers =>
          \E prefix \in Prefixes, i \in 0 .. 1 - 1 : c = Buffer(ModelOf[r], prefix, i)
    BY <1>5, <2>1
  <2> QED
    BY <1>1, <1>2, <2>2, AllocationNumbered
<1> HIDE DEF b
<1>7. Shape'
  BY <1>1, <1>2, <1>5, <1>6 DEF Shape
<1>8. ASSUME NEW q \in Rollouts, q # r PROVE Placed(q)'
  <2>1. UNCHANGED <<pc[q], steps[q], input[q], output[q], weight[q], tile[q], kept[q], raw[q]>>
    BY <1>1, <1>2, <1>8 DEF Shape
  <2> QED
    BY <1>5, <2>1, PlacedKeeps DEF Base
<1>9. Placed(r)'
  <2>1. kept'[r] = <<>> /\ Len(raw'[r]) = 0 /\ pc'[r] = "ready" /\ steps'[r] = n /\ input'[r] = b
    BY <1>1, <1>2 DEF Placed, Shape
  <2> QED
    BY <1>3, <1>5, <2>1 DEF Placed
<1> QED
  BY <1>6, <1>7, <1>8, <1>9 DEF Base

(* PredictUntiled: a new array is handed out, and is the next input.        *)
LEMMA PredictUntiledBase ==
  ASSUME Base, NEW r \in Rollouts, NEW nan \in BOOLEAN, PredictUntiled(r, nan)
  PROVE  Base'
<1> DEFINE a == input[r]
           b == Buffer(ModelOf[r], "array", 0)
           c == StepOf(mem[a], nan)
<1>1. /\ pc[r] = "ready" /\ Len(kept[r]) < steps[r]
      /\ mem' = Put(Put(mem, a, Sanitised(mem[a])), b, c) /\ Taken(ModelOf[r], 1)
      /\ kept' = [kept EXCEPT ![r] = Append(@, b)] /\ input' = [input EXCEPT ![r] = b]
      /\ raw' = [raw EXCEPT ![r] = Append(@, c)]
      /\ UNCHANGED <<pc, steps, output, weight, tile>>
  BY DEF PredictUntiled, Step, HandOut
<1>2. /\ Shape /\ Numbered /\ Placed(r) /\ ModelOf[r] \in Models
      /\ a \in Buffers /\ mem[a] \in Contents
  BY <1>1, ModelAssumption DEF Base, Placed, Shape
<1>3. b.space = Space(ModelOf[r])
  BY <1>2, BufferSpace
<1>4. c \in Contents /\ Sanitised(mem[a]) \in Contents
  BY <1>2, ContentsClosed
<1>5. \E prefix \in Prefixes, i \in 0 .. 1 - 1 : b = Buffer(ModelOf[r], prefix, i)
  BY DEF Prefixes
<1> HIDE DEF b, c
<1>6. Buffers' = Buffers \cup {b} /\ mem' \in [Buffers' -> Contents]
  <2>1. Buffers \cup {a, b} = Buffers \cup {b}
    BY <1>2
  <2> QED
    BY <1>1, <1>2, <1>4, <2>1, WriteTwo
<1>7. Numbered' /\ counter' \in [Models -> Nat] /\ heap' \in Nat
  <2>1. \A x \in Buffers' : x \notin Buffers =>
          \E prefix \in Prefixes, i \in 0 .. 1 - 1 : x = Buffer(ModelOf[r], prefix, i)
    BY <1>5, <1>6
  <2> QED
    BY <1>1, <1>2, <2>1, AllocationNumbered
<1>8. Shape'
  <2>1. raw' \in [Rollouts -> Seq(Contents)]
    BY <1>1, <1>2, <1>4 DEF Shape
  <2> QED
    BY <1>1, <1>2, <1>6, <1>7, <2>1 DEF Shape
<1>9. ASSUME NEW q \in Rollouts, q # r PROVE Placed(q)'
  <2>1. UNCHANGED <<pc[q], steps[q], input[q], output[q], weight[q], tile[q], kept[q], raw[q]>>
    BY <1>1, <1>2, <1>9 DEF Shape
  <2> QED
    BY <1>6, <2>1, PlacedKeeps DEF Base
<1>10. Placed(r)'
  <2>1. /\ kept[r] \in Seq(Buffers') /\ raw[r] \in Seq(Contents) /\ b \in Buffers'
        /\ Len(raw[r]) = Len(kept[r]) /\ steps[r] \in Int
        /\ \A i \in 1 .. Len(kept[r]) : kept[r][i].space = Space(ModelOf[r])
    BY <1>2, <1>6, ModelAssumption DEF Placed, Shape
  <2>2. /\ kept'[r] = Append(kept[r], b) /\ raw'[r] = Append(raw[r], c)
        /\ pc'[r] = "ready" /\ steps'[r] = steps[r] /\ input'[r] = b
    BY <1>1, <1>2 DEF Shape
  <2>3. /\ kept'[r] \in Seq(Buffers') /\ Len(kept'[r]) = Len(kept[r]) + 1
        /\ Len(raw'[r]) = Len(raw[r]) + 1 /\ Len(kept[r]) \in Nat
    BY <2>1, <2>2
  <2>4. \A i \in 1 .. Len(kept[r]) + 1 : kept'[r][i].space = Space(ModelOf[r])
    BY <1>3, <2>1, <2>2
  <2> QED
    BY <1>1, <1>3, <2>1, <2>2, <2>3, <2>4 DEF Placed
<1> QED
  BY <1>7, <1>8, <1>9, <1>10 DEF Base

(* UntiledFails allocates nothing.                                          *)
LEMMA UntiledFailsBase ==
  ASSUME Base, NEW r \in Rollouts, UntiledFails(r)
  PROVE  Base'
<1> DEFINE a == input[r]
<1>1. /\ pc[r] = "ready" /\ mem' = Put(mem, a, Sanitised(mem[a]))
      /\ pc' = [pc EXCEPT ![r] = "failed"]
      /\ UNCHANGED <<steps, input, output, weight, tile, kept, raw, counter, heap>>
  BY DEF UntiledFails
<1>2. Shape /\ Numbered /\ Placed(r) /\ a \in Buffers /\ mem[a] \in Contents
  BY <1>1 DEF Base, Placed, Shape
<1>3. Sanitised(mem[a]) \in Contents /\ Buffers \cup {a} = Buffers
  BY <1>2, SanitisedFacts
<1>4. Buffers' = Buffers /\ mem' \in [Buffers -> Contents]
  BY <1>1, <1>2, <1>3, WriteOne
<1>5. Shape' /\ Numbered'
  BY <1>1, <1>2, <1>4 DEF Shape, Numbered
<1>6. ASSUME NEW q \in Rollouts, q # r PROVE Placed(q)'
  <2>1. UNCHANGED <<pc[q], steps[q], input[q], output[q], weight[q], tile[q], kept[q], raw[q]>>
    BY <1>1, <1>2, <1>6 DEF Shape
  <2> QED
    BY <1>4, <2>1, PlacedKeeps DEF Base
<1>7. Placed(r)'
  <2>1. pc'[r] = "failed" /\ pc[r] # "new"
    BY <1>1, <1>2 DEF Shape
  <2> QED
    BY <1>1, <1>2, <1>4, <2>1 DEF Placed
<1> QED
  BY <1>5, <1>6, <1>7 DEF Base

(* BeginTiles: two buffers in the space of the model.                       *)
LEMMA BeginTilesBase ==
  ASSUME Base, NEW r \in Rollouts, BeginTiles(r)
  PROVE  Base'
<1> DEFINE m == ModelOf[r]
           k == Len(kept[r])
           b == Buffer(m, "tile_output", 0)
           w == Buffer(m, "tile_weight", 1)
<1>1. /\ pc[r] = "ready" /\ k < steps[r] /\ m \in Tiled
      /\ pc' = [pc EXCEPT ![r] = "tiles"] /\ tile' = [tile EXCEPT ![r] = 0]
      /\ output' = [output EXCEPT ![r] = b] /\ weight' = [weight EXCEPT ![r] = w]
      /\ mem' = Put(Put(mem, b, Part(r, k + 1, 0)), w, Weights(r, k + 1, 0))
      /\ Taken(m, 2) /\ UNCHANGED <<steps, input, kept, raw>>
  BY DEF BeginTiles, Step
<1>2. Shape /\ Numbered /\ Placed(r) /\ m \in Models /\ k + 1 \in Nat
  <2>1. Shape /\ Numbered /\ Placed(r) /\ m \in Models
    BY ModelAssumption DEF Base
  <2> QED
    BY <2>1 DEF Placed
<1>3. b.space = Space(m) /\ w.space = Space(m)
  BY <1>2, BufferSpace
<1>4. Part(r, k + 1, 0) \in Contents /\ Weights(r, k + 1, 0) \in Contents
  BY <1>2, ContentFacts
<1>5. /\ \E prefix \in Prefixes, i \in 0 .. 2 - 1 : b = Buffer(m, prefix, i)
      /\ \E prefix \in Prefixes, i \in 0 .. 2 - 1 : w = Buffer(m, prefix, i)
  BY DEF Prefixes
<1> HIDE DEF b, w
<1>6. Buffers' = Buffers \cup {b, w} /\ mem' \in [Buffers' -> Contents]
  BY <1>1, <1>2, <1>4, WriteTwo
<1>7. Numbered' /\ counter' \in [Models -> Nat] /\ heap' \in Nat
  <2>1. \A x \in Buffers' : x \notin Buffers =>
          \E prefix \in Prefixes, i \in 0 .. 2 - 1 : x = Buffer(m, prefix, i)
    BY <1>5, <1>6
  <2> QED
    BY <1>1, <1>2, <2>1, AllocationNumbered
<1>8. Shape'
  <2>1. /\ tile' \in [Rollouts -> 0 .. NumTiles]
        /\ pc' \in [Rollouts -> {"new", "ready", "tiles", "done", "failed"}]
    BY <1>1, <1>2, ModelAssumption DEF Shape
  <2> QED
    BY <1>1, <1>2, <1>6, <1>7, <2>1 DEF Shape
<1>9. ASSUME NEW q \in Rollouts, q # r PROVE Placed(q)'
  <2>1. UNCHANGED <<pc[q], steps[q], input[q], output[q], weight[q], tile[q], kept[q], raw[q]>>
    BY <1>1, <1>2, <1>9 DEF Shape
  <2> QED
    BY <1>6, <2>1, PlacedKeeps DEF Base
<1>10. Placed(r)'
  <2>1. /\ pc'[r] = "tiles" /\ output'[r] = b /\ weight'[r] = w
        /\ kept'[r] = kept[r] /\ raw'[r] = raw[r] /\ steps'[r] = steps[r] /\ input'[r] = input[r]
    BY <1>1, <1>2 DEF Shape
  <2>2. kept[r] \in Seq(Buffers')
    BY <1>2, <1>6 DEF Placed
  <2> QED
    BY <1>1, <1>2, <1>3, <1>6, <2>1, <2>2 DEF Placed
<1> QED
  BY <1>7, <1>8, <1>9, <1>10 DEF Base

(* AddOneTile writes to two buffers that exist, whatever they hold.         *)
LEMMA AddOneTileBase ==
  ASSUME Base, NEW r \in Rollouts, AddOneTile(r)
  PROVE  Base'
<1> DEFINE b == output[r]
           w == weight[r]
           c == AddTile(mem[b], mem[input[r]], tile[r])
           d == AddWeights(mem[w], tile[r])
<1>1. /\ pc[r] = "tiles" /\ tile[r] < NumTiles /\ tile' = [tile EXCEPT ![r] = @ + 1]
      /\ mem' = Put(Put(mem, b, c), w, d)
      /\ UNCHANGED <<pc, steps, input, output, weight, kept, raw, counter, heap>>
  BY DEF AddOneTile
<1>2. /\ Shape /\ Numbered /\ Placed(r) /\ tile[r] \in Nat
      /\ b \in Buffers /\ w \in Buffers
      /\ mem[b] \in Contents /\ mem[w] \in Contents /\ mem[input[r]] \in Contents
  <2>1. Shape /\ Numbered /\ Placed(r)
    BY DEF Base
  <2>2. b \in Buffers /\ w \in Buffers /\ input[r] \in Buffers
    BY <1>1, <2>1 DEF Placed
  <2> QED
    BY <2>1, <2>2, ModelAssumption DEF Shape
<1>3. c \in Contents /\ d \in Contents
  <2>1. FALSE \in BOOLEAN
    OBVIOUS
  <2> QED
    BY <1>2, <2>1, ContentsClosed
<1> HIDE DEF c, d
<1>4. Buffers' = Buffers /\ mem' \in [Buffers -> Contents]
  <2>1. Buffers \cup {b, w} = Buffers
    BY <1>2
  <2> HIDE DEF b, w
  <2> QED
    BY <1>1, <1>2, <1>3, <2>1, WriteTwo
<1>5. Shape' /\ Numbered'
  BY <1>1, <1>2, <1>4, ModelAssumption DEF Shape, Numbered
<1>6. \A q \in Rollouts : Placed(q)'
  BY <1>1, <1>4 DEF Base, Placed
<1> QED
  BY <1>5, <1>6 DEF Base

(* FinishTiles hands the output buffer out, and it is the next input.       *)
LEMMA FinishTilesBase ==
  ASSUME Base, NEW r \in Rollouts, NEW nan \in BOOLEAN, FinishTiles(r, nan)
  PROVE  Base'
<1> DEFINE b == output[r]
           c == Quotient(mem[b], mem[weight[r]], nan)
<1>1. /\ pc[r] = "tiles" /\ pc' = [pc EXCEPT ![r] = "ready"] /\ mem' = Put(mem, b, c)
      /\ kept' = [kept EXCEPT ![r] = Append(@, b)] /\ input' = [input EXCEPT ![r] = b]
      /\ raw' = [raw EXCEPT ![r] = Append(@, c)]
      /\ UNCHANGED <<steps, output, weight, tile, counter, heap>>
  BY DEF FinishTiles, HandOut
<1>2. /\ Shape /\ Numbered /\ Placed(r) /\ Len(kept[r]) < steps[r]
      /\ b \in Buffers /\ b.space = Space(ModelOf[r])
      /\ mem[b] \in Contents /\ mem[weight[r]] \in Contents
  <2>1. Shape /\ Numbered /\ Placed(r)
    BY DEF Base
  <2>2. /\ b \in Buffers /\ weight[r] \in Buffers /\ b.space = Space(ModelOf[r])
        /\ Len(kept[r]) < steps[r]
    BY <1>1, <2>1 DEF Placed
  <2> QED
    BY <2>1, <2>2 DEF Shape
<1>3. c \in Contents
  <2>1. 0 \in Nat
    OBVIOUS
  <2> QED
    BY <1>2, <2>1, ContentsClosed
<1> HIDE DEF c
<1>4. Buffers' = Buffers /\ mem' \in [Buffers -> Contents]
  <2>1. Buffers \cup {b} = Buffers
    BY <1>2
  <2> HIDE DEF b
  <2> QED
    BY <1>1, <1>2, <1>3, <2>1, WriteOne
<1>5. Shape' /\ Numbered'
  <2>1. raw' \in [Rollouts -> Seq(Contents)]
    BY <1>1, <1>2, <1>3 DEF Shape
  <2> QED
    BY <1>1, <1>2, <1>4, <2>1 DEF Shape, Numbered
<1>6. ASSUME NEW q \in Rollouts, q # r PROVE Placed(q)'
  <2>1. UNCHANGED <<pc[q], steps[q], input[q], output[q], weight[q], tile[q], kept[q], raw[q]>>
    BY <1>1, <1>2, <1>6 DEF Shape
  <2> QED
    BY <1>4, <2>1, PlacedKeeps DEF Base
<1>7. Placed(r)'
  <2>1. /\ kept[r] \in Seq(Buffers) /\ raw[r] \in Seq(Contents) /\ Len(raw[r]) = Len(kept[r])
        /\ steps[r] \in Int
        /\ \A i \in 1 .. Len(kept[r]) : kept[r][i].space = Space(ModelOf[r])
    BY <1>2, ModelAssumption DEF Placed, Shape
  <2>2. /\ kept'[r] = Append(kept[r], b) /\ raw'[r] = Append(raw[r], c)
        /\ pc'[r] = "ready" /\ steps'[r] = steps[r] /\ input'[r] = b
    BY <1>1, <1>2 DEF Shape
  <2>3. /\ kept'[r] \in Seq(Buffers) /\ Len(kept'[r]) = Len(kept[r]) + 1
        /\ Len(raw'[r]) = Len(raw[r]) + 1 /\ Len(kept[r]) \in Nat
    BY <1>2, <2>1, <2>2
  <2>4. \A i \in 1 .. Len(kept[r]) + 1 : kept'[r][i].space = Space(ModelOf[r])
    BY <1>2, <2>1, <2>2
  <2> QED
    BY <1>2, <1>4, <2>1, <2>2, <2>3, <2>4 DEF Placed
<1> QED
  BY <1>5, <1>6, <1>7 DEF Base

(* A rollout that ends, or that fails in a tile, keeps its buffers.         *)
LEMMA QuietBase ==
  ASSUME Base, NEW r \in Rollouts, TileFails(r) \/ End(r)
  PROVE  Base'
<1>1. /\ pc[r] # "new" /\ \E e \in {"failed", "done"} : pc' = [pc EXCEPT ![r] = e]
      /\ UNCHANGED <<steps, input, output, weight, tile, kept, raw, counter, heap, mem>>
  BY DEF TileFails, End, memVars
<1>2. Shape /\ Numbered
  BY DEF Base
<1>3. Shape' /\ Numbered' /\ Buffers' = Buffers
  BY <1>1, <1>2 DEF Shape, Numbered, Buffers
<1>4. ASSUME NEW q \in Rollouts PROVE Placed(q)'
  <2>1. pc'[q] = pc[q] \/ (pc[q] # "new" /\ pc'[q] \in {"failed", "done"})
    BY <1>1, <1>2 DEF Shape
  <2> QED
    BY <1>1, <1>3, <2>1 DEF Base, Placed
<1> QED
  BY <1>3, <1>4 DEF Base

(* Every step keeps every buffer where it should be.                        *)
LEMMA BaseStep == Base /\ [Next]_vars => Base'
<1> SUFFICES ASSUME Base, [Next]_vars PROVE Base'
  OBVIOUS
<1>1. ASSUME NEW r \in Rollouts, NEW n \in 0 .. MaxSteps, NEW nan \in BOOLEAN, Start(r, n, nan)
      PROVE Base'
  BY <1>1, StartBase
<1>2. ASSUME NEW r \in Rollouts, Advance(r) PROVE Base'
  BY <1>2, PredictUntiledBase, FinishTilesBase, UntiledFailsBase, BeginTilesBase,
     AddOneTileBase, QuietBase DEF Advance
<1>3. CASE UNCHANGED vars
  BY <1>3 DEF vars, runVars, memVars, Base, Shape, Numbered, Buffers, Placed
<1> QED
  BY <1>1, <1>2, <1>3 DEF Next

-----------------------------------------------------------------------------
(* What the buffers of isolated rollouts hold: one lemma per action.        *)

(* What the invariant says of one isolated rollout.                         *)
LEMMA GoodFacts ==
  ASSUME IInv, NEW r \in Isolated
  PROVE  /\ Shape /\ Numbered /\ Placed(r) /\ Good(r)
         /\ r \in Rollouts /\ ModelOf[r] \in Models /\ Private(ModelOf[r])
         /\ Len(kept[r]) \in Nat /\ steps[r] \in Int
<1>1. Shape /\ Numbered /\ r \in Rollouts /\ Placed(r) /\ Good(r)
  BY DEF IInv, Base, Isolated
<1> QED
  BY <1>1, ModelAssumption DEF Isolated, Placed, Shape

(* Start: the buffer of the initial state is new, so no buffer a consumer   *)
(* holds is touched.                                                        *)
LEMMA StartKeeps ==
  ASSUME IInv, NEW r \in Isolated, NEW n \in 0 .. MaxSteps, NEW nan \in BOOLEAN,
         Start(r, n, nan)
  PROVE  \A q \in Isolated : Good(q)'
<1> DEFINE b == Buffer(ModelOf[r], Prefix(r), 0)
<1>1. /\ pc[r] = "new" /\ pc' = [pc EXCEPT ![r] = "ready"]
      /\ steps' = [steps EXCEPT ![r] = n] /\ input' = [input EXCEPT ![r] = b]
      /\ mem' = Put(mem, b, State(r, 0, nan))
      /\ UNCHANGED <<output, weight, tile, kept, raw>>
  BY DEF Start
<1>2. /\ Shape /\ Numbered /\ Placed(r) /\ r \in Rollouts
      /\ ModelOf[r] \in Models /\ Private(ModelOf[r])
  BY GoodFacts
<1>3. b \notin Buffers
  BY <1>2, Fresh
<1> HIDE DEF b
<1>4. State(r, 0, nan) \in Contents /\ Is(State(r, 0, nan), "state", r, 0)
  BY <1>2, ContentFacts
<1>5. mem'[b] = State(r, 0, nan) /\ \A a \in Buffers : mem'[a] = mem[a]
  BY <1>1, <1>2, <1>3, <1>4, WriteOne
<1>6. ASSUME NEW q \in Isolated, q # r PROVE Good(q)'
  <2>1. UNCHANGED <<pc[q], steps[q], input[q], output[q], weight[q], tile[q], kept[q], raw[q]>>
    BY <1>1, <1>2, <1>6 DEF Shape, Isolated
  <2> QED
    BY <1>5, <2>1, GoodFacts, OtherKeeps
<1>7. Good(r)'
  <2>1. kept'[r] = <<>> /\ pc'[r] = "ready" /\ input'[r] = b
    BY <1>1, <1>2 DEF Placed, Shape
  <2> QED
    BY <1>4, <1>5, <2>1 DEF Good, Held, Running
<1> QED
  BY <1>6, <1>7

(* In an untiled step the buffer sanitised is the rollout's own input, and  *)
(* the buffer written is fresh.                                             *)
LEMMA PredictUntiledKeeps ==
  ASSUME IInv, NEW r \in Isolated, NEW nan \in BOOLEAN, PredictUntiled(r, nan)
  PROVE  \A q \in Isolated : Good(q)'
<1> DEFINE a == input[r]
           k == Len(kept[r])
           b == Buffer(ModelOf[r], "array", 0)
<1>1. /\ pc[r] = "ready" /\ ModelOf[r] \notin Tiled
      /\ mem' = Put(Put(mem, a, Sanitised(mem[a])), b, StepOf(mem[a], nan))
      /\ HandOut(r, b, StepOf(mem[a], nan))
      /\ UNCHANGED <<pc, steps, output, weight, tile>>
  BY DEF PredictUntiled, Step
<1>2. /\ Shape /\ Numbered /\ Placed(r) /\ Good(r) /\ k \in Nat
      /\ r \in Rollouts /\ ModelOf[r] \in Models /\ Private(ModelOf[r])
  BY GoodFacts
<1>3. a \in Buffers /\ Is(mem[a], "state", r, k) /\ b \notin Buffers
  BY <1>1, <1>2, Fresh DEF Placed, Good, Running
<1> HIDE DEF b
<1>4. /\ StepOf(mem[a], nan) = State(r, k + 1, nan)
      /\ State(r, k + 1, nan) \in Contents /\ Is(State(r, k + 1, nan), "state", r, k + 1)
  <2>1. k + 1 \in Nat
    BY <1>2
  <2>2. StepOf(mem[a], nan) = State(r, k + 1, nan)
    BY <1>3 DEF StepOf, Is
  <2> QED
    BY <1>2, <2>1, <2>2, ContentFacts
<1>5. Sanitised(mem[a]) \in Contents /\ Is(Sanitised(mem[a]), "state", r, k)
  BY <1>2, <1>3, SanitisedFacts DEF Shape
<1>6. /\ mem'[a] = Sanitised(mem[a]) /\ mem'[b] = State(r, k + 1, nan)
      /\ \A c \in Buffers : c # a => mem'[c] = mem[c]
  <2>1. mem' = Put(Put(mem, a, Sanitised(mem[a])), b, State(r, k + 1, nan)) /\ a # b
    BY <1>1, <1>3, <1>4
  <2> QED
    BY <1>2, <1>3, <1>4, <1>5, <2>1, WriteTwo
<1>7. /\ kept' = [kept EXCEPT ![r] = Append(@, b)] /\ input' = [input EXCEPT ![r] = b]
      /\ raw' = [raw EXCEPT ![r] = Append(@, State(r, k + 1, nan))]
  BY <1>1, <1>4 DEF HandOut
<1>8. ASSUME NEW q \in Isolated, q # r PROVE Good(q)'
  <2>1. UNCHANGED <<pc[q], steps[q], input[q], output[q], weight[q], tile[q], kept[q], raw[q]>>
    BY <1>1, <1>2, <1>7, <1>8 DEF Shape, Isolated
  <2>2. \A c \in Buffers : mem[c].of = q => mem'[c] = mem[c]
    BY <1>3, <1>6, <1>8 DEF Is
  <2> QED
    BY <2>1, <2>2, GoodFacts, OtherKeeps
<1>9. Good(r)'
  <2>1. kept[r] \in Seq(Buffers) /\ raw[r] \in Seq(Contents) /\ Len(raw[r]) = k
    BY <1>2 DEF Placed, Shape
  <2>2. /\ kept'[r] = Append(kept[r], b) /\ raw'[r] = Append(raw[r], State(r, k + 1, nan))
        /\ pc'[r] = "ready" /\ input'[r] = b
    BY <1>1, <1>2, <1>7 DEF Shape
  <2>3. Len(kept'[r]) = k + 1
    BY <2>1, <2>2
  <2>4. ASSUME NEW i \in 1 .. k + 1 PROVE
        /\ Is(mem'[kept'[r][i]], "state", r, i)
        /\ \/ mem'[kept'[r][i]] = raw'[r][i]
           \/ i < k + 1 /\ mem'[kept'[r][i]] = Sanitised(raw'[r][i])
    <3>1. CASE i = k + 1
      BY <1>4, <1>6, <2>1, <2>2, <3>1
    <3>2. CASE i \in 1 .. k
      <4>1. kept'[r][i] = kept[r][i] /\ raw'[r][i] = raw[r][i] /\ kept[r][i] \in Buffers
        BY <2>1, <2>2, <3>2
      <4>2. Is(mem[kept[r][i]], "state", r, i) /\
            (mem[kept[r][i]] = raw[r][i] \/ (i < k /\ mem[kept[r][i]] = Sanitised(raw[r][i])))
        BY <1>1, <1>2, <3>2 DEF Good, Held
      <4>3. CASE kept[r][i] # a
        BY <1>2, <1>6, <3>2, <4>1, <4>2, <4>3
      <4>4. CASE kept[r][i] = a
        <5>1. i = k
          BY <1>3, <4>2, <4>4 DEF Is
        <5>2. mem[a] = raw[r][i]
          BY <1>2, <4>2, <4>4, <5>1
        <5> QED
          BY <1>2, <1>5, <1>6, <4>1, <4>4, <5>1, <5>2
      <4> QED
        BY <4>3, <4>4
    <3> QED
      BY <1>2, <2>4, <3>1, <3>2
  <2>5. Held(r)'
    BY <1>1, <2>3, <2>4 DEF Held
  <2>6. Running(r)'
    BY <1>4, <1>6, <2>2, <2>3 DEF Running
  <2> QED
    BY <2>5, <2>6 DEF Good
<1> QED
  BY <1>8, <1>9

(* UntiledFails: only the input of the failed step is sanitised, and its    *)
(* rollout is over.                                                         *)
LEMMA UntiledFailsKeeps ==
  ASSUME IInv, NEW r \in Isolated, UntiledFails(r)
  PROVE  \A q \in Isolated : Good(q)'
<1> DEFINE a == input[r]
           k == Len(kept[r])
<1>1. /\ pc[r] = "ready" /\ ModelOf[r] \notin Tiled
      /\ mem' = Put(mem, a, Sanitised(mem[a])) /\ pc' = [pc EXCEPT ![r] = "failed"]
      /\ UNCHANGED <<steps, input, output, weight, tile, kept, raw>>
  BY DEF UntiledFails
<1>2. Shape /\ Placed(r) /\ Good(r) /\ k \in Nat /\ r \in Rollouts
  BY GoodFacts
<1>3. a \in Buffers /\ Is(mem[a], "state", r, k)
  BY <1>1, <1>2 DEF Placed, Good, Running
<1>4. Sanitised(mem[a]) \in Contents /\ Is(Sanitised(mem[a]), "state", r, k)
  BY <1>2, <1>3, SanitisedFacts DEF Shape
<1>5. mem'[a] = Sanitised(mem[a]) /\ \A c \in Buffers : c # a => mem'[c] = mem[c]
  BY <1>1, <1>2, <1>4, WriteOne
<1>6. ASSUME NEW q \in Isolated, q # r PROVE Good(q)'
  <2>1. UNCHANGED <<pc[q], steps[q], input[q], output[q], weight[q], tile[q], kept[q], raw[q]>>
    BY <1>1, <1>2, <1>6 DEF Shape, Isolated
  <2>2. \A c \in Buffers : mem[c].of = q => mem'[c] = mem[c]
    BY <1>3, <1>5, <1>6 DEF Is
  <2> QED
    BY <2>1, <2>2, GoodFacts, OtherKeeps
<1>7. Good(r)'
  <2>1. pc'[r] = "failed" /\ kept[r] \in Seq(Buffers)
    BY <1>1, <1>2 DEF Shape, Placed
  <2>2. ASSUME NEW i \in 1 .. k PROVE
        /\ Is(mem'[kept[r][i]], "state", r, i)
        /\ mem'[kept[r][i]] \in {raw[r][i], Sanitised(raw[r][i])}
    <3>1. kept[r][i] \in Buffers /\ Is(mem[kept[r][i]], "state", r, i) /\
          (mem[kept[r][i]] = raw[r][i] \/ (i < k /\ mem[kept[r][i]] = Sanitised(raw[r][i])))
      BY <1>1, <1>2, <2>1 DEF Good, Held
    <3>2. CASE kept[r][i] # a
      BY <1>5, <3>1, <3>2
    <3>3. CASE kept[r][i] = a
      <4>1. i = k
        BY <1>3, <3>1, <3>3 DEF Is
      <4> QED
        BY <1>2, <1>4, <1>5, <3>1, <3>3, <4>1
    <3> QED
      BY <3>2, <3>3
  <2>3. Held(r)'
    BY <1>1, <2>1, <2>2 DEF Held
  <2>4. Running(r)'
    BY <2>1 DEF Running
  <2> QED
    BY <2>3, <2>4 DEF Good
<1> QED
  BY <1>6, <1>7

(* BeginTiles: two new buffers, numbered by the counter, with the zeroed    *)
(* sums of the next step.                                                   *)
LEMMA BeginTilesKeeps ==
  ASSUME IInv, NEW r \in Isolated, BeginTiles(r)
  PROVE  \A q \in Isolated : Good(q)'
<1> DEFINE m == ModelOf[r]
           k == Len(kept[r])
           b == Buffer(m, "tile_output", 0)
           w == Buffer(m, "tile_weight", 1)
<1>1. /\ pc[r] = "ready" /\ m \in Tiled
      /\ pc' = [pc EXCEPT ![r] = "tiles"] /\ tile' = [tile EXCEPT ![r] = 0]
      /\ output' = [output EXCEPT ![r] = b] /\ weight' = [weight EXCEPT ![r] = w]
      /\ mem' = Put(Put(mem, b, Part(r, k + 1, 0)), w, Weights(r, k + 1, 0))
      /\ UNCHANGED <<steps, input, kept, raw>>
  BY DEF BeginTiles, Step
<1>2. /\ Shape /\ Numbered /\ Placed(r) /\ Good(r) /\ k \in Nat
      /\ r \in Rollouts /\ m \in Models /\ Private(m)
  BY GoodFacts
<1>3. b \notin Buffers /\ w \notin Buffers
  BY <1>2, Fresh
<1>4. b # w
  <2>1. counter[m] \in Nat /\ heap \in Nat
    BY <1>2 DEF Shape
  <2>2. b.n # w.n
    BY <2>1 DEF Buffer
  <2> QED
    BY <2>2
<1> HIDE DEF b, w
<1>5. Part(r, k + 1, 0) \in Contents /\ Weights(r, k + 1, 0) \in Contents
  <2>1. k + 1 \in Nat /\ 0 \in Nat
    BY <1>2
  <2> QED
    BY <1>2, <2>1, ContentFacts
<1>6. /\ mem'[b] = Part(r, k + 1, 0) /\ mem'[w] = Weights(r, k + 1, 0)
      /\ \A c \in Buffers : mem'[c] = mem[c]
  BY <1>1, <1>2, <1>3, <1>4, <1>5, WriteTwo
<1>7. ASSUME NEW q \in Isolated, q # r PROVE Good(q)'
  <2>1. UNCHANGED <<pc[q], steps[q], input[q], output[q], weight[q], tile[q], kept[q], raw[q]>>
    BY <1>1, <1>2, <1>7 DEF Shape, Isolated
  <2> QED
    BY <1>6, <2>1, GoodFacts, OtherKeeps
<1>8. Good(r)'
  <2>1. /\ pc'[r] = "tiles" /\ tile'[r] = 0 /\ output'[r] = b /\ weight'[r] = w
        /\ kept'[r] = kept[r] /\ raw'[r] = raw[r] /\ input'[r] = input[r]
    BY <1>1, <1>2 DEF Shape
  <2>2. \A i \in 1 .. Len(kept[r]) : mem'[kept[r][i]] = mem[kept[r][i]]
    BY <1>2, <1>6 DEF Placed
  <2>3. Held(r)'
    BY <1>1, <1>2, <2>1, <2>2 DEF Good, Held, Is
  <2>4. input[r] \in Buffers /\ Is(mem[input[r]], "state", r, k)
    BY <1>1, <1>2 DEF Placed, Good, Running
  <2>5. Running(r)'
    BY <1>6, <2>1, <2>4 DEF Running, Is
  <2> QED
    BY <2>3, <2>5 DEF Good
<1> QED
  BY <1>7, <1>8

(* What the sums of an isolated rollout in its tiles hold.                  *)
LEMMA TilesFacts ==
  ASSUME IInv, NEW r \in Isolated, pc[r] = "tiles"
  PROVE  /\ tile[r] \in Nat /\ ModelOf[r] \in Tiled
         /\ input[r] \in Buffers /\ Is(mem[input[r]], "state", r, Len(kept[r]))
         /\ output[r] \in Buffers /\ mem[output[r]] = Part(r, Len(kept[r]) + 1, tile[r])
         /\ weight[r] \in Buffers /\ mem[weight[r]] = Weights(r, Len(kept[r]) + 1, tile[r])
         /\ output[r] # weight[r] /\ output[r] # input[r] /\ weight[r] # input[r]
<1>1. Shape /\ Placed(r) /\ Good(r) /\ r \in Rollouts
  BY GoodFacts
<1>2. /\ tile[r] \in Nat /\ ModelOf[r] \in Tiled
      /\ input[r] \in Buffers /\ Is(mem[input[r]], "state", r, Len(kept[r]))
      /\ output[r] \in Buffers /\ mem[output[r]] = Part(r, Len(kept[r]) + 1, tile[r])
      /\ weight[r] \in Buffers /\ mem[weight[r]] = Weights(r, Len(kept[r]) + 1, tile[r])
  BY <1>1, ModelAssumption DEF Placed, Good, Running, Shape
<1>3. mem[output[r]].tag = "part" /\ mem[weight[r]].tag = "weights" /\ mem[input[r]].tag = "state"
  BY <1>2 DEF Is, Part, Weights, Content
<1>4. output[r] # weight[r] /\ output[r] # input[r] /\ weight[r] # input[r]
  BY <1>3
<1> QED
  BY <1>2, <1>4

(* AddOneTile writes to the output and weight buffers of its own call,      *)
(* which nobody holds yet.                                                  *)
LEMMA AddOneTileKeeps ==
  ASSUME IInv, NEW r \in Isolated, AddOneTile(r)
  PROVE  \A q \in Isolated : Good(q)'
<1> DEFINE k == Len(kept[r])
           n == tile[r]
           b == output[r]
           w == weight[r]
<1>1. /\ pc[r] = "tiles" /\ tile' = [tile EXCEPT ![r] = n + 1]
      /\ mem' = Put(Put(mem, b, AddTile(mem[b], mem[input[r]], n)), w, AddWeights(mem[w], n))
      /\ UNCHANGED <<pc, steps, input, output, weight, kept, raw>>
  BY DEF AddOneTile
<1>2. Shape /\ Placed(r) /\ Good(r) /\ r \in Rollouts /\ k \in Nat
  BY GoodFacts
<1>3. /\ n \in Nat /\ ModelOf[r] \in Tiled
      /\ input[r] \in Buffers /\ Is(mem[input[r]], "state", r, k)
      /\ b \in Buffers /\ mem[b] = Part(r, k + 1, n)
      /\ w \in Buffers /\ mem[w] = Weights(r, k + 1, n)
      /\ b # w /\ b # input[r] /\ w # input[r]
  BY <1>1, TilesFacts
<1>4. AddTile(mem[b], mem[input[r]], n) = Part(r, k + 1, n + 1)
  BY <1>3 DEF AddTile, Is
<1>5. AddWeights(mem[w], n) = Weights(r, k + 1, n + 1)
  <2>1. mem[w].tag = "weights" /\ mem[w].n = n /\ mem[w].of = r /\ mem[w].step = k + 1
    BY <1>3 DEF Weights, Content
  <2> QED
    BY <2>1 DEF AddWeights
<1>6. Part(r, k + 1, n + 1) \in Contents /\ Weights(r, k + 1, n + 1) \in Contents
  <2>1. k + 1 \in Nat /\ n + 1 \in Nat
    BY <1>2, <1>3
  <2> QED
    BY <1>2, <2>1, ContentFacts
<1>7. /\ mem'[b] = Part(r, k + 1, n + 1) /\ mem'[w] = Weights(r, k + 1, n + 1)
      /\ \A c \in Buffers : c # b /\ c # w => mem'[c] = mem[c]
  <2> DEFINE p == Part(r, k + 1, n + 1)
             v == Weights(r, k + 1, n + 1)
  <2>1. mem' = Put(Put(mem, b, p), w, v)
    BY <1>1, <1>4, <1>5
  <2>2. Shape /\ b # w /\ p \in Contents /\ v \in Contents
    BY <1>2, <1>3, <1>6
  <2> HIDE DEF b, w, p, v
  <2>3. /\ mem'[b] = p /\ mem'[w] = v
        /\ \A c \in Buffers : c # b /\ c # w => mem'[c] = mem[c]
    BY <2>1, <2>2, WriteTwo
  <2> QED
    BY <2>3 DEF p, v
<1>8. ASSUME NEW q \in Isolated, q # r PROVE Good(q)'
  <2>1. UNCHANGED <<pc[q], steps[q], input[q], output[q], weight[q], tile[q], kept[q], raw[q]>>
    BY <1>1, <1>2, <1>8 DEF Shape, Isolated
  <2>2. \A c \in Buffers : mem[c].of = q => mem'[c] = mem[c]
    BY <1>3, <1>7, <1>8 DEF Part, Weights, Content
  <2> QED
    BY <2>1, <2>2, GoodFacts, OtherKeeps
<1>9. Good(r)'
  <2>1. tile'[r] = n + 1 /\ kept[r] \in Seq(Buffers)
    BY <1>1, <1>2 DEF Shape, Placed
  <2>2. \A i \in 1 .. k : mem'[kept[r][i]] = mem[kept[r][i]]
    BY <1>2, <1>3, <1>7, <2>1 DEF Good, Held, Is, Part, Weights, Content
  <2>3. Held(r)'
    BY <1>1, <1>2, <1>3, <2>2 DEF Good, Held, Is
  <2>4. Running(r)'
    BY <1>1, <1>3, <1>7, <2>1 DEF Running, Is
  <2> QED
    BY <2>3, <2>4 DEF Good
<1> QED
  BY <1>8, <1>9

(* FinishTiles: the output buffer becomes the state of the next step before *)
(* it is handed out.                                                        *)
LEMMA FinishTilesKeeps ==
  ASSUME IInv, NEW r \in Isolated, NEW nan \in BOOLEAN, FinishTiles(r, nan)
  PROVE  \A q \in Isolated : Good(q)'
<1> DEFINE k == Len(kept[r])
           b == output[r]
           c == State(r, k + 1, nan)
<1>1. /\ pc[r] = "tiles" /\ tile[r] = NumTiles /\ pc' = [pc EXCEPT ![r] = "ready"]
      /\ mem' = Put(mem, b, Quotient(mem[b], mem[weight[r]], nan))
      /\ HandOut(r, b, Quotient(mem[b], mem[weight[r]], nan))
      /\ UNCHANGED <<steps, output, weight, tile>>
  BY DEF FinishTiles
<1>2. Shape /\ Placed(r) /\ Good(r) /\ r \in Rollouts /\ k \in Nat
  BY GoodFacts
<1>3. /\ ModelOf[r] \in Tiled /\ b \in Buffers /\ mem[b] = Part(r, k + 1, NumTiles)
      /\ mem[weight[r]] = Weights(r, k + 1, NumTiles)
  BY <1>1, TilesFacts
<1>4. Quotient(mem[b], mem[weight[r]], nan) = c
  BY <1>3 DEF Quotient, Part, Content
<1>5. c \in Contents /\ Is(c, "state", r, k + 1)
  <2>1. k + 1 \in Nat
    BY <1>2
  <2> QED
    BY <1>2, <2>1, ContentFacts
<1>6. mem'[b] = c /\ \A a \in Buffers : a # b => mem'[a] = mem[a]
  <2>1. mem' = Put(mem, b, c)
    BY <1>1, <1>4
  <2> HIDE DEF b, c
  <2> QED
    BY <1>2, <1>5, <2>1, WriteOne
<1>7. /\ kept' = [kept EXCEPT ![r] = Append(@, b)] /\ input' = [input EXCEPT ![r] = b]
      /\ raw' = [raw EXCEPT ![r] = Append(@, c)]
  BY <1>1, <1>4 DEF HandOut
<1> HIDE DEF c
<1>8. ASSUME NEW q \in Isolated, q # r PROVE Good(q)'
  <2>1. UNCHANGED <<pc[q], steps[q], input[q], output[q], weight[q], tile[q], kept[q], raw[q]>>
    BY <1>1, <1>2, <1>7, <1>8 DEF Shape, Isolated
  <2>2. \A a \in Buffers : mem[a].of = q => mem'[a] = mem[a]
    BY <1>3, <1>6, <1>8 DEF Part, Content
  <2> QED
    BY <2>1, <2>2, GoodFacts, OtherKeeps
<1>9. Good(r)'
  <2>1. kept[r] \in Seq(Buffers) /\ raw[r] \in Seq(Contents) /\ Len(raw[r]) = k
    BY <1>2 DEF Placed, Shape
  <2>2. /\ kept'[r] = Append(kept[r], b) /\ raw'[r] = Append(raw[r], c)
        /\ pc'[r] = "ready" /\ input'[r] = b
    BY <1>1, <1>2, <1>7 DEF Shape
  <2>3. Len(kept'[r]) = k + 1
    BY <2>1, <2>2
  <2>4. ASSUME NEW i \in 1 .. k + 1
        PROVE  Is(mem'[kept'[r][i]], "state", r, i) /\ mem'[kept'[r][i]] = raw'[r][i]
    <3>1. CASE i = k + 1
      BY <1>5, <1>6, <2>1, <2>2, <3>1
    <3>2. CASE i \in 1 .. k
      <4>1. kept'[r][i] = kept[r][i] /\ raw'[r][i] = raw[r][i] /\ kept[r][i] \in Buffers
        BY <2>1, <2>2, <3>2
      <4>2. Is(mem[kept[r][i]], "state", r, i) /\ mem[kept[r][i]] = raw[r][i]
        BY <1>2, <1>3, <3>2 DEF Good, Held
      <4>3. kept[r][i] # b
        BY <1>3, <4>2 DEF Is, Part, Content
      <4> QED
        BY <1>6, <4>1, <4>2, <4>3
    <3> QED
      BY <1>2, <2>4, <3>1, <3>2
  <2>5. Held(r)'
    BY <2>3, <2>4 DEF Held
  <2>6. Running(r)'
    BY <1>5, <1>6, <2>2, <2>3 DEF Running
  <2> QED
    BY <2>5, <2>6 DEF Good
<1> QED
  BY <1>8, <1>9

(* A rollout that ends, or that fails in a tile, writes nothing.            *)
LEMMA QuietKeeps ==
  ASSUME IInv, NEW r \in Isolated, TileFails(r) \/ End(r)
  PROVE  \A q \in Isolated : Good(q)'
<1>1. /\ pc[r] \in {"ready", "tiles"}
      /\ \/ pc' = [pc EXCEPT ![r] = "failed"]
         \/ pc' = [pc EXCEPT ![r] = "done"]
      /\ UNCHANGED <<steps, input, output, weight, tile, kept, raw, mem>>
  BY DEF TileFails, End, memVars
<1>2. Shape /\ Good(r) /\ r \in Rollouts
  BY GoodFacts
<1>3. ASSUME NEW q \in Isolated, q # r PROVE Good(q)'
  <2>1. UNCHANGED <<pc[q], steps[q], input[q], output[q], weight[q], tile[q], kept[q], raw[q]>>
    BY <1>1, <1>2, <1>3 DEF Shape, Isolated
  <2> QED
    BY <1>1, <2>1, GoodFacts, OtherKeeps
<1>4. Good(r)'
  <2>1. pc'[r] \in {"failed", "done"} /\ pc[r] # "failed"
    BY <1>1, <1>2 DEF Shape
  <2> QED
    BY <1>1, <1>2, <2>1 DEF Good, Held, Running, Is
<1> QED
  BY <1>3, <1>4

(* A rollout whose model shares its directory writes to that directory      *)
(* only, over whatever is there, and no isolated rollout has a buffer in    *)
(* it.                                                                      *)
LEMMA SharedKeeps ==
  ASSUME IInv, NEW r \in Rollouts, r \notin Isolated,
         Advance(r) \/ \E n \in 0 .. MaxSteps, nan \in BOOLEAN : Start(r, n, nan)
  PROVE  \A q \in Isolated : Good(q)'
<1> DEFINE m == ModelOf[r]
<1>1. Shape /\ Placed(r) /\ m \in Models
  BY ModelAssumption DEF IInv, Base
<1>2. m \in Tiled
  BY ModelAssumption DEF Isolated, Private
<1>3. \A prefix : \A i \in Nat : Buffer(m, prefix, i).space = Space(m)
  BY <1>1, BufferSpace
<1>4. /\ 0 \in Nat /\ 1 \in Nat
      /\ \A q \in Isolated : q # r
  OBVIOUS
<1>5. \A b \in Buffers : b.space # Space(m) => mem'[b] = mem[b]
  <2>1. CASE \E n \in 0 .. MaxSteps, nan \in BOOLEAN : Start(r, n, nan)
    <3>1. PICK n \in 0 .. MaxSteps, nan \in BOOLEAN : Start(r, n, nan)
      BY <2>1
    <3>2. mem' = Put(mem, Buffer(m, Prefix(r), 0), State(r, 0, nan))
      BY <3>1 DEF Start
    <3> QED
      BY <1>3, <1>4, <3>2 DEF Put, Buffers
  <2>2. CASE BeginTiles(r)
    <3>1. mem' = Put(Put(mem, Buffer(m, "tile_output", 0), Part(r, Step(r) + 1, 0)),
                     Buffer(m, "tile_weight", 1), Weights(r, Step(r) + 1, 0))
      BY <2>2 DEF BeginTiles
    <3> QED
      BY <1>3, <1>4, <3>1 DEF Put, Buffers
  <2>3. CASE AddOneTile(r)
    <3>1. output[r].space = Space(m) /\ weight[r].space = Space(m)
      BY <1>1, <2>3 DEF AddOneTile, Placed
    <3> QED
      BY <2>3, <3>1 DEF AddOneTile, Put, Buffers
  <2>4. CASE \E nan \in BOOLEAN : FinishTiles(r, nan)
    <3>1. output[r].space = Space(m)
      BY <1>1, <2>4 DEF FinishTiles, Placed
    <3> QED
      BY <2>4, <3>1 DEF FinishTiles, Put, Buffers
  <2>5. CASE TileFails(r) \/ End(r)
    BY <2>5 DEF TileFails, End, memVars
  <2> QED
    BY <1>2, <2>1, <2>2, <2>3, <2>4, <2>5 DEF Advance, PredictUntiled, UntiledFails
<1>6. ASSUME NEW q \in Isolated PROVE Good(q)'
  <2>1. UNCHANGED <<pc[q], steps[q], input[q], output[q], weight[q], tile[q], kept[q], raw[q]>>
    <3>1. q # r /\ q \in Rollouts
      BY <1>4 DEF Isolated
    <3>2. CASE \E n \in 0 .. MaxSteps, nan \in BOOLEAN : Start(r, n, nan)
      BY <1>1, <3>1, <3>2 DEF Start, Shape
    <3>3. CASE BeginTiles(r) \/ AddOneTile(r)
      BY <1>1, <3>1, <3>3 DEF BeginTiles, AddOneTile, Shape
    <3>4. CASE \E nan \in BOOLEAN : FinishTiles(r, nan)
      BY <1>1, <3>1, <3>4 DEF FinishTiles, HandOut, Shape
    <3>5. CASE TileFails(r) \/ End(r)
      BY <1>1, <3>1, <3>5 DEF TileFails, End, memVars, Shape
    <3> QED
      BY <1>2, <3>2, <3>3, <3>4, <3>5 DEF Advance, PredictUntiled, UntiledFails
  <2>2. Space(m) # Space(ModelOf[q])
    BY SpaceOfIsolated
  <2> QED
    BY <1>5, <2>1, <2>2, GoodFacts, OtherKeeps
<1> QED
  BY <1>6

(* Every step of the specification keeps the invariant: one case per        *)
(* action of an isolated rollout, and one for the rest.                     *)
LEMMA StepInv == IInv /\ [Next]_vars => IInv'
<1> SUFFICES ASSUME IInv, [Next]_vars PROVE IInv'
  OBVIOUS
<1>1. Base'
  BY BaseStep DEF IInv
<1>2. ASSUME NEW r \in Rollouts, NEW n \in 0 .. MaxSteps, NEW nan \in BOOLEAN, Start(r, n, nan)
      PROVE  \A q \in Isolated : Good(q)'
  BY <1>2, StartKeeps, SharedKeeps
<1>3. ASSUME NEW r \in Isolated, Advance(r)
      PROVE  \A q \in Isolated : Good(q)'
  <2>1. CASE \E nan \in BOOLEAN : PredictUntiled(r, nan)
    BY <2>1, PredictUntiledKeeps
  <2>2. CASE \E nan \in BOOLEAN : FinishTiles(r, nan)
    BY <2>2, FinishTilesKeeps
  <2>3. CASE UntiledFails(r)
    BY <2>3, UntiledFailsKeeps
  <2>4. CASE BeginTiles(r)
    BY <2>4, BeginTilesKeeps
  <2>5. CASE AddOneTile(r)
    BY <2>5, AddOneTileKeeps
  <2>6. CASE TileFails(r) \/ End(r)
    BY <2>6, QuietKeeps
  <2> QED
    BY <1>3, <2>1, <2>2, <2>3, <2>4, <2>5, <2>6 DEF Advance
<1>4. ASSUME NEW r \in Rollouts, r \notin Isolated, Advance(r)
      PROVE  \A q \in Isolated : Good(q)'
  BY <1>4, SharedKeeps
<1>5. ASSUME UNCHANGED vars PROVE \A q \in Isolated : Good(q)'
  BY <1>5 DEF vars, runVars, memVars, IInv, Good, Held, Running, Is
<1>6. \A q \in Isolated : Good(q)'
  BY <1>2, <1>3, <1>4, <1>5 DEF Next
<1> QED
  BY <1>1, <1>6 DEF IInv

(* The strengthening of the invariants below is inductive.                  *)
THEOREM Inductive == Spec => []IInv
<1> QED
  BY InitInv, StepInv, PTL DEF Spec

(* The variables have their types and a counter never falls behind the      *)
(* files of its directory, however many models and rollouts there are       *)
(* (model.py:495-522).                                                      *)
THEOREM TypeCorrect == Spec => []TypeOK
<1>1. IInv => TypeOK
  BY DEF IInv, Base, Shape, Numbered, Placed, TypeOK
<1> QED
  BY <1>1, Inductive, PTL

(* A step a consumer holds is never overwritten by a later step, another    *)
(* rollout or another model, if no other model was given the state          *)
(* directory of its own; an untiled model sanitises it once                 *)
(* (model.py:686-692, main.cpp:457-462).  Models that do share one make no  *)
(* difference to the rest.                                                  *)
THEOREM HeldSafe == Spec => []HeldOnlySanitised
<1>1. IInv => HeldOnlySanitised
  BY DEF IInv, Good, Held, HeldOnlySanitised, Step
<1> QED
  BY <1>1, Inductive, PTL


-----------------------------------------------------------------------------
(* The refinement.                                                          *)

(* What the consumers see in a state of the invariant: the steps 1, 2, ...  *)
(* of their own rollout.                                                    *)
LEMMA SeenFacts ==
  ASSUME IInv
  PROVE  Seen = [r \in Isolated |-> [i \in 1 .. Len(kept[r]) |-> <<r, i>>]]
<1>1. \A r \in Isolated : \A i \in 1 .. Len(kept[r]) :
        mem[kept[r][i]].of = r /\ mem[kept[r][i]].step = i
  BY DEF IInv, Good, Held, Is
<1> QED
  BY <1>1 DEF Seen

(* The same after a step.                                                   *)
LEMMA SeenFactsNext ==
  ASSUME IInv'
  PROVE  Seen' = [r \in Isolated |-> [i \in 1 .. Len(kept'[r]) |-> <<r, i>>]]
<1>1. \A r \in Isolated : \A i \in 1 .. Len(kept'[r]) :
        mem'[kept'[r][i]].of = r /\ mem'[kept'[r][i]].step = i
  BY DEF IInv, Good, Held, Is
<1> QED
  BY <1>1 DEF Seen

(* A step either leaves every list of held buffers as long as it was, or    *)
(* hands out one buffer of a rollout that is not over.                      *)
LEMMA HandOutStep ==
  ASSUME IInv, IInv', NEW r \in Isolated, r \notin Over, NEW b,
         kept' = [kept EXCEPT ![r] = Append(@, b)], UNCHANGED Over
  PROVE  Promise!HandOut(r)
<1>1. Seen = [q \in Isolated |-> [i \in 1 .. Len(kept[q]) |-> <<q, i>>]]
  BY SeenFacts
<1>2. Seen' = [q \in Isolated |-> [i \in 1 .. Len(kept'[q]) |-> <<q, i>>]]
  BY SeenFactsNext
<1>3. \A q \in Isolated : kept[q] \in Seq(Buffers) /\ Len(kept[q]) \in Nat
  BY GoodFacts DEF Placed
<1>4. Len(kept'[r]) = Len(kept[r]) + 1 /\ \A q \in Isolated : q # r => kept'[q] = kept[q]
  <2>1. kept'[r] = Append(kept[r], b)
    BY DEF IInv, Base, Shape, Isolated
  <2> QED
    BY <1>3, <2>1 DEF IInv, Base, Shape, Isolated
<1>5. Len(Seen[r]) = Len(kept[r])
  BY <1>1, <1>3
<1>6. Append(Seen[r], <<r, Len(Seen[r]) + 1>>) = [i \in 1 .. Len(kept[r]) + 1 |-> <<r, i>>]
  BY <1>1, <1>3, <1>5
<1>7. Seen' = [Seen EXCEPT ![r] = Append(@, <<r, Len(@) + 1>>)]
  <2>1. Seen'[r] = Append(Seen[r], <<r, Len(Seen[r]) + 1>>)
    BY <1>2, <1>4, <1>6
  <2>2. \A q \in Isolated : q # r => Seen'[q] = Seen[q]
    BY <1>1, <1>2, <1>4
  <2>3. DOMAIN Seen = Isolated /\ Seen' = [q \in Isolated |-> Seen'[q]]
    BY <1>1, <1>2
  <2> HIDE DEF Seen
  <2> QED
    BY <2>1, <2>2, <2>3
<1> QED
  BY <1>7 DEF Promise!HandOut

(* The consumers of every model whose state directory is its own get        *)
(* exactly the steps of their own rollouts, and keep them, whichever other  *)
(* models share one (model.py:495-566, 677-692, 924-937).                   *)
THEOREM RolloutImplementsTrajectory == Spec => ImplementsTrajectory
<1>1. Init => Promise!Init
  BY DEF Init, Promise!Init, Seen, Over, Isolated
<1>2. IInv /\ IInv' /\ [Next]_vars => [Promise!Next]_(Promise!vars)
  <2> SUFFICES ASSUME IInv, IInv', [Next]_vars PROVE [Promise!Next]_(Promise!vars)
    OBVIOUS
  <2>0. /\ pc \in [Rollouts -> {"new", "ready", "tiles", "done", "failed"}]
        /\ Isolated \subseteq Rollouts
    BY DEF IInv, Base, Shape, Isolated
  <2>1. ASSUME UNCHANGED kept PROVE UNCHANGED Seen
    <3>1. Seen = [q \in Isolated |-> [i \in 1 .. Len(kept[q]) |-> <<q, i>>]]
      BY SeenFacts
    <3>2. Seen' = [q \in Isolated |-> [i \in 1 .. Len(kept'[q]) |-> <<q, i>>]]
      BY SeenFactsNext
    <3> QED
      BY <2>1, <3>1, <3>2
  <2>2. ASSUME NEW r \in Rollouts, NEW n \in 0 .. MaxSteps, NEW nan \in BOOLEAN, Start(r, n, nan)
        PROVE  UNCHANGED <<Seen, Over>>
    <3>1. UNCHANGED kept /\ pc' = [pc EXCEPT ![r] = "ready"] /\ pc[r] = "new"
      BY <2>2 DEF Start
    <3> QED
      BY <2>0, <2>1, <3>1 DEF Over
  <2>3. ASSUME NEW r \in Isolated, Advance(r)
        PROVE  Promise!HandOut(r) \/ Promise!End(r) \/ UNCHANGED <<Seen, Over>>
    <3>1. CASE \E nan \in BOOLEAN : PredictUntiled(r, nan)
      <4>1. PICK nan \in BOOLEAN : PredictUntiled(r, nan)
        BY <3>1
      <4>2. r \notin Over /\ UNCHANGED Over
        BY <4>1 DEF PredictUntiled, Over
      <4> QED
        BY <4>1, <4>2, HandOutStep DEF PredictUntiled, HandOut
    <3>2. CASE \E nan \in BOOLEAN : FinishTiles(r, nan)
      <4>1. PICK nan \in BOOLEAN : FinishTiles(r, nan)
        BY <3>2
      <4>2. r \notin Over /\ UNCHANGED Over
        BY <2>0, <4>1 DEF FinishTiles, Over
      <4> QED
        BY <4>1, <4>2, HandOutStep DEF FinishTiles, HandOut
    <3>3. CASE BeginTiles(r) \/ AddOneTile(r)
      <4>1. UNCHANGED kept /\ (UNCHANGED pc \/ (pc[r] = "ready" /\ pc' = [pc EXCEPT ![r] = "tiles"]))
        BY <3>3 DEF BeginTiles, AddOneTile
      <4> QED
        BY <2>0, <2>1, <4>1 DEF Over
    <3>4. CASE UntiledFails(r) \/ TileFails(r) \/ End(r)
      <4>1. UNCHANGED kept /\ (pc' = [pc EXCEPT ![r] = "failed"] \/ pc' = [pc EXCEPT ![r] = "done"])
        BY <3>4 DEF UntiledFails, TileFails, End
      <4>2. Over' = Over \cup {r}
        BY <2>0, <4>1 DEF Over
      <4> QED
        BY <2>1, <4>1, <4>2 DEF Promise!End
    <3> QED
      BY <2>3, <3>1, <3>2, <3>3, <3>4 DEF Advance
  <2>4. ASSUME NEW r \in Rollouts, r \notin Isolated, Advance(r)
        PROVE  UNCHANGED <<Seen, Over>>
    <3>1. \A q \in Isolated : kept'[q] = kept[q] /\ pc'[q] = pc[q]
      <4>1. \A q \in Isolated : q # r /\ q \in Rollouts
        BY <2>0, <2>4
      <4>2. Shape
        BY DEF IInv, Base
      <4>3. CASE \E nan \in BOOLEAN : PredictUntiled(r, nan) \/ FinishTiles(r, nan)
        BY <4>1, <4>2, <4>3 DEF PredictUntiled, FinishTiles, HandOut, Shape
      <4>4. CASE BeginTiles(r) \/ AddOneTile(r)
        BY <4>1, <4>2, <4>4 DEF BeginTiles, AddOneTile, Shape
      <4>5. CASE UntiledFails(r) \/ TileFails(r) \/ End(r)
        BY <4>1, <4>2, <4>5 DEF UntiledFails, TileFails, End, Shape
      <4> QED
        BY <2>4, <4>3, <4>4, <4>5 DEF Advance
    <3>2. Seen = [q \in Isolated |-> [i \in 1 .. Len(kept[q]) |-> <<q, i>>]]
      BY SeenFacts
    <3>3. Seen' = [q \in Isolated |-> [i \in 1 .. Len(kept'[q]) |-> <<q, i>>]]
      BY SeenFactsNext
    <3>4. Seen' = Seen
      BY <3>1, <3>2, <3>3
    <3>5. Over' = Over
      BY <3>1 DEF Over
    <3> QED
      BY <3>4, <3>5
  <2>5. CASE UNCHANGED vars
    <3>1. UNCHANGED <<kept, pc>>
      BY <2>5 DEF vars, runVars
    <3> QED
      BY <2>1, <3>1 DEF Over, Promise!vars
  <2> QED
    BY <2>0, <2>2, <2>3, <2>4, <2>5 DEF Next, Promise!Next, Promise!vars
<1> QED
  BY <1>1, <1>2, Inductive, PTL DEF Spec, ImplementsTrajectory, Promise!Spec

=============================================================================
