-------------------------------- MODULE Rollout --------------------------------
(***************************************************************************)
(* Autoregressive rollouts: iter_forecast and predict_one_step of several  *)
(* model objects, with the state buffers they allocate and share.          *)
(*                                                                         *)
(* A model object runs the whole graph at once (untiled) or tile by tile   *)
(* (Tiled, see TiledPredict); a tiled one keeps its states in RAM or in    *)
(* files of its state directory (Memmap).  The output buffer of a step is  *)
(* handed to the consumer AND is the input of the next step, so a step the *)
(* consumer collected can still change.                                    *)
(*                                                                         *)
(* One thread uses a model object: its rollouts interleave where they      *)
(* yield.  Different model objects run in other threads or processes and   *)
(* interleave everywhere.  The content of a buffer is abstracted to what   *)
(* it is a state of.                                                       *)
(***************************************************************************)
EXTENDS Integers, Sequences, FiniteSets

CONSTANTS
  Models,
  Tiled,        \* models with spatial_tiling
  Memmap,       \* those whose tile_state_backend is "memmap"
  DirArg,       \* DirArg[m]: the tile_state_dir argument, NoDir for None
  NoDir,
  Rollouts,     \* calls of iter_forecast and predict_one_step
  ModelOf,      \* the model object a rollout belongs to
  OneStep,      \* the rollouts that are predict_one_step
  MaxStarted,   \* bound on the rollouts begun
  MaxSteps,     \* bound on the steps argument of iter_forecast
  NumTiles,
  NoBuffer

ASSUME ModelAssumption ==
  /\ Memmap \subseteq Tiled /\ Tiled \subseteq Models
  /\ ModelOf \in [Rollouts -> Models]
  /\ OneStep \subseteq Rollouts
  /\ MaxSteps \in Nat
  /\ NumTiles \in Nat \ {0}

VARIABLES
  pc,        \* "new", "ready", "tiles", "done" or "failed"
  steps,     \* the steps argument
  input,     \* input_buffer
  output,    \* output_buffer of _predict_tiled
  weight,    \* weight_buffer of _predict_tiled
  tile,      \* tiles of this step already added
  kept,      \* the buffers handed out so far; the consumer holds them all
  raw,       \* what each of them held when it was handed out
  counter,   \* _tile_state_counter of each model
  heap,      \* number of arrays allocated in RAM
  mem        \* content of every buffer

runVars == <<pc, steps, input, output, weight, tile, kept, raw>>
memVars == <<counter, heap, mem>>
vars == <<runVars, memVars>>

-----------------------------------------------------------------------------
(* Contents.  "part" and "weights" are the two sums of a tiled step after n *)
(* tiles; nan says that a state has non-finite values.                      *)

Content(tag, r, k, n, nan) == [tag |-> tag, of |-> r, step |-> k, n |-> n, nan |-> nan]

State(r, k, nan) == Content("state", r, k, 0, nan)
Part(r, k, n)    == Content("part", r, k, n, FALSE)
Weights(r, k, n) == Content("weights", r, k, n, FALSE)
Junk             == Content("junk", NoBuffer, 0, 0, FALSE)

(* NaN and Inf become 0 in place.                                           *)
Sanitised(c) == [c EXCEPT !.nan = FALSE]

(* The graph applied to a state.                                            *)
StepOf(c, nan) == IF c.tag = "state" THEN State(c.of, c.step + 1, nan) ELSE Junk

(* One tile's rows, computed from state c, added to the sum s.              *)
AddTile(s, c, n) ==
  IF c.tag = "state" /\ s = Part(c.of, c.step + 1, n)
  THEN Part(c.of, c.step + 1, n + 1) ELSE Junk

AddWeights(w, n) ==
  IF w.tag = "weights" /\ w.n = n THEN Weights(w.of, w.step, n + 1) ELSE Junk

Quotient(s, w, nan) ==
  IF s.tag = "part" /\ s.n = NumTiles /\ w = Weights(s.of, s.step, NumTiles)
  THEN State(s.of, s.step, nan) ELSE Junk

-----------------------------------------------------------------------------
(* Buffers.  The directory of a model without tile_state_dir is a fresh     *)
(* temporary one, named here after the model.                               *)

Heap == <<"heap", NoDir>>

StateDir(m) == IF DirArg[m] = NoDir THEN <<"workspace", m>> ELSE <<"dir", DirArg[m]>>

(* Nothing keeps the user from giving two models the same tile_state_dir.   *)
(* Each counts its files for itself, so they open the same ones.            *)
Private(m) == m \in Memmap => \A m2 \in Memmap : m2 # m => StateDir(m2) # StateDir(m)

Isolated == {r \in Rollouts : Private(ModelOf[r])}

(* Plausible slips: every model spills to one temporary directory, and a    *)
(* counter advanced for the output buffer but not for the weights.          *)
BufferInTemp(m, prefix, i) ==
  IF m \in Memmap
  THEN [space |-> <<"dir", NoDir>>, prefix |-> prefix, n |-> counter[m] + i]
  ELSE [space |-> Heap, prefix |-> "array", n |-> heap + i]

TakenOncePerStep(m, n) ==
  /\ counter' = IF m \in Memmap THEN [counter EXCEPT ![m] = @ + 1] ELSE counter
  /\ heap' = IF m \in Memmap THEN heap ELSE heap + n

(* The i-th buffer allocated from here: a file whose name carries prefix    *)
(* and counter, opened with mode "w+", or a new array.                      *)
Buffer(m, prefix, i) ==
  IF m \in Memmap
  THEN [space |-> StateDir(m), prefix |-> prefix, n |-> counter[m] + i]
  ELSE [space |-> Heap, prefix |-> "array", n |-> heap + i]

Taken(m, n) ==
  /\ counter' = IF m \in Memmap THEN [counter EXCEPT ![m] = @ + n] ELSE counter
  /\ heap' = IF m \in Memmap THEN heap ELSE heap + n

Put(f, b, c) == [a \in DOMAIN f \cup {b} |-> IF a = b THEN c ELSE f[a]]

-----------------------------------------------------------------------------

Step(r) == Len(kept[r])

(* No call of predict of the same model is under way.                       *)
ThreadFree(r) == \A q \in Rollouts : ModelOf[q] = ModelOf[r] => pc[q] # "tiles"

Prefix(r) == IF r \in OneStep THEN "predict_input" ELSE "tile_input"

HandOutStaleInput(r, b, c) ==
  /\ kept' = [kept EXCEPT ![r] = Append(@, b)]
  /\ raw' = [raw EXCEPT ![r] = Append(@, c)]
  /\ UNCHANGED input

HandOut(r, b, c) ==
  /\ kept' = [kept EXCEPT ![r] = Append(@, b)]
  /\ raw' = [raw EXCEPT ![r] = Append(@, c)]
  /\ input' = [input EXCEPT ![r] = b]

Init ==
  /\ pc = [r \in Rollouts |-> "new"]
  /\ steps = [r \in Rollouts |-> 0]
  /\ input = [r \in Rollouts |-> NoBuffer]
  /\ output = [r \in Rollouts |-> NoBuffer]
  /\ weight = [r \in Rollouts |-> NoBuffer]
  /\ tile = [r \in Rollouts |-> 0]
  /\ kept = [r \in Rollouts |-> <<>>]
  /\ raw = [r \in Rollouts |-> <<>>]
  /\ counter = [m \in Models |-> 0]
  /\ heap = 0
  /\ mem = [b \in {} |-> Junk]

(* The body up to the loop: the initial state is extracted into an array    *)
(* of its own and, for a tiled model, materialised.                         *)
Start(r, n, nan) ==
  LET b == Buffer(ModelOf[r], Prefix(r), 0) IN
  /\ pc[r] = "new" /\ Cardinality({q \in Rollouts : pc[q] # "new"}) < MaxStarted
  /\ ThreadFree(r)
  /\ r \in OneStep => n = 1
  /\ pc' = [pc EXCEPT ![r] = "ready"]
  /\ steps' = [steps EXCEPT ![r] = n]
  /\ input' = [input EXCEPT ![r] = b]
  /\ mem' = Put(mem, b, State(r, 0, nan))
  /\ Taken(ModelOf[r], 1)
  /\ UNCHANGED <<output, weight, tile, kept, raw>>

(* predict of the C++ engine on the whole state: it sanitises the caller's  *)
(* buffer in place and returns a new array.                                 *)
PredictUntiled(r, nan) ==
  LET c == mem[input[r]]
      b == Buffer(ModelOf[r], "array", 0)
      d == StepOf(c, nan)
  IN
  /\ pc[r] = "ready" /\ Step(r) < steps[r]
  /\ ModelOf[r] \notin Tiled
  /\ mem' = Put(Put(mem, input[r], Sanitised(c)), b, d)
  /\ HandOut(r, b, d)
  /\ Taken(ModelOf[r], 1)
  /\ UNCHANGED <<pc, steps, output, weight, tile>>

(* session->Run throws after the buffer was sanitised.                      *)
UntiledFails(r) ==
  /\ pc[r] = "ready" /\ Step(r) < steps[r]
  /\ ModelOf[r] \notin Tiled
  /\ mem' = Put(mem, input[r], Sanitised(mem[input[r]]))
  /\ pc' = [pc EXCEPT ![r] = "failed"]
  /\ UNCHANGED <<steps, input, output, weight, tile, kept, raw, counter, heap>>

(* Entry of _predict_tiled: two zeroed buffers.                             *)
BeginTiles(r) ==
  LET m == ModelOf[r]
      b == Buffer(m, "tile_output", 0)
      w == Buffer(m, "tile_weight", 1)
  IN
  /\ pc[r] = "ready" /\ Step(r) < steps[r]
  /\ m \in Tiled
  /\ ThreadFree(r)
  /\ pc' = [pc EXCEPT ![r] = "tiles"]
  /\ output' = [output EXCEPT ![r] = b]
  /\ weight' = [weight EXCEPT ![r] = w]
  /\ tile' = [tile EXCEPT ![r] = 0]
  /\ mem' = Put(Put(mem, b, Part(r, Step(r) + 1, 0)), w, Weights(r, Step(r) + 1, 0))
  /\ Taken(m, 2)
  /\ UNCHANGED <<steps, input, kept, raw>>

(* One tile: a copy of its rows is gathered, so sanitising them leaves the  *)
(* input buffer alone.                                                      *)
AddOneTile(r) ==
  /\ pc[r] = "tiles" /\ tile[r] < NumTiles
  /\ mem' = Put(Put(mem, output[r], AddTile(mem[output[r]], mem[input[r]], tile[r])),
                weight[r], AddWeights(mem[weight[r]], tile[r]))
  /\ tile' = [tile EXCEPT ![r] = @ + 1]
  /\ UNCHANGED <<pc, steps, input, output, weight, kept, raw, counter, heap>>

FinishTiles(r, nan) ==
  LET c == Quotient(mem[output[r]], mem[weight[r]], nan) IN
  /\ pc[r] = "tiles" /\ tile[r] = NumTiles
  /\ pc' = [pc EXCEPT ![r] = "ready"]
  /\ mem' = Put(mem, output[r], c)
  /\ HandOut(r, output[r], c)
  /\ UNCHANGED <<steps, output, weight, tile, counter, heap>>

(* A tile raises; the buffers stay as they are.                             *)
TileFails(r) ==
  /\ pc[r] = "tiles" /\ tile[r] < NumTiles
  /\ pc' = [pc EXCEPT ![r] = "failed"]
  /\ UNCHANGED <<steps, input, output, weight, tile, kept, raw, memVars>>

(* The loop is over, or the consumer asks for no more.                      *)
End(r) ==
  /\ pc[r] = "ready"
  /\ pc' = [pc EXCEPT ![r] = "done"]
  /\ UNCHANGED <<steps, input, output, weight, tile, kept, raw, memVars>>

Advance(r) ==
  \/ \E nan \in BOOLEAN : PredictUntiled(r, nan) \/ FinishTiles(r, nan)
  \/ UntiledFails(r)
  \/ BeginTiles(r)
  \/ AddOneTile(r)
  \/ TileFails(r)
  \/ End(r)

Next ==
  \E r \in Rollouts :
    \/ \E n \in 0 .. MaxSteps, nan \in BOOLEAN : Start(r, n, nan)
    \/ Advance(r)

Spec == Init /\ [][Next]_vars

-----------------------------------------------------------------------------

Buffers == DOMAIN mem

Contents ==
  [tag : {"state", "part", "weights", "junk"}, of : Rollouts \cup {NoBuffer},
   step : Nat, n : Nat, nan : BOOLEAN]

(* The variables have their types, and every buffer bears a number that     *)
(* some model of its directory has given out: the next file a model opens   *)
(* with "w+" truncates none where the directory is the model's own          *)
(* (model.py:505-512).                                                      *)
TypeOK ==
  /\ pc \in [Rollouts -> {"new", "ready", "tiles", "done", "failed"}]
  /\ steps \in [Rollouts -> 0 .. MaxSteps \cup {1}]
  /\ tile \in [Rollouts -> 0 .. NumTiles]
  /\ counter \in [Models -> Nat] /\ heap \in Nat
  /\ mem \in [Buffers -> Contents]
  /\ \A r \in Rollouts : kept[r] \in Seq(Buffers) /\ Len(kept[r]) <= steps[r]
  /\ \A b \in Buffers :
       \/ b.space = Heap /\ b.n \in 0 .. heap - 1
       \/ \E m \in Memmap : b.space = StateDir(m) /\ b.n \in 0 .. counter[m] - 1

(* A step a consumer holds changes in one way only: an untiled model that   *)
(* took it as the input of the next step has made its NaN and Inf zero in   *)
(* the consumer's array (main.cpp:457-462).  Whatever the other rollouts    *)
(* allocate, those of models that overwrite each other's files included,    *)
(* and wherever a step fails, nothing else writes to it.  The rollouts of   *)
(* two models that share a directory are not promised this.                 *)
HeldOnlySanitised ==
  \A r \in Isolated : \A i \in 1 .. Len(kept[r]) :
    \/ mem[kept[r][i]] = raw[r][i]
    \/ /\ ModelOf[r] \notin Tiled
       /\ i < Step(r) \/ pc[r] = "failed"
       /\ mem[kept[r][i]] = Sanitised(raw[r][i])

(* What the consumers see in the buffers they hold.                         *)
Seen ==
  [r \in Isolated |->
     [i \in 1 .. Len(kept[r]) |-> <<mem[kept[r][i]].of, mem[kept[r][i]].step>>]]

Over == {r \in Isolated : pc[r] \in {"done", "failed"}}

Promise == INSTANCE Trajectory WITH Rollouts <- Isolated, seen <- Seen, over <- Over

(* Every rollout of a model with a directory of its own hands out the steps *)
(* of its own trajectory, in order, and each stays the step it is           *)
(* (model.py:677-692, 924-937), whatever the models do that share one.      *)
ImplementsTrajectory == Promise!Spec

(* What the docstring of forecast_export says of the archive it writes from *)
(* list(iter_forecast(...)): "trajectory - raw model output".               *)
CollectedIsRaw ==
  \A r \in Rollouts : pc[r] = "done" =>
    \A i \in 1 .. Len(kept[r]) : mem[kept[r][i]] = raw[r][i]

=============================================================================
