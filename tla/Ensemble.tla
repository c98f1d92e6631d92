------------------------------- MODULE Ensemble -------------------------------
(***************************************************************************)
(* predict_ensemble: the request is checked by model.py and main.cpp, then *)
(* one C++ call runs members trajectories of steps steps in two work       *)
(* buffers, and aggregates them on the fly: Welford's mean and M2 per cell *)
(* and row, hit counters per rule, row and node.                           *)
(*                                                                         *)
(* A cell is a node and a channel.  Values are integers, NaN, PosInf or    *)
(* NegInf.                                                                 *)
(* The accumulators are exact: mean is kept in units of 1/Scale, M2 in     *)
(* units of 1/Scale^2, so that every quotient by a member number is an     *)
(* integer; the code rounds to float32.  NaN in an accumulator stands for  *)
(* any non-finite float.                                                   *)
(*                                                                         *)
(* total, squares, poisoned and hits are not in the code: they are what a  *)
(* plain two-pass computation over the members' outputs would have, per    *)
(* step, and the properties compare the accumulators with them.            *)
(***************************************************************************)
EXTENDS Integers, Sequences, FiniteSets

CONSTANTS
  Nodes,
  Vars, Levels, \* a channel is a variable at a pressure level
  AllLevels,    \* a threshold that names no level
  Labels,       \* names of thresholds without an @
  Static,       \* the geopotential
  Graph(_),     \* the ONNX graph and the constraints graph, on a finite state
  Initial,      \* states the caller may start from
  Noise,        \* integers the Gaussian draw is abstracted to
  Requests,     \* arguments of predict_ensemble
  MaxMembers,
  Scale,
  NaN, PosInf, NegInf

Channels == Vars \X Levels
Cell == Nodes \X Channels
Value == Int \cup {NaN, PosInf, NegInf}

ASSUME ValueAssumption ==
  /\ {NaN, PosInf, NegInf} \cap Int = {}
  /\ NaN # PosInf /\ NaN # NegInf /\ PosInf # NegInf
  /\ Noise \subseteq Int
  /\ Initial \subseteq [Cell -> Value]
  /\ AllLevels \notin Levels

(* A name with @ and a level is not a name without one.                     *)
ASSUME LabelAssumption == \A n \in Labels, l \in Levels : <<n, l>> \notin Labels

(* A multiple of every m * (m - 1) makes the quotients below exact.         *)
ASSUME ScaleAssumption ==
  /\ MaxMembers \in Nat
  /\ Scale \in Nat \ {0}
  /\ \A m \in 2 .. MaxMembers : \E k \in 1 .. Scale : Scale = (m * (m - 1)) * k

(* A request: steps, members, the perturbation scale (a number, 0 for None, *)
(* or one for each variable that is named), the list of aggregate steps and *)
(* the thresholds in the order of their dictionary; parsed says that every  *)
(* expression parses and names a variable and a level of the model.         *)
ASSUME RequestAssumption ==
  \A q \in Requests :
    /\ q.steps \in Int /\ q.members \in Int /\ q.members <= MaxMembers
    /\ q.perVariable \in BOOLEAN /\ q.scalar \in Int
    /\ \A v \in Vars \cap DOMAIN q.named : q.named[v] \in Int
    /\ q.aggregate \in Seq(Int)
    /\ DOMAIN q.thresholds \subseteq Nat
    /\ \A i \in DOMAIN q.thresholds :
         /\ q.thresholds[i].var \in Vars /\ q.thresholds[i].level \in Levels \cup {AllLevels}
         /\ q.thresholds[i].greater \in BOOLEAN /\ q.thresholds[i].value \in Int
         /\ \A j \in DOMAIN q.thresholds : i # j => q.thresholds[i].name # q.thresholds[j].name
    /\ q.parsed \in BOOLEAN /\ q.tiled \in BOOLEAN

VARIABLES
  phase,      \* "new", "member", "run", "aggregate", "feed", "done", "rejected", "failed"
  request,
  initial,    \* initial_state
  agg,        \* agg_steps
  member,     \* m, from 1
  step,       \* step, from 0
  bufIn, bufOut,
  mean, m2,   \* mean_ptr and M2, by row
  counter,    \* prob_counters, by row, rule and node
  maps,       \* the rule whose map each name of the result shows
  total, squares, poisoned, hits   \* the reference

inputs == <<request, initial, agg>>
sums == <<mean, m2, counter, maps, total, squares, poisoned, hits>>
vars == <<phase, inputs, member, step, bufIn, bufOut, sums>>

Rows == DOMAIN agg
Steps == 0 .. request.steps - 1

Threshold(r) == request.thresholds[r[1]]

(* _parse_threshold_expr: a threshold without a level is a rule per level.  *)
Rules ==
  {r \in (DOMAIN request.thresholds) \X Levels : Threshold(r).level \in {AllLevels, r[2]}}

Rule(r) ==
  [channel |-> <<Threshold(r).var, r[2]>>,
   greater |-> Threshold(r).greater, value |-> Threshold(r).value]

-----------------------------------------------------------------------------
(* Plausible slips, each the body of one definition below.                  *)

SanitiseNaNOnly(x) == [c \in Cell |-> IF x[c] = NaN THEN 0 ELSE x[c]]

WelfordDeltaTwice(v, old, new) == (v * Scale - old) * (v * Scale - old)

NamedWithoutLevel(r) == Threshold(r).name

StartsFrom == IF member = 0 THEN initial ELSE bufIn

ValidNoRange(q) == q.members >= 1 /\ q.steps >= 1 /\ q.parsed /\ ~q.tiled

-----------------------------------------------------------------------------

(* NaN and Inf become 0.                                                    *)
Sanitise(x) == [c \in Cell |-> IF x[c] \in Int THEN x[c] ELSE 0]

(* _build_channel_scales: a number spares the geopotential.                 *)
ScaleOf(q, ch) ==
  IF q.perVariable THEN IF ch[1] \in DOMAIN q.named THEN q.named[ch[1]] ELSE 0
  ELSE IF ch[1] = Static THEN 0 ELSE q.scalar

(* perturb: only channels with a positive scale receive noise.              *)
Perturbed(x, noise) ==
  [c \in Cell |-> IF ScaleOf(request, c[2]) > 0 /\ x[c] \in Int
                  THEN x[c] + ScaleOf(request, c[2]) * noise[c] ELSE x[c]]

MemberStart == initial

(* step_to_agg[s] = a: the last of equal entries wins.                      *)
Receives(a, s) == agg[a] = s /\ \A b \in Rows : agg[b] = s => b <= a

(* Welford's update with the value v of member m.                           *)
NextMean(v, old, m) ==
  IF v \in Int /\ old \in Int THEN old + (v * Scale - old) \div m ELSE NaN

WelfordTerm(v, old, new) == (v * Scale - old) * (v * Scale - new)

NextM2(v, m2Old, old, new) ==
  IF v \in Int /\ old \in Int /\ m2Old \in Int THEN m2Old + WelfordTerm(v, old, new) ELSE NaN

(* A comparison with NaN is false.                                          *)
Hit(rule, v) ==
  IF v \in Int THEN IF rule.greater THEN v > rule.value ELSE v < rule.value
  ELSE v = IF rule.greater THEN PosInf ELSE NegInf

(* The checks of the Python and the C++ entry; a tiled model has an adapter *)
(* for its engine, which has no predict_ensemble.                           *)
Valid(q) ==
  /\ q.members >= 1 /\ q.steps >= 1
  /\ q.perVariable => DOMAIN q.named \subseteq Vars
  /\ q.parsed /\ ~q.tiled
  /\ \A i \in 1 .. Len(q.aggregate) : q.aggregate[i] \in 0 .. q.steps - 1

(* agg_steps: all steps for an empty list, else the list sorted, with its   *)
(* repetitions.                                                             *)
SortOf(s) ==
  {t \in [1 .. Len(s) -> {s[i] : i \in 1 .. Len(s)}] :
     /\ \A i, j \in 1 .. Len(s) : i < j => t[i] <= t[j]
     /\ \A v \in {s[i] : i \in 1 .. Len(s)} :
          Cardinality({i \in 1 .. Len(s) : t[i] = v}) = Cardinality({i \in 1 .. Len(s) : s[i] = v})}

AggSteps(q) ==
  IF q.aggregate = <<>> THEN {[i \in 1 .. q.steps |-> i - 1]} ELSE SortOf(q.aggregate)

Zeros(S) == [x \in S |-> 0]

Init ==
  /\ phase = "new"
  /\ request \in Requests
  /\ initial \in Initial
  /\ agg = <<>>
  /\ member = 0 /\ step = 0
  /\ bufIn = Zeros(Cell) /\ bufOut = Zeros(Cell)
  /\ mean = <<>> /\ m2 = <<>> /\ counter = <<>> /\ maps = <<>>
  /\ total = <<>> /\ squares = <<>> /\ poisoned = <<>> /\ hits = <<>>

Refuse ==
  /\ phase = "new" /\ ~Valid(request)
  /\ phase' = "rejected"
  /\ UNCHANGED <<inputs, member, step, bufIn, bufOut, sums>>

Accept ==
  /\ phase = "new" /\ Valid(request)
  /\ phase' = "member"
  /\ agg' \in AggSteps(request)
  /\ mean' = [a \in DOMAIN agg' |-> Zeros(Cell)]
  /\ m2' = [a \in DOMAIN agg' |-> Zeros(Cell)]
  /\ counter' = [a \in DOMAIN agg' |-> Zeros(Rules \X Nodes)]
  /\ total' = [s \in Steps |-> Zeros(Cell)]
  /\ squares' = [s \in Steps |-> Zeros(Cell)]
  /\ poisoned' = [s \in Steps |-> {}]
  /\ hits' = [s \in Steps |-> Zeros(Rules \X Nodes)]
  /\ UNCHANGED <<request, initial, member, step, bufIn, bufOut, maps>>

(* The head of the member loop.                                             *)
StartMember(noise) ==
  /\ phase = "member" /\ member < request.members
  /\ phase' = "run"
  /\ member' = member + 1
  /\ step' = 0
  /\ bufIn' = Sanitise(Perturbed(MemberStart, noise))
  /\ UNCHANGED <<inputs, bufOut, sums>>

(* One run of the session, which yields a value per cell or throws.         *)
RunGraph ==
  /\ phase = "run" /\ Graph(bufIn) \in [Cell -> Value]
  /\ phase' = "aggregate"
  /\ bufOut' = Graph(bufIn)
  /\ UNCHANGED <<inputs, member, step, bufIn, sums>>

(* A session throws: the exception takes every accumulator with it.         *)
RunFails ==
  /\ phase = "run"
  /\ phase' = "failed"
  /\ UNCHANGED <<inputs, member, step, bufIn, bufOut, sums>>

Accumulate ==
  /\ mean' = [a \in Rows |->
       IF Receives(a, step) THEN [c \in Cell |-> NextMean(bufOut[c], mean[a][c], member)]
       ELSE mean[a]]
  /\ m2' = [a \in Rows |->
       IF Receives(a, step)
       THEN [c \in Cell |-> NextM2(bufOut[c], m2[a][c], mean[a][c], mean'[a][c])]
       ELSE m2[a]]
  /\ counter' = [a \in Rows |->
       IF Receives(a, step)
       THEN [p \in Rules \X Nodes |->
               LET rule == Rule(p[1]) IN
               counter[a][p] + IF Hit(rule, bufOut[<<p[2], rule.channel>>]) THEN 1 ELSE 0]
       ELSE counter[a]]

(* The two-pass reference.                                                  *)
Above(rule, v) == v = PosInf \/ (v \in Int /\ v > rule.value)
Below(rule, v) == v = NegInf \/ (v \in Int /\ v < rule.value)

Tally ==
  LET Crossed(p) ==
        LET rule == Rule(p[1])
            v == bufOut[<<p[2], rule.channel>>]
        IN  (rule.greater /\ Above(rule, v)) \/ (~rule.greater /\ Below(rule, v))
  IN
  /\ total' = [total EXCEPT ![step] =
                 [c \in Cell |-> IF bufOut[c] \in Int THEN @[c] + bufOut[c] ELSE @[c]]]
  /\ squares' = [squares EXCEPT ![step] =
                   [c \in Cell |-> IF bufOut[c] \in Int THEN @[c] + bufOut[c] * bufOut[c] ELSE @[c]]]
  /\ poisoned' = [poisoned EXCEPT ![step] = @ \cup {c \in Cell : bufOut[c] \notin Int}]
  /\ hits' = [hits EXCEPT ![step] =
                [p \in Rules \X Nodes |-> @[p] + IF Crossed(p) THEN 1 ELSE 0]]

Aggregate ==
  /\ phase = "aggregate"
  /\ phase' = "feed"
  /\ Accumulate
  /\ Tally
  /\ UNCHANGED <<inputs, member, step, bufIn, bufOut, maps>>

(* The output becomes the next input; after the last step it is only copied.*)
Feed(noise) ==
  /\ phase = "feed"
  /\ IF step < request.steps - 1
     THEN /\ phase' = "run"
          /\ step' = step + 1
          /\ bufIn' = Sanitise(Perturbed(bufOut, noise))
     ELSE /\ phase' = "member"
          /\ bufIn' = bufOut
          /\ UNCHANGED step
  /\ UNCHANGED <<inputs, member, bufOut, sums>>

(* The name of a rule's map: that of the threshold, with @level if the      *)
(* threshold has none.  prob_dict keeps the last of two rules of one name.  *)
NameOf(r) ==
  IF Threshold(r).level = AllLevels THEN <<Threshold(r).name, r[2]>> ELSE Threshold(r).name

LastNamed(n) ==
  CHOOSE r \in Rules : NameOf(r) = n /\ \A q \in Rules : NameOf(q) = n => q[1] <= r[1]

(* std_dev and the probabilities are the accumulators over members.         *)
Finalise ==
  /\ phase = "member" /\ member = request.members
  /\ phase' = "done"
  /\ maps' = [n \in {NameOf(r) : r \in Rules} |-> LastNamed(n)]
  /\ UNCHANGED <<inputs, member, step, bufIn, bufOut,
                 mean, m2, counter, total, squares, poisoned, hits>>

(* The draws that matter: one per cell of a perturbed channel.              *)
Draws ==
  {n \in [Cell -> Noise \cup {0}] : \A c \in Cell : ScaleOf(request, c[2]) <= 0 => n[c] = 0}

Next ==
  \/ Refuse \/ Accept
  \/ \E noise \in Draws : StartMember(noise) \/ Feed(noise)
  \/ RunGraph \/ RunFails
  \/ Aggregate
  \/ Finalise

Spec == Init /\ [][Next]_vars

-----------------------------------------------------------------------------

(* Members that have been added to the row of step s.                       *)
Added(s) ==
  IF phase \in {"member", "done"} \/ step > s \/ (step = s /\ phase = "feed")
  THEN member ELSE member - 1

Live == phase \in {"member", "run", "aggregate", "feed", "done"}

TypeOK ==
  /\ phase \in {"new", "member", "run", "aggregate", "feed", "done", "rejected", "failed"}
  /\ request \in Requests
  /\ Live => /\ member \in 0 .. request.members
             /\ step \in Steps
             /\ mean \in [Rows -> [Cell -> Int \cup {NaN}]]
             /\ m2 \in [Rows -> [Cell -> Int \cup {NaN}]]
             /\ counter \in [Rows -> [Rules \X Nodes -> 0 .. member]]
             /\ agg \in [Rows -> Steps]
             /\ \A a, b \in Rows : a < b => agg[a] <= agg[b]

(* The graph never sees NaN or Inf: not from the caller, not from its own   *)
(* previous output, not after noise (main.cpp:675-679, 783-790).            *)
GraphInputFinite == phase = "run" => \A c \in Cell : bufIn[c] \in Int

(* At every moment of the two loops, the last row of an aggregated step     *)
(* holds the mean and the sum of squared deviations of the members added to *)
(* it so far, cell by cell, and is non-finite exactly where some member     *)
(* was; its counters are the hits of those members.  The other rows of a    *)
(* step the caller repeats are never written: they stay at zero to the end  *)
(* (main.cpp:579-584, 731-775).                                             *)
ExactRow(a, s) ==
  LET n == Added(s) IN
  /\ \A c \in Cell :
       IF c \in poisoned[s] THEN mean[a][c] = NaN /\ m2[a][c] = NaN
       ELSE /\ mean[a][c] \in Int /\ m2[a][c] \in Int
            /\ n * mean[a][c] = Scale * total[s][c]
            /\ n * m2[a][c] = (Scale * Scale) * (n * squares[s][c] - total[s][c] * total[s][c])
  /\ counter[a] = hits[s]

LastOfStep(a) == \A b \in Rows : agg[b] = agg[a] => b <= a

Unwritten(a) ==
  mean[a] = Zeros(Cell) /\ m2[a] = Zeros(Cell) /\ counter[a] = Zeros(Rules \X Nodes)

MomentsExact ==
  Live => \A a \in Rows : IF LastOfStep(a) THEN ExactRow(a, agg[a]) ELSE Unwritten(a)

(* Without noise every member repeats the same trajectory, so the spread is *)
(* zero wherever it is finite: a member leaves nothing behind in the work   *)
(* buffers (main.cpp:668-679).                                              *)
NoNoiseNoSpread ==
  (Live /\ \A ch \in Channels : ScaleOf(request, ch) <= 0) =>
    \A a \in Rows, c \in Cell : m2[a][c] \in {0, NaN}

(* Every rule has its map in the result as long as no threshold is named    *)
(* like another's level, "name@850" (model.py:1041-1057, main.cpp:804-819). *)
EveryRuleReported ==
  (phase = "done" /\ \A i \in DOMAIN request.thresholds : request.thresholds[i].name \in Labels) =>
    {maps[n] : n \in DOMAIN maps} = Rules

=============================================================================
