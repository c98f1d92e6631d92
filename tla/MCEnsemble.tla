------------------------------ MODULE MCEnsemble ------------------------------
(***************************************************************************)
(* One node, a perturbed and a static variable at two levels, up to four   *)
(* members and three steps.  The graph mixes the variables of one level,   *)
(* drives the other level from it and yields NaN, Inf or -Inf from some    *)
(* states.                                                                 *)
(***************************************************************************)
EXTENDS Ensemble

CONSTANTS n1, t, z, cold, calm, other   \* other names no variable

MCGraph(x) ==
  [c \in Cell |->
     LET v == x[<<c[1], <<t, 850>>>>] + x[<<c[1], <<z, 850>>>>] IN
     IF v = 4 THEN NaN
     ELSE IF v = 5 THEN IF c[2][1] = t THEN PosInf ELSE NegInf
     ELSE (v + (IF c[2][1] = t THEN 1 ELSE 0) + (IF c[2][2] = 500 THEN 1 ELSE 0)) % 4]

MCInitial ==
  {[c \in Cell |-> IF c[2][1] = t THEN v ELSE w] : v \in {0, 2, NaN}, w \in {1, NegInf}}

ThresholdOf(name, var, level, greater, value) ==
  [name |-> name, var |-> var, level |-> level, greater |-> greater, value |-> value]

RequestOf(steps, members, sigma, aggregate) ==
  [steps |-> steps, members |-> members, perVariable |-> FALSE, scalar |-> sigma, named |-> <<>>,
   aggregate |-> aggregate,
   thresholds |-> <<ThresholdOf(cold, t, AllLevels, TRUE, 1), ThresholdOf(calm, z, 850, FALSE, 2)>>,
   parsed |-> TRUE, tiled |-> FALSE]

(* Two thresholds on one variable, and one named like the other's level.    *)
Alike ==
  [RequestOf(1, 2, 1, <<>>) EXCEPT !.thresholds =
     <<ThresholdOf(cold, t, AllLevels, FALSE, 1), ThresholdOf(calm, t, AllLevels, TRUE, 2),
       ThresholdOf(<<cold, 850>>, t, 850, TRUE, 0)>>]

MCRequests ==
  {RequestOf(s, 3, sigma, a) : s \in {1, 2}, sigma \in {-1, 0, 1, 2}, a \in {<<>>, <<0>>, <<1, 0>>, <<0, 0>>, <<1, 0, 1>>, <<2>>}}
  \cup {RequestOf(s, m, 1, <<>>) : s \in {0, 3}, m \in {0, 1, 2}}
  \cup {RequestOf(2, 4, 1, <<1, 1>>)}
  \cup {[RequestOf(2, 2, 0, <<1>>) EXCEPT !.perVariable = TRUE, !.named = [v \in S |-> 1]] :
           S \in {{z}, {t, z}, {t, other}}}
  \cup {Alike, [Alike EXCEPT !.thresholds = SubSeq(@, 1, 2)]}
  \cup {[RequestOf(1, 1, 1, <<>>) EXCEPT !.tiled = TRUE],
        [RequestOf(1, 1, 1, <<>>) EXCEPT !.parsed = FALSE]}

MCNoise == {0, 1}

=============================================================================
