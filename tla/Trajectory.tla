------------------------------ MODULE Trajectory ------------------------------
(***************************************************************************)
(* What the consumers of iter_forecast and predict_one_step are promised.  *)
(* Each rollout hands out the steps of its own trajectory in order, one at *)
(* a time, and a step that was handed out stays what it is for as long as  *)
(* the consumer holds it.  A rollout may end early, by an error or because *)
(* its consumer stops, and then hands out no more.                         *)
(***************************************************************************)
EXTENDS Naturals, Sequences

CONSTANT Rollouts

VARIABLES
  seen,   \* seen[r][i]: what the i-th buffer handed out by r holds now
  over    \* rollouts that have ended

vars == <<seen, over>>

Init == seen = [r \in Rollouts |-> <<>>] /\ over = {}

HandOut(r) ==
  /\ r \notin over
  /\ seen' = [seen EXCEPT ![r] = Append(@, <<r, Len(@) + 1>>)]
  /\ UNCHANGED over

End(r) ==
  /\ over' = over \cup {r}
  /\ UNCHANGED seen

Next == \E r \in Rollouts : HandOut(r) \/ End(r)

Spec == Init /\ [][Next]_vars

=============================================================================
