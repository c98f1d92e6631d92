------------------------------- MODULE MCRollout -------------------------------
(***************************************************************************)
(* Four model objects: spilling keeps its states in a directory of the     *)
(* user's, untiled runs the whole graph, and left and right were given the *)
(* same directory.  spilling serves two rollouts that interleave where     *)
(* they yield, one of them a single step.                                  *)
(***************************************************************************)
EXTENDS Rollout

CONSTANTS spilling, untiled, left, right, r1, r2, r3, r4, r5, dir1, dir2

MCDirArg ==
  [x \in Models |-> IF x = spilling THEN dir1
                    ELSE IF x \in {left, right} THEN dir2 ELSE NoDir]
MCModelOf ==
  [r \in Rollouts |-> CASE r = r3 -> untiled [] r = r4 -> left [] r = r5 -> right
                        [] OTHER -> spilling]

=============================================================================
