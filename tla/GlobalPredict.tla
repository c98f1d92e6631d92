----------------------------- MODULE GlobalPredict -----------------------------
(***************************************************************************)
(* What engine.predict promises of a tiled model: a call returns the step  *)
(* the untiled model would compute, or it raises.  Step(_, _) is that step *)
(* as a function of the node count and the state.                          *)
(***************************************************************************)
CONSTANTS Step(_, _), NoReply

VARIABLES
  sound,    \* the bundle in force can reproduce the untiled model
  nodes,    \* its node count
  phase,    \* "idle", "busy", "returned" or "failed"
  request,  \* the state passed to the call
  reply     \* the state it returned

vars == <<sound, nodes, phase, request, reply>>

Init ==
  /\ phase = "idle"
  /\ reply = NoReply

Call ==
  /\ phase # "busy"
  /\ phase' = "busy"
  /\ reply' = NoReply
  /\ UNCHANGED <<sound, nodes>>

Return ==
  /\ phase = "busy"
  /\ phase' = "returned"
  /\ sound => reply' = Step(nodes, request)
  /\ UNCHANGED <<sound, nodes, request>>

(* The call raises: no part of a state reaches the caller.                  *)
Raise ==
  /\ phase' = "failed"
  /\ reply' = NoReply
  /\ UNCHANGED <<sound, nodes, request>>

Next == Call \/ Return \/ Raise

Spec == Init /\ [][Next]_vars

=============================================================================
