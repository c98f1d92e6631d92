------------------------------ MODULE MCPipeline ------------------------------
(***************************************************************************)
(* Two shells, two models behind URLs of both kinds, one credential the    *)
(* source accepts and one it refuses, which the shells export, and two     *)
(* invocations.                                                            *)
(***************************************************************************)
EXTENDS Pipeline

CONSTANTS p1, p2, w1, w2, good, bad

Of(name, target, weights, open) ==
  [name |-> name, target |-> target, weights |-> weights, open |-> open]

MCCommands ==
  {Of("download-model", "pkl", w1, TRUE), Of("compile-model", "onnx", w1, TRUE),
   Of("pipeline", "pkl", w1, FALSE), Of("pipeline", "onnx", w2, FALSE),
   Of("forecast", "onnx", w2, FALSE), Of("ensemble", "onnx", w2, TRUE),
   Of("inspect", "onnx", w2, TRUE)}

=============================================================================
