------------------------------ MODULE MCAccessor ------------------------------
(***************************************************************************)
(* Two model files and three bundles of one or two tiles: exact declares a *)
(* grid of 90 degrees, loose a shape and a resolution that do not belong   *)
(* together, bare a resolution alone.  The keyword arguments leave the     *)
(* grid to the file, to the bundle or to the default, or give its shape,   *)
(* its resolution or both.  Two of them are refused as they stand; a grid  *)
(* of 60 degrees has more points than onnx1 has nodes.                     *)
(***************************************************************************)
EXTENDS Accessor

CONSTANTS onnx1, onnx2, exact, loose, bare, tile1, tile2, stats, physics, dict

MCContents ==
  {NoOptions, [NoOptions EXCEPT !.device_id = -1, !.gpu_mem_limit = 0]}

MCTilesOf == [b \in Bundles |-> IF b = exact THEN {tile1, tile2} ELSE {tile1}]

MCNodesOf == [f \in ModelFiles \cup Bundles |-> IF f \in {onnx2, bare} THEN 24 ELSE 12]

MCGridOfBundle ==
  [b \in Bundles |->
     CASE b = exact -> [shape |-> <<3, 4>>, resolution |-> 90]
       [] b = loose -> [shape |-> <<3, 4>>, resolution |-> 60]
       [] b = bare  -> [shape |-> None, resolution |-> 45]]

MCDefaultGrid == <<4, 6>>

Cuda == [NoArguments EXCEPT !.execution_provider = "nvidia",
                            !.execution_provider_options = dict]

MCExtras ==
  {NoArguments,
   [Cuda EXCEPT !.execution_memory_limit = 1],
   [Cuda EXCEPT !.tile_bundle_path = exact, !.constraints_model_path = physics],
   [NoArguments EXCEPT !.tile_bundle_path = exact, !.reference_grid_shape = <<2, 4>>],
   [NoArguments EXCEPT !.tile_bundle_path = loose],
   [NoArguments EXCEPT !.tile_bundle_path = bare],
   [NoArguments EXCEPT !.tile_bundle_path = loose, !.reference_grid_resolution_degrees = 90],
   [NoArguments EXCEPT !.reference_grid_shape = <<3, 4>>,
                       !.reference_grid_resolution_degrees = 60],
   [NoArguments EXCEPT !.reference_grid_resolution_degrees = 60],
   [NoArguments EXCEPT !.execution_provider = "cuda", !.cuda_device_id = -1]}

=============================================================================
