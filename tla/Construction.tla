---------------------------- MODULE Construction ----------------------------
(***************************************************************************)
(* What WeatherGraphModel.__init__ (weathergraph/model.py) and the C++     *)
(* constructor behind it (src/cpp/main.cpp) make of the arguments: the     *)
(* checks that may refuse them, the reference grid a model settles on and  *)
(* the options of its ONNX Runtime sessions.                               *)
(*                                                                         *)
(* Arguments are a record with the source's names, None where the caller   *)
(* gave none.  execution_provider_options is a record over OptionNames, an *)
(* absent key (or one whose value is None, which is dropped) being None.   *)
(* Resolutions are whole multiples of a unit of which HalfTurn make 180    *)
(* degrees; np.isclose lets the source take one for another that differs   *)
(* by less than that.                                                      *)
(***************************************************************************)
EXTENDS Integers

CONSTANTS
  None,
  HalfTurn,     \* 180 degrees
  LargeOutput,  \* nodes from which a model without a grid is given DefaultGrid
  DefaultGrid

ASSUME TurnAssumption == HalfTurn \in Nat \ {0}

ASSUME DefaultAssumption ==
  /\ DefaultGrid \in (Nat \ {0, 1}) \X (Nat \ {0, 1})
  /\ DefaultGrid[1] * DefaultGrid[2] <= LargeOutput

OptionNames == {"device_id", "gpu_mem_limit", "trt_max_workspace_size"}

NoOptions == [k \in OptionNames |-> None]

NoArguments ==
  [execution_provider |-> "cpu", execution_provider_options |-> None,
   execution_device_id |-> None, cuda_device_id |-> None,
   execution_memory_limit |-> None, cuda_gpu_mem_limit |-> None,
   disable_cpu_ep_fallback |-> FALSE, constraints_model_path |-> None,
   reference_grid_shape |-> None, reference_grid_resolution_degrees |-> None,
   spatial_tiling |-> FALSE, tile_bundle_path |-> None, tile_state_backend |-> "ram"]

-----------------------------------------------------------------------------
(* Plausible slips, each the body of one definition below.                  *)

ResolutionByCount(shape) ==
  IF shape[2] = 2 * (shape[1] - 1) THEN HalfTurn \div shape[1] ELSE None

AnyDevice(o) == TRUE

-----------------------------------------------------------------------------
(* Execution provider, device and memory limit.                             *)

NormalProvider(p) ==
  CASE p = "nvidia" -> "cuda"
    [] p = "trt" -> "tensorrt"
    [] p = "amd" -> "rocm"
    [] p = "intel" -> "openvino"
    [] OTHER -> p

Accelerators == {"cuda", "tensorrt", "rocm", "openvino"}

Provider(o) == NormalProvider(o.execution_provider)

(* The cuda_* arguments are older names; given both, they must agree.       *)
Either(general, alias) ==
  IF general # None THEN general ELSE IF alias # None THEN alias ELSE 0

Agree(general, alias) == general = None \/ alias = None \/ general = alias

DeviceId(o) == Either(o.execution_device_id, o.cuda_device_id)

MemoryLimit(o) == Either(o.execution_memory_limit, o.cuda_gpu_mem_limit)

DeviceValid(o) == DeviceId(o) >= 0

SpatialTiling(o) == o.spatial_tiling \/ o.tile_bundle_path # None

-----------------------------------------------------------------------------
(* The reference grid.                                                      *)

GridOf(resolution) == <<HalfTurn \div resolution + 1, 2 * (HalfTurn \div resolution)>>

ResolutionValid(resolution) == resolution > 0 /\ HalfTurn % resolution = 0

ShapeValid(shape) == shape[1] > 1 /\ shape[2] > 1

(* A shape with cells of that size in both directions.                      *)
Regular(shape, resolution) == ResolutionValid(resolution) /\ shape = GridOf(resolution)

(* _derive_reference_grid_resolution: cells as high as they are wide.       *)
ResolutionOf(shape) ==
  IF shape[2] = 2 * (shape[1] - 1) THEN HalfTurn \div (shape[1] - 1) ELSE None

RequestedShape(o) ==
  IF o.reference_grid_resolution_degrees # None
  THEN GridOf(o.reference_grid_resolution_degrees)
  ELSE o.reference_grid_shape

(* The grid of a model with that many nodes, where the bundle (or an ONNX   *)
(* file, which declares none) declares a shape and a resolution.            *)
SettledShape(o, declared, nodes) ==
  CASE RequestedShape(o) # None -> RequestedShape(o)
    [] RequestedShape(o) = None /\ declared.shape # None -> declared.shape
    [] OTHER -> IF nodes >= LargeOutput THEN DefaultGrid ELSE None

SettledResolution(o, declared, nodes) ==
  LET given == IF o.reference_grid_resolution_degrees # None
               THEN o.reference_grid_resolution_degrees ELSE declared.resolution
      shape == SettledShape(o, declared, nodes)
  IN  IF given # None THEN given ELSE IF shape # None THEN ResolutionOf(shape) ELSE None

GridFits(o, declared, nodes) ==
  LET shape == SettledShape(o, declared, nodes) IN
  shape # None => ShapeValid(shape) /\ shape[1] * shape[2] <= nodes

-----------------------------------------------------------------------------

(* The checks that need no file, options being the normalised options.      *)
Acceptable(o, options) ==
  /\ Provider(o) \in Accelerators \cup {"cpu"}
  /\ Agree(o.execution_device_id, o.cuda_device_id)
  /\ Agree(o.execution_memory_limit, o.cuda_gpu_mem_limit)
  /\ o.reference_grid_shape # None => ShapeValid(o.reference_grid_shape)
  /\ o.reference_grid_resolution_degrees # None =>
       /\ ResolutionValid(o.reference_grid_resolution_degrees)
       /\ o.reference_grid_shape \in {None, RequestedShape(o)}
  /\ DeviceValid(o)
  /\ MemoryLimit(o) >= 0
  /\ Provider(o) = "cpu" => ~o.disable_cpu_ep_fallback /\ options = NoOptions
  /\ o.tile_state_backend = "ram" \/ SpatialTiling(o)
  /\ SpatialTiling(o) => o.tile_bundle_path # None

(* merge_provider_options: explicit options win, the device is passed on to *)
(* every accelerator, the memory limit only to those that have one.         *)
LimitKey(provider) ==
  CASE provider \in {"cuda", "rocm"} -> {"gpu_mem_limit"}
    [] provider = "tensorrt" -> {"trt_max_workspace_size"}
    [] OTHER -> {}

Merged(o, options) ==
  [k \in OptionNames |->
     CASE options[k] # None -> options[k]
       [] options[k] = None /\ k = "device_id" -> DeviceId(o)
       [] OTHER -> IF k \in LimitKey(Provider(o)) /\ MemoryLimit(o) > 0
                   THEN MemoryLimit(o) ELSE None]

(* What append_execution_provider and the session options come to.          *)
Session(o, options) ==
  [provider |-> Provider(o),
   options |-> IF Provider(o) = "cpu" THEN NoOptions ELSE Merged(o, options),
   strict |-> o.disable_cpu_ep_fallback]

=============================================================================
