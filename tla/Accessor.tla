------------------------------- MODULE Accessor -------------------------------
(***************************************************************************)
(* ds.weathergraph (weathergraph/accessor.py): the model a dataset's       *)
(* accessor caches, against the arguments of its calls, the option objects *)
(* the caller keeps, the environment, and the files models are built from, *)
(* which other processes replace or break at any time.  A call runs as one *)
(* thread through load_model, the constructor of the model and, for        *)
(* predict, the first step of the forecast, where a tiled model creates    *)
(* the engines of its tiles.  A keyword argument that is given its default *)
(* stands for one that is not given.                                       *)
(***************************************************************************)
EXTENDS Construction

CONSTANTS
  Objects,      \* dicts of provider options a caller keeps
  Contents,     \* what they may hold
  Extras,       \* keyword arguments beyond the two paths, as NoArguments has them
  ModelFiles, WeightDirs,
  Bundles,      \* tile bundles
  TilesOf,      \* the ONNX files of a bundle's tiles
  NodesOf,      \* the nodes of a model file or bundle
  GridOfBundle, \* the shape and resolution its manifest declares
  DefaultModel, DefaultWeights,
  Supported,    \* providers this build and host can run
  MaxEdits      \* bound on the times a file is replaced

TileFiles == UNION {TilesOf[b] : b \in Bundles}

EngineFiles == ModelFiles \cup TileFiles

Undeclared == [shape |-> None, resolution |-> None]

Shapes(S) == {s \in S : s # None}

(* Arguments as a caller gives them, and with what their option object      *)
(* held; models, and their engines.                                         *)
OptionValues == Contents \cup {NoOptions}

ExtraValues ==
  {[x EXCEPT !.execution_provider_options = c] : x \in Extras, c \in OptionValues}

ArgumentSet == [model_path : ModelFiles, weights_dir : WeightDirs, extra : Extras]

AskedSet == [model_path : ModelFiles, weights_dir : WeightDirs, extra : ExtraValues]

EngineSet ==
  [readAt : 0 .. MaxEdits,
   session : {Session(x, c) : x \in ExtraValues, c \in OptionValues},
   constraints : {x.constraints_model_path : x \in Extras}]

ModelSet ==
  [asked : AskedSet, copied : OptionValues, since : 0 .. MaxEdits,
   shape : (Int \X Int) \cup {None}, resolution : Int \cup {None},
   engines : [EngineFiles -> EngineSet \cup {None}]]

ASSUME NoneAssumption ==
  /\ None \notin Int /\ None \notin Int \X Int
  /\ None \notin ArgumentSet /\ None \notin AskedSet /\ None \notin ModelSet

(* Nobody checks what a dict of options says (model.py:88-106,              *)
(* main.cpp:63-78).                                                         *)
ASSUME ArgumentAssumption ==
  /\ \A c \in Contents : DOMAIN c = OptionNames
  /\ \A x \in Extras :
       /\ DOMAIN x = DOMAIN NoArguments
       /\ x.execution_provider_options \in Objects \cup {None}
       /\ {x.execution_device_id, x.cuda_device_id, x.execution_memory_limit,
            x.cuda_gpu_mem_limit, x.reference_grid_resolution_degrees}
            \subseteq Int \cup {None}
       /\ x.reference_grid_shape \in (Int \X Int) \cup {None}
       /\ x.tile_bundle_path \in Bundles \cup {None}
       /\ x.spatial_tiling \in BOOLEAN

ASSUME FileAssumption ==
  /\ None \notin EngineFiles \cup Bundles \cup WeightDirs \cup Objects
  /\ DefaultModel \in ModelFiles /\ DefaultWeights \in WeightDirs
  /\ TilesOf \in [Bundles -> SUBSET TileFiles]
  /\ NodesOf \in [ModelFiles \cup Bundles -> Nat]
  /\ MaxEdits \in Nat

(* A manifest may declare any shape beside any resolution                   *)
(* (model.py:490-491); the unit of resolutions is fine enough for the       *)
(* shapes there are.                                                        *)
ASSUME GridAssumption ==
  /\ GridOfBundle \in [Bundles -> [shape : (Int \X Int) \cup {None},
                                  resolution : Int \cup {None}]]
  /\ \A s \in Shapes({x.reference_grid_shape : x \in Extras}
                       \cup {GridOfBundle[b].shape : b \in Bundles} \cup {DefaultGrid}) :
       ShapeValid(s) => HalfTurn % (s[1] - 1) = 0

VARIABLES
  dicts,       \* what the caller's option objects hold
  clock,       \* times a file was replaced so far
  environment, \* WEATHERGRAPH_ONNX_MODEL, None when unset
  model,       \* _model
  kwargs,      \* _model_kwargs, with the caller's objects in it
  draft,       \* the model object under construction
  call,        \* the running or last call
  tampered     \* the caller changed an object inside kwargs since it was stored

world == <<dicts, clock, environment>>
vars == <<world, model, kwargs, draft, call, tampered>>

Idle == call.stage \in {"idle", "returned", "raised"}

Held(object) == IF object = None THEN NoOptions ELSE dicts[object]

(* Arguments with what their option object holds: what == on dicts sees.    *)
Values(a) == [a EXCEPT !.extra.execution_provider_options = Held(@)]

NoEngines == [f \in EngineFiles |-> None]

Asked(m) == IF m = None THEN None ELSE m.asked

Tiled(m) == SpatialTiling(m.asked.extra)

Source(m) == IF Tiled(m) THEN m.asked.extra.tile_bundle_path ELSE m.asked.model_path

-----------------------------------------------------------------------------
(* Plausible slips, each the body of one definition below.                  *)

AnyArguments(a) == TRUE

StoresArguments(a) == kwargs' = a /\ UNCHANGED <<model, tampered>>

OptionsShared(m) ==
  Held((IF call.args # None THEN call.args ELSE kwargs).extra.execution_provider_options)

-----------------------------------------------------------------------------

Init ==
  /\ dicts \in [Objects -> Contents]
  /\ clock = 0
  /\ environment \in ModelFiles \cup {None}
  /\ model = None /\ kwargs = None /\ draft = None
  /\ call = [stage |-> "idle"]
  /\ tampered = FALSE

(* The rest of the world: other processes replace files or leave them       *)
(* broken (whatever reads a file may raise), and between two calls the      *)
(* caller changes an option object or the environment.                      *)
Replace ==
  /\ clock < MaxEdits
  /\ clock' = clock + 1
  /\ UNCHANGED <<dicts, environment, model, kwargs, draft, call, tampered>>

Mutate(d, c) ==
  /\ Idle /\ dicts[d] # c
  /\ dicts' = [dicts EXCEPT ![d] = c]
  /\ tampered' = (tampered \/ (kwargs # None /\ kwargs.extra.execution_provider_options = d))
  /\ UNCHANGED <<clock, environment, model, kwargs, draft, call>>

SetEnvironment(f) ==
  /\ Idle
  /\ environment' = f
  /\ UNCHANGED <<dicts, clock, model, kwargs, draft, call, tampered>>

-----------------------------------------------------------------------------
(* The calls.                                                               *)

Go(stage) == call' = [call EXCEPT !.stage = stage]

Raise == Go("raised") /\ draft' = None

(* A cached model is kept when the arguments equal the stored ones.         *)
SameArguments(a) == Values(a) = Values(kwargs)

(* load_model, on its own or within predict.                                *)
Load(a, force, forecast) ==
  /\ call' = [stage |-> IF model = None \/ force \/ ~SameArguments(a) THEN "check"
                        ELSE IF forecast THEN "run" ELSE "returned",
              args |-> a, asked |-> Values(a), forecast |-> forecast,
              since |-> clock, former |-> [asked |-> Asked(model), kwargs |-> kwargs]]
  /\ UNCHANGED <<world, model, kwargs, draft, tampered>>

Arguments(path, weights, extra) ==
  [model_path |-> path, weights_dir |-> weights, extra |-> extra]

CallLoad(path, weights, extra, force) ==
  LET a == Arguments(path, weights, extra) IN Idle /\ Load(a, force, FALSE)

FromEnvironment == IF environment # None THEN environment ELSE DefaultModel

(* predict: any argument given leads through load_model, with the           *)
(* environment's path in the place of a missing one; without arguments the  *)
(* cached model serves, or one is loaded by the environment.                *)
CallPredict(path, weights, extra) ==
  LET given == path # None \/ weights # None \/ extra # NoArguments
      a == Arguments(IF path # None THEN path ELSE FromEnvironment,
                     IF weights # None THEN weights ELSE DefaultWeights, extra)
  IN  /\ Idle
      /\ IF given \/ model = None
         THEN Load(a, FALSE, TRUE)
         ELSE /\ call' = [stage |-> "run", args |-> None, asked |-> None, forecast |-> TRUE,
                          since |-> clock,
                          former |-> [asked |-> Asked(model), kwargs |-> kwargs]]
              /\ UNCHANGED <<world, model, kwargs, draft, tampered>>

-----------------------------------------------------------------------------
(* The constructor, from its checks of the arguments to the statistics it   *)
(* loads last.                                                              *)

(* What load_model assigns before the constructor has returned: nothing.    *)
StoreEarly(a) == UNCHANGED <<model, kwargs, tampered>>

Check ==
  /\ call.stage = "check"
  /\ StoreEarly(call.args)
  /\ LET x == call.args.extra
         copied == Held(x.execution_provider_options)
     IN  IF Acceptable(x, copied)
         THEN /\ draft' = [asked |-> call.asked, copied |-> copied, since |-> call.since,
                           shape |-> None, resolution |-> None, engines |-> NoEngines]
              /\ Go("build")
         ELSE Raise
  /\ UNCHANGED world

(* An engine: the provider is appended, the session created, and a second   *)
(* session for the constraints.  OptionsOf(m) is m's own copy.              *)
Creatable(m) == Provider(m.asked.extra) \in Supported

OptionsOf(m) == m.copied

WithEngine(m, f) ==
  [m EXCEPT !.engines[f] = [readAt |-> clock, session |-> Session(m.asked.extra, OptionsOf(m)),
                            constraints |-> m.asked.extra.constraints_model_path]]

Build ==
  /\ call.stage = "build"
  /\ \/ /\ IF Tiled(draft)
           THEN UNCHANGED draft
           ELSE Creatable(draft) /\ draft' = WithEngine(draft, Source(draft))
        /\ Go("settle")
     \/ Raise
  /\ UNCHANGED <<world, model, kwargs, tampered>>

Settle ==
  /\ call.stage = "settle"
  /\ LET x == draft.asked.extra
         declared == IF Tiled(draft) THEN GridOfBundle[Source(draft)] ELSE Undeclared
         nodes == NodesOf[Source(draft)]
     IN  \/ /\ GridFits(x, declared, nodes)
            /\ model' = [draft EXCEPT !.shape = SettledShape(x, declared, nodes),
                                      !.resolution = SettledResolution(x, declared, nodes)]
            /\ kwargs' = call.args
            /\ tampered' = FALSE
            /\ draft' = None
            /\ Go(IF call.forecast THEN "run" ELSE "returned")
         \/ Raise /\ UNCHANGED <<model, kwargs, tampered>>
  /\ UNCHANGED world

(* The forecast: a tiled model creates the engines its tiles still lack,    *)
(* and keeps those it has made when a later one fails.                      *)
Lacking == IF Tiled(model) THEN {f \in TilesOf[Source(model)] : model.engines[f] = None} ELSE {}

Run ==
  /\ call.stage = "run"
  /\ \/ /\ \E f \in Lacking : Creatable(model) /\ model' = WithEngine(model, f)
        /\ UNCHANGED <<call, draft>>
     \/ Lacking = {} /\ Go("returned") /\ UNCHANGED <<model, draft>>
     \/ Raise /\ UNCHANGED model
  /\ UNCHANGED <<world, kwargs, tampered>>

-----------------------------------------------------------------------------

Next ==
  \/ Replace
  \/ \E d \in Objects, c \in Contents : Mutate(d, c)
  \/ \E f \in ModelFiles \cup {None} : SetEnvironment(f)
  \/ \E f \in ModelFiles, w \in WeightDirs, x \in Extras, force \in BOOLEAN :
       CallLoad(f, w, x, force)
  \/ \E f \in ModelFiles \cup {None}, w \in WeightDirs \cup {None}, x \in Extras :
       CallPredict(f, w, x)
  \/ Check \/ Build \/ Settle \/ Run

Spec == Init /\ [][Next]_vars

-----------------------------------------------------------------------------

Typed ==
  /\ dicts \in [Objects -> Contents]
  /\ clock \in 0 .. MaxEdits
  /\ environment \in ModelFiles \cup {None}
  /\ call.stage \in {"idle", "check", "build", "settle", "run", "returned", "raised"}
  /\ model \in ModelSet \cup {None} /\ kwargs \in ArgumentSet \cup {None}
  /\ draft \in ModelSet \cup {None}
  /\ (model = None) = (kwargs = None)
  /\ (draft # None) = (call.stage \in {"build", "settle"})
  /\ tampered \in BOOLEAN

(* The variables have their types; every engine has a provider the host has,*)
(* an accelerator's is told a device that is no negative number and never a *)
(* memory limit of zero, as far as the caller's own provider options, which *)
(* nobody checks, leave the two to the other arguments.                     *)
TypeOK ==
  /\ Typed
  /\ model # None =>
       \A f \in EngineFiles : model.engines[f] # None =>
         LET s == model.engines[f].session IN
         /\ s.provider \in Supported
         /\ s.provider # "cpu" =>
              IF model.copied.device_id = None
              THEN s.options.device_id \in Nat
              ELSE s.options.device_id = model.copied.device_id
         /\ \A k \in {"gpu_mem_limit", "trt_max_workspace_size"} :
              s.options[k] = 0 => model.copied[k] = 0

(* A call that names its arguments is served by a model built with those    *)
(* values, whatever was cached, failed or changed before, unless the caller *)
(* changed an option object it had handed over (accessor.py:102-110).       *)
ServedAsAsked ==
  (call.stage \in {"run", "returned"} /\ call.asked # None /\ ~tampered) =>
    Asked(model) = call.asked

(* A call that raises leaves the former model with its arguments or the one *)
(* it asked for, whole, with its own (accessor.py:109-110): never no model  *)
(* where there was one, and never a model under another's arguments.        *)
RaiseIsClean ==
  call.stage = "raised" =>
    \/ Asked(model) = call.former.asked /\ kwargs = call.former.kwargs
    \/ call.asked # None /\ Asked(model) = call.asked /\ kwargs = call.args

(* All engines of a model, those created at its construction and those      *)
(* created tile by tile much later, run under the session options and the   *)
(* constraints it was asked for, whatever the caller did to the option      *)
(* object meanwhile; and none was read from its file before the call that   *)
(* built the model, so that a reload never serves an older artifact         *)
(* (model.py:98-106, 277, 308, 403-415, 524-527; accessor.py:73-75).        *)
EnginesAsConfigured ==
  model # None =>
    LET x == model.asked.extra IN
    \A f \in EngineFiles : model.engines[f] # None =>
      /\ model.engines[f].session = Session(x, x.execution_provider_options)
      /\ model.engines[f].constraints = x.constraints_model_path
      /\ model.engines[f].readAt >= model.since

(* m takes the resolution of its bundle, which nobody holds against a shape:*)
(* the caller gives one, or the manifest declares another, or none at all   *)
(* and the grid is the default one.                                         *)
OnTrust(m, resolution) ==
  LET x == m.asked.extra
      declared == GridOfBundle[Source(m)]
  IN  /\ Tiled(m) /\ x.reference_grid_resolution_degrees = None
      /\ resolution = declared.resolution
      /\ x.reference_grid_shape # None \/ ~Regular(declared.shape, declared.resolution)

(* The grid of a model is the one its resolution describes (model.py:281-   *)
(* 288, 330-333, 358-374) wherever the resolution was given by the caller,  *)
(* derived from the shape, or declared with its shape by a sound manifest.  *)
GridIsRegular ==
  (model # None /\ model.shape # None /\ model.resolution # None) =>
    Regular(model.shape, model.resolution) \/ OnTrust(model, model.resolution)

=============================================================================
