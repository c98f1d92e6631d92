---------------------------- MODULE Accessor_proofs ----------------------------
(***************************************************************************)
(* Proofs about Accessor, for any files, bundles, option objects and       *)
(* arguments, and any number of calls and replacements.                    *)
(*                                                                         *)
(* What the properties need beyond themselves is that the stored arguments *)
(* still describe the cached model (Stored), that the constructor carries  *)
(* its own copy of the options from the check on (Drafted), and that every *)
(* engine, whenever it is created, is made from that copy (Configured).    *)
(***************************************************************************)
EXTENDS Accessor, TLAPS

(* What the constructor's checks establish of a model's arguments.          *)
Sound(m) ==
  LET x == m.asked.extra IN
  /\ DeviceId(x) \in Nat /\ MemoryLimit(x) \in Nat
  /\ x.reference_grid_resolution_degrees # None =>
       ResolutionValid(x.reference_grid_resolution_degrees)
  /\ SpatialTiling(x) => x.tile_bundle_path # None
  /\ m.copied = x.execution_provider_options

(* now is the clock the engines were read by.                               *)
Configured(m, now) ==
  \A f \in EngineFiles : m.engines[f] # None =>
    LET e == m.engines[f] IN
    /\ e.session = Session(m.asked.extra, m.copied)
    /\ Provider(m.asked.extra) \in Supported
    /\ e.constraints = m.asked.extra.constraints_model_path
    /\ m.since <= e.readAt /\ e.readAt <= now

Building == call.stage \in {"check", "build", "settle"}

Called ==
  \/ call = [stage |-> "idle"]
  \/ /\ call \in [stage : {"check", "build", "settle", "run", "returned", "raised"},
                  args : ArgumentSet \cup {None}, asked : AskedSet \cup {None},
                  forecast : BOOLEAN, since : 0 .. MaxEdits,
                  former : [asked : AskedSet \cup {None}, kwargs : ArgumentSet \cup {None}]]
     /\ call.since <= clock

Asking ==
  Building =>
    /\ call.args \in ArgumentSet /\ call.asked = Values(call.args)
    /\ call.former = [asked |-> Asked(model), kwargs |-> kwargs]

Drafted ==
  draft # None =>
    /\ Sound(draft) /\ Configured(draft, clock)
    /\ draft.asked = call.asked /\ draft.since <= clock

Stored ==
  model # None =>
    /\ Sound(model) /\ Configured(model, clock) /\ model.since <= clock
    /\ ~tampered => Values(kwargs) = model.asked

Serving ==
  call.stage = "run" =>
    /\ model # None
    /\ \/ Asked(model) = call.former.asked /\ kwargs = call.former.kwargs
       \/ call.asked # None /\ Asked(model) = call.asked /\ kwargs = call.args

IInv ==
  /\ Typed /\ Called /\ Asking /\ Drafted /\ Stored
  /\ ServedAsAsked /\ Serving /\ RaiseIsClean /\ GridIsRegular

-----------------------------------------------------------------------------
(* Arguments.                                                               *)

(* y and x agree but for the options.                                       *)
SameBut(y, x) ==
  /\ y.execution_provider = x.execution_provider
  /\ y.execution_device_id = x.execution_device_id
  /\ y.cuda_device_id = x.cuda_device_id
  /\ y.execution_memory_limit = x.execution_memory_limit
  /\ y.cuda_gpu_mem_limit = x.cuda_gpu_mem_limit
  /\ y.disable_cpu_ep_fallback = x.disable_cpu_ep_fallback
  /\ y.constraints_model_path = x.constraints_model_path
  /\ y.reference_grid_shape = x.reference_grid_shape
  /\ y.reference_grid_resolution_degrees = x.reference_grid_resolution_degrees
  /\ y.spatial_tiling = x.spatial_tiling
  /\ y.tile_bundle_path = x.tile_bundle_path

(* Filling in what the option object holds changes nothing else.            *)
LEMMA Filled ==
  ASSUME NEW x \in Extras, NEW c
  PROVE  LET y == [x EXCEPT !.execution_provider_options = c] IN
         SameBut(y, x) /\ y.execution_provider_options = c
<1>1. DOMAIN x = {"execution_provider", "execution_provider_options", "execution_device_id",
                  "cuda_device_id", "execution_memory_limit", "cuda_gpu_mem_limit",
                  "disable_cpu_ep_fallback", "constraints_model_path",
                  "reference_grid_shape", "reference_grid_resolution_degrees",
                  "spatial_tiling", "tile_bundle_path", "tile_state_backend"}
  BY ArgumentAssumption DEF NoArguments
<1> QED
  BY <1>1 DEF SameBut

(* What a call asks for is whole and says what its options held.            *)
LEMMA ValuesType ==
  ASSUME dicts \in [Objects -> Contents], NEW a \in ArgumentSet
  PROVE  /\ Values(a) \in AskedSet
         /\ Values(a) # None
         /\ Values(a).extra.execution_provider_options
              = Held(a.extra.execution_provider_options)
         /\ Held(a.extra.execution_provider_options) \in OptionValues
         /\ SameBut(Values(a).extra, a.extra)
<1> DEFINE x == a.extra
           c == Held(x.execution_provider_options)
           y == [x EXCEPT !.execution_provider_options = c]
<1>1. x \in Extras /\ a.model_path \in ModelFiles /\ a.weights_dir \in WeightDirs
  BY DEF ArgumentSet
<1>2. c \in OptionValues
  BY <1>1, ArgumentAssumption DEF Held, OptionValues
<1>3. y \in ExtraValues
  BY <1>1, <1>2 DEF ExtraValues
<1>4. Values(a) = [model_path |-> a.model_path, weights_dir |-> a.weights_dir, extra |-> y]
  BY DEF Values, ArgumentSet
<1>5. SameBut(y, x) /\ y.execution_provider_options = c
  BY <1>1, Filled
<1> HIDE DEF x, c, y
<1>6. Values(a) \in AskedSet
  BY <1>1, <1>3, <1>4 DEF AskedSet
<1>7. Values(a).extra = y
  BY <1>4
<1> QED
  BY <1>2, <1>5, <1>6, <1>7, NoneAssumption DEF c, x

(* The types of the arguments of a model.                                   *)
LEMMA AskedType ==
  ASSUME NEW y \in ExtraValues
  PROVE  /\ y.execution_device_id \in Int \cup {None}
         /\ y.cuda_device_id \in Int \cup {None}
         /\ y.execution_memory_limit \in Int \cup {None}
         /\ y.cuda_gpu_mem_limit \in Int \cup {None}
         /\ y.reference_grid_resolution_degrees \in Int \cup {None}
         /\ y.reference_grid_shape \in (Int \X Int) \cup {None}
         /\ y.reference_grid_shape \in {x.reference_grid_shape : x \in Extras}
         /\ y.tile_bundle_path \in Bundles \cup {None}
         /\ y.spatial_tiling \in BOOLEAN
         /\ y.constraints_model_path \in {x.constraints_model_path : x \in Extras}
<1>1. PICK x \in Extras, c \in OptionValues :
        y = [x EXCEPT !.execution_provider_options = c]
  BY DEF ExtraValues
<1>2. SameBut(y, x)
  BY <1>1, Filled
<1>3. {x.execution_device_id, x.cuda_device_id, x.execution_memory_limit,
       x.cuda_gpu_mem_limit, x.reference_grid_resolution_degrees} \subseteq Int \cup {None}
  BY ArgumentAssumption
<1>4. /\ x.reference_grid_shape \in (Int \X Int) \cup {None}
      /\ x.tile_bundle_path \in Bundles \cup {None}
      /\ x.spatial_tiling \in BOOLEAN
  BY ArgumentAssumption
<1> QED
  BY <1>2, <1>3, <1>4 DEF SameBut

-----------------------------------------------------------------------------
(* Engines.                                                                 *)

(* A session runs on a checked device under a positive limit, where the     *)
(* caller's options leave the two open.                                     *)
LEMMA SessionSound ==
  ASSUME NEW x, NEW c \in OptionValues, DeviceId(x) \in Nat, MemoryLimit(x) \in Nat
  PROVE  LET s == Session(x, c) IN
         /\ s.provider = Provider(x)
         /\ s.provider # "cpu" =>
              IF c.device_id = None
              THEN s.options.device_id \in Nat ELSE s.options.device_id = c.device_id
         /\ \A k \in {"gpu_mem_limit", "trt_max_workspace_size"} :
              s.options[k] = 0 => c[k] = 0
<1>1. \A k \in OptionNames : NoOptions[k] # 0
  BY NoneAssumption DEF NoOptions
<1>2. Merged(x, c).device_id = IF c.device_id = None THEN DeviceId(x) ELSE c.device_id
  BY DEF Merged, OptionNames
<1>3. \A k \in {"gpu_mem_limit", "trt_max_workspace_size"} : Merged(x, c)[k] = 0 => c[k] = 0
  BY NoneAssumption DEF Merged, OptionNames
<1> QED
  BY <1>1, <1>2, <1>3 DEF Session, OptionNames

(* A new engine is made from the model's own copy of its options.           *)
LEMMA EngineAdded ==
  ASSUME NEW m \in ModelSet, NEW f, clock \in 0 .. MaxEdits, m.since <= clock,
         Sound(m), Configured(m, clock), Creatable(m)
  PROVE  LET w == WithEngine(m, f) IN
         /\ w \in ModelSet /\ Sound(w) /\ Configured(w, clock)
         /\ w.asked = m.asked /\ w.since = m.since
         /\ w.shape = m.shape /\ w.resolution = m.resolution
<1> DEFINE e == [readAt |-> clock, session |-> Session(m.asked.extra, m.copied),
                 constraints |-> m.asked.extra.constraints_model_path]
           w == WithEngine(m, f)
           g == [m.engines EXCEPT ![f] = e]
<1>1. /\ m.asked \in AskedSet /\ m.copied \in OptionValues
      /\ m.engines \in [EngineFiles -> EngineSet \cup {None}]
      /\ m.asked.extra \in ExtraValues
  BY DEF ModelSet, AskedSet
<1>2. e \in EngineSet
  BY <1>1, AskedType DEF EngineSet
<1>3. w = [asked |-> m.asked, copied |-> m.copied, since |-> m.since, shape |-> m.shape,
           resolution |-> m.resolution, engines |-> g]
  BY DEF WithEngine, OptionsOf, ModelSet
<1>4. g \in [EngineFiles -> EngineSet \cup {None}]
  BY <1>1, <1>2
<1>5. \A h \in EngineFiles : g[h] = IF h = f THEN e ELSE m.engines[h]
  BY <1>1
<1>6. Provider(m.asked.extra) \in Supported
  BY DEF Creatable
<1>7. e.session = Session(m.asked.extra, m.copied) /\ e.readAt = clock
      /\ e.constraints = m.asked.extra.constraints_model_path
  OBVIOUS
<1> HIDE DEF e, w, g
<1>8. w \in ModelSet
  BY <1>3, <1>4 DEF ModelSet
<1>9. /\ w.asked = m.asked /\ w.copied = m.copied /\ w.since = m.since /\ w.engines = g
      /\ w.shape = m.shape /\ w.resolution = m.resolution
  BY <1>3
<1>10. Sound(w)
  BY <1>9 DEF Sound
<1>11. Configured(w, clock)
  <2> SUFFICES ASSUME NEW h \in EngineFiles, w.engines[h] # None
               PROVE  /\ w.engines[h].session = Session(w.asked.extra, w.copied)
                      /\ Provider(w.asked.extra) \in Supported
                      /\ w.engines[h].constraints = w.asked.extra.constraints_model_path
                      /\ w.since <= w.engines[h].readAt /\ w.engines[h].readAt <= clock
    BY DEF Configured
  <2>1. CASE h = f
    <3>1. w.engines[h] = e
      BY <1>5, <1>9, <2>1
    <3> QED
      BY <1>6, <1>7, <1>9, <3>1
  <2>2. CASE h # f
    <3>1. w.engines[h] = m.engines[h]
      BY <1>5, <1>9, <2>2
    <3> QED
      BY <1>9, <3>1 DEF Configured
  <2> QED
    BY <2>1, <2>2
<1> QED
  BY <1>8, <1>9, <1>10, <1>11 DEF w

(* Engines stay configured while files are replaced.                        *)
LEMMA Later ==
  ASSUME NEW m \in ModelSet, NEW now \in Int, NEW then \in Int, now <= then,
         Configured(m, now)
  PROVE  Configured(m, then)
<1> SUFFICES ASSUME NEW h \in EngineFiles, m.engines[h] # None
             PROVE  m.engines[h].readAt <= then
  BY DEF Configured
<1>1. m.engines[h] \in EngineSet
  BY DEF ModelSet
<1> QED
  BY <1>1 DEF Configured, EngineSet

-----------------------------------------------------------------------------
(* The grid.                                                                *)

(* A divisor of h divides it back.                                          *)
LEMMA Quotient ==
  ASSUME NEW h \in Nat \ {0}, NEW a \in Nat \ {0}, h % a = 0
  PROVE  /\ h \div a \in Nat \ {0}
         /\ h \div (h \div a) = a
         /\ h % (h \div a) = 0
<1> DEFINE q == h \div a
<1>1. q \in Nat /\ h = a * q
  BY SMT
<1>2. q # 0
  BY <1>1
<1> HIDE DEF q
<1>3. h \div q = a
  BY <1>1, <1>2, SMTT(60)
<1>4. h % q = 0
  BY <1>1, <1>2, SMTT(60)
<1> QED
  BY <1>1, <1>2, <1>3, <1>4 DEF q

(* A derived resolution describes its shape.                                *)
LEMMA DerivedIsRegular ==
  ASSUME NEW s \in Int \X Int, ShapeValid(s), HalfTurn % (s[1] - 1) = 0,
         ResolutionOf(s) # None
  PROVE  ResolutionOf(s) \in Int /\ Regular(s, ResolutionOf(s))
<1> DEFINE a == s[1] - 1
<1>1. /\ a \in Nat \ {0} /\ s[2] = 2 * a /\ s = <<a + 1, 2 * a>>
      /\ ResolutionOf(s) = HalfTurn \div a
  BY DEF ShapeValid, ResolutionOf
<1> HIDE DEF a
<1>2. /\ HalfTurn \div a \in Nat \ {0} /\ HalfTurn \div (HalfTurn \div a) = a
      /\ HalfTurn % (HalfTurn \div a) = 0
  BY <1>1, Quotient, TurnAssumption DEF a
<1>3. ResolutionValid(ResolutionOf(s))
  BY <1>1, <1>2 DEF ResolutionValid
<1> QED
  BY <1>1, <1>2, <1>3 DEF GridOf, Regular

Declared(m) == IF Tiled(m) THEN GridOfBundle[Source(m)] ELSE Undeclared

(* The shape and the resolution a model settles on agree, unless it takes   *)
(* the bundle's word for the resolution.                                    *)
LEMMA GridSettled ==
  ASSUME NEW m \in ModelSet, Sound(m), NEW n,
         GridFits(m.asked.extra, Declared(m), n)
  PROVE  LET shape == SettledShape(m.asked.extra, Declared(m), n)
             resolution == SettledResolution(m.asked.extra, Declared(m), n)
         IN  /\ shape \in (Int \X Int) \cup {None}
             /\ resolution \in Int \cup {None}
             /\ (shape # None /\ resolution # None) =>
                  Regular(shape, resolution) \/ OnTrust(m, resolution)
<1> DEFINE x == m.asked.extra
           r == x.reference_grid_resolution_degrees
           d == Declared(m)
           shape == SettledShape(x, d, n)
           resolution == SettledResolution(x, d, n)
<1>1. x \in ExtraValues
  BY DEF ModelSet, AskedSet
<1>2. /\ r \in Int \cup {None}
      /\ x.reference_grid_shape \in (Int \X Int) \cup {None}
      /\ x.reference_grid_shape \in {y.reference_grid_shape : y \in Extras}
      /\ x.tile_bundle_path \in Bundles \cup {None}
  BY <1>1, AskedType
<1>3. /\ d.shape \in (Int \X Int) \cup {None} /\ d.resolution \in Int \cup {None}
      /\ d.resolution # None => Tiled(m) /\ d = GridOfBundle[Source(m)]
      /\ d.shape # None => d.shape \in {GridOfBundle[b].shape : b \in Bundles}
  <2>1. CASE ~Tiled(m)
    BY <2>1 DEF Declared, Undeclared
  <2>2. CASE Tiled(m)
    <3>1. d = GridOfBundle[Source(m)] /\ Source(m) \in Bundles
      BY <1>2, <2>2 DEF Declared, Source, Tiled, Sound
    <3>2. d \in [shape : (Int \X Int) \cup {None}, resolution : Int \cup {None}]
      BY <3>1, GridAssumption
    <3> QED
      BY <2>2, <3>1, <3>2
  <2> QED
    BY <2>1, <2>2
<1>4. r # None => ResolutionValid(r) /\ GridOf(r) \in Int \X Int /\ GridOf(r) # None
  <2>1. r # None => r > 0 /\ ResolutionValid(r)
    BY DEF Sound, ResolutionValid
  <2>2. r # None => GridOf(r) \in Int \X Int
    BY <1>2, <2>1, TurnAssumption DEF GridOf
  <2> QED
    BY <2>1, <2>2, NoneAssumption
<1>5. DefaultGrid \in Int \X Int
  BY DefaultAssumption
<1>6. /\ r # None => shape = GridOf(r)
      /\ (r = None /\ x.reference_grid_shape # None) => shape = x.reference_grid_shape
      /\ (r = None /\ x.reference_grid_shape = None /\ d.shape # None) => shape = d.shape
      /\ (r = None /\ x.reference_grid_shape = None /\ d.shape = None) =>
           shape \in {DefaultGrid, None}
  BY <1>4 DEF SettledShape, RequestedShape
<1>7. shape \in (Int \X Int) \cup {None}
  BY <1>2, <1>3, <1>4, <1>5, <1>6
<1>8. shape # None =>
        /\ ShapeValid(shape)
        /\ (r = None => HalfTurn % (shape[1] - 1) = 0)
  <2> SUFFICES ASSUME shape # None
               PROVE  ShapeValid(shape) /\ (r = None => HalfTurn % (shape[1] - 1) = 0)
    OBVIOUS
  <2>1. ShapeValid(shape)
    BY DEF GridFits
  <2>2. r = None => shape \in Shapes({y.reference_grid_shape : y \in Extras}
                       \cup {GridOfBundle[b].shape : b \in Bundles} \cup {DefaultGrid})
    BY <1>2, <1>3, <1>6 DEF Shapes
  <2> QED
    BY <2>1, <2>2, GridAssumption
<1>9. shape # None /\ r = None /\ ResolutionOf(shape) # None =>
        ResolutionOf(shape) \in Int /\ Regular(shape, ResolutionOf(shape))
  BY <1>7, <1>8, DerivedIsRegular
<1>10. /\ r # None => resolution = r
       /\ (r = None /\ d.resolution # None) => resolution = d.resolution
       /\ (r = None /\ d.resolution = None /\ shape # None) => resolution = ResolutionOf(shape)
       /\ (r = None /\ d.resolution = None /\ shape = None) => resolution = None
  BY DEF SettledResolution
<1> HIDE DEF x, r, d, shape, resolution
<1>11. resolution \in Int \cup {None}
  BY <1>2, <1>3, <1>9, <1>10
<1>12. (shape # None /\ resolution # None) =>
         Regular(shape, resolution) \/ OnTrust(m, resolution)
  <2> SUFFICES ASSUME shape # None, resolution # None
               PROVE  Regular(shape, resolution) \/ OnTrust(m, resolution)
    OBVIOUS
  <2>1. CASE r # None
    BY <1>4, <1>6, <1>10, <2>1 DEF Regular
  <2>2. CASE r = None /\ d.resolution = None
    BY <1>9, <1>10, <2>2
  <2>3. CASE r = None /\ d.resolution # None
    <3>1. /\ resolution = d.resolution /\ Tiled(m) /\ d = GridOfBundle[Source(m)]
          /\ m.asked.extra.reference_grid_resolution_degrees = None
      BY <1>3, <1>10, <2>3 DEF x, r
    <3>2. CASE x.reference_grid_shape # None \/ ~Regular(d.shape, d.resolution)
      BY <3>1, <3>2 DEF OnTrust, x
    <3>3. CASE x.reference_grid_shape = None /\ Regular(d.shape, d.resolution)
      <4>1. d.shape # None
        <5>1. d.shape = GridOf(d.resolution) /\ d.resolution > 0 /\ d.resolution \in Int
          BY <1>3, <2>3, <3>3 DEF Regular, ResolutionValid
        <5>2. GridOf(d.resolution) \in Int \X Int
          BY <5>1, TurnAssumption DEF GridOf
        <5> QED
          BY <5>1, <5>2, NoneAssumption
      <4> QED
        BY <1>6, <2>3, <3>1, <3>3, <4>1
    <3> QED
      BY <3>2, <3>3
  <2> QED
    BY <2>1, <2>2, <2>3
<1> QED
  BY <1>7, <1>11, <1>12 DEF x, d, shape, resolution

-----------------------------------------------------------------------------
(* The initial state and each action.                                       *)

(* An accessor begins without a model.                                      *)
LEMMA InitOK == Init => IInv
<1> SUFFICES ASSUME Init PROVE IInv
  OBVIOUS
<1>1. Typed
  <2>1. call.stage = "idle"
    BY DEF Init
  <2>2. clock \in 0 .. MaxEdits
    BY FileAssumption DEF Init
  <2>3. /\ dicts \in [Objects -> Contents] /\ environment \in ModelFiles \cup {None}
        /\ model = None /\ kwargs = None /\ draft = None /\ tampered \in BOOLEAN
    BY DEF Init
  <2> QED
    BY <2>1, <2>2, <2>3 DEF Typed
<1>2. Called /\ Asking /\ Drafted /\ Stored /\ Serving
  BY DEF Init, Called, Asking, Building, Drafted, Stored, Serving
<1>3. ServedAsAsked /\ RaiseIsClean /\ GridIsRegular
  BY DEF Init, ServedAsAsked, RaiseIsClean, GridIsRegular
<1> QED
  BY <1>1, <1>2, <1>3 DEF IInv

(* Replaced files leave engines as old as they are.                         *)
LEMMA ReplaceOK ==
  ASSUME IInv, Replace PROVE IInv'
<1> USE DEF IInv, Replace
<1>1. Typed'
  BY FileAssumption DEF Typed
<1>2. Called'
  BY DEF Called, Typed
<1>3. Asking'
  BY DEF Asking, Building, Values, Held, Asked
<1>4. Drafted'
  <2>1. draft # None => Configured(draft, clock + 1)
    BY Later DEF Drafted, Typed
  <2> QED
    BY <2>1 DEF Drafted, Typed, ModelSet
<1>5. Stored'
  <2>1. model # None => Configured(model, clock + 1)
    BY Later DEF Stored, Typed
  <2>2. model # None => model.since <= clock + 1
    BY DEF Stored, Typed, ModelSet
  <2> QED
    BY <2>1, <2>2 DEF Stored, Values, Held
<1>6. (ServedAsAsked /\ Serving /\ RaiseIsClean /\ GridIsRegular)'
  BY DEF ServedAsAsked, Serving, RaiseIsClean, GridIsRegular, Asked
<1> QED
  BY <1>1, <1>2, <1>3, <1>4, <1>5, <1>6

(* The environment is read by the next call only.                           *)
LEMMA SetEnvironmentOK ==
  ASSUME IInv, NEW f \in ModelFiles \cup {None}, SetEnvironment(f) PROVE IInv'
<1> USE DEF IInv, SetEnvironment
<1>1. Typed' /\ Called'
  BY DEF Typed, Called
<1>2. Asking' /\ Drafted' /\ Stored'
  BY DEF Asking, Building, Drafted, Stored, Values, Held, Asked
<1>3. (ServedAsAsked /\ Serving /\ RaiseIsClean /\ GridIsRegular)'
  BY DEF ServedAsAsked, Serving, RaiseIsClean, GridIsRegular, Asked
<1> QED
  BY <1>1, <1>2, <1>3

(* The caller may change what the stored arguments hold, and is known to    *)
(* have done so; anything else leaves them as they are.                     *)
LEMMA MutateOK ==
  ASSUME IInv, NEW d \in Objects, NEW c \in Contents, Mutate(d, c) PROVE IInv'
<1> USE DEF IInv, Mutate
<1>1. Typed' /\ Called'
  BY DEF Typed, Called
<1>2. Asking' /\ Drafted'
  BY DEF Asking, Building, Idle, Drafted, Typed, Asked
<1>3. Stored'
  <2>1. (kwargs # None /\ ~tampered') => Values(kwargs)' = Values(kwargs)
    <3> SUFFICES ASSUME kwargs # None, ~tampered'
                 PROVE  Held(kwargs.extra.execution_provider_options)'
                          = Held(kwargs.extra.execution_provider_options)
      BY DEF Values, Typed, ArgumentSet
    <3>1. kwargs.extra.execution_provider_options \in (Objects \ {d}) \cup {None}
      BY ArgumentAssumption DEF Typed, ArgumentSet
    <3> QED
      BY <3>1 DEF Held, Typed
  <2> QED
    BY <2>1 DEF Stored, Typed
<1>4. (ServedAsAsked /\ Serving /\ RaiseIsClean /\ GridIsRegular)'
  BY DEF ServedAsAsked, Serving, RaiseIsClean, GridIsRegular, Asked, Idle
<1> QED
  BY <1>1, <1>2, <1>3, <1>4

(* Beginning a call disturbs neither the model nor a draft: there is none.  *)
LEMMA BeginOK ==
  ASSUME IInv, Idle, UNCHANGED <<world, model, kwargs, draft, tampered>>,
         NEW stage \in {"check", "run", "returned"},
         NEW args \in ArgumentSet \cup {None}, NEW forecast \in BOOLEAN,
         stage = "check" => args # None,
         stage # "check" => model # None,
         stage # "check" /\ args # None => Values(args) = Values(kwargs),
         call' = [stage |-> stage, args |-> args,
                  asked |-> IF args = None THEN None ELSE Values(args), forecast |-> forecast,
                  since |-> clock, former |-> [asked |-> Asked(model), kwargs |-> kwargs]]
  PROVE  IInv'
<1> USE DEF IInv, world
<1>1. Asked(model) \in AskedSet \cup {None}
  BY DEF Asked, Typed, ModelSet
<1>2. args # None => Values(args) \in AskedSet /\ Values(args) # None
  BY ValuesType DEF Typed
<1>3. call'.stage = stage /\ call'.args = args /\ call'.since = clock
      /\ call'.asked = (IF args = None THEN None ELSE Values(args))
      /\ call'.former = [asked |-> Asked(model), kwargs |-> kwargs]
  OBVIOUS
<1>4. draft = None
  BY DEF Typed, Idle
<1>5. Typed'
  BY <1>3, <1>4 DEF Typed
<1>6. Called'
  BY <1>1, <1>2 DEF Called, Typed
<1>7. Asking'
  BY <1>3 DEF Asking, Building, Values, Held, Asked
<1>8. Drafted'
  BY <1>4 DEF Drafted
<1>9. Stored'
  BY DEF Stored, Values, Held
<1>10. ServedAsAsked'
  BY <1>3 DEF ServedAsAsked, Stored, Asked
<1>11. Serving'
  BY <1>3 DEF Serving, Asked
<1>12. RaiseIsClean' /\ GridIsRegular'
  BY <1>3 DEF RaiseIsClean, GridIsRegular
<1> QED
  BY <1>5, <1>6, <1>7, <1>8, <1>9, <1>10, <1>11, <1>12

(* load_model with any arguments.                                           *)
LEMMA LoadOK ==
  ASSUME IInv, Idle, NEW a \in ArgumentSet, NEW force \in BOOLEAN, NEW forecast \in BOOLEAN,
         Load(a, force, forecast)
  PROVE  IInv'
<1> DEFINE stage == IF model = None \/ force \/ ~SameArguments(a) THEN "check"
                    ELSE IF forecast THEN "run" ELSE "returned"
<1>1. a # None
  BY NoneAssumption
<1>2. stage \in {"check", "run", "returned"}
  OBVIOUS
<1>3. stage # "check" => model # None /\ Values(a) = Values(kwargs)
  BY DEF SameArguments
<1>4. call' = [stage |-> stage, args |-> a,
               asked |-> IF a = None THEN None ELSE Values(a), forecast |-> forecast,
               since |-> clock, former |-> [asked |-> Asked(model), kwargs |-> kwargs]]
  BY <1>1 DEF Load
<1>5. UNCHANGED <<world, model, kwargs, draft, tampered>>
  BY DEF Load
<1> HIDE DEF stage
<1> QED
  BY <1>1, <1>2, <1>3, <1>4, <1>5, BeginOK

(* load_model as the caller calls it.                                       *)
LEMMA CallLoadOK ==
  ASSUME IInv, NEW f \in ModelFiles, NEW w \in WeightDirs, NEW x \in Extras,
         NEW force \in BOOLEAN, CallLoad(f, w, x, force)
  PROVE  IInv'
<1>1. Arguments(f, w, x) \in ArgumentSet
  BY DEF Arguments, ArgumentSet
<1> QED
  BY <1>1, LoadOK DEF CallLoad

(* predict, through load_model or with the cached model.                    *)
LEMMA CallPredictOK ==
  ASSUME IInv, NEW f \in ModelFiles \cup {None}, NEW w \in WeightDirs \cup {None},
         NEW x \in Extras, CallPredict(f, w, x)
  PROVE  IInv'
<1> DEFINE a == Arguments(IF f # None THEN f ELSE FromEnvironment,
                          IF w # None THEN w ELSE DefaultWeights, x)
           given == f # None \/ w # None \/ x # NoArguments
<1>1. a \in ArgumentSet
  BY FileAssumption DEF Arguments, ArgumentSet, FromEnvironment, IInv, Typed
<1>2. CASE given \/ model = None
  <2>1. Idle /\ Load(a, FALSE, TRUE)
    BY <1>2 DEF CallPredict
  <2> QED
    BY <1>1, <2>1, LoadOK
<1>3. CASE ~(given \/ model = None)
  <2>1. /\ Idle /\ UNCHANGED <<world, model, kwargs, draft, tampered>>
        /\ call' = [stage |-> "run", args |-> None,
                    asked |-> IF None = None THEN None ELSE Values(None), forecast |-> TRUE,
                    since |-> clock, former |-> [asked |-> Asked(model), kwargs |-> kwargs]]
    BY <1>3 DEF CallPredict
  <2> QED
    BY <1>3, <2>1, BeginOK
<1> QED
  BY <1>2, <1>3

(* An exception of the constructor leaves everything but the call alone.    *)
LEMMA RaiseOK ==
  ASSUME IInv, Building, Raise, UNCHANGED <<world, model, kwargs, tampered>>
  PROVE  IInv'
<1> USE DEF IInv, world
<1>1. call \in [stage : {"check", "build", "settle", "run", "returned", "raised"},
                  args : ArgumentSet \cup {None}, asked : AskedSet \cup {None},
                  forecast : BOOLEAN, since : 0 .. MaxEdits,
                  former : [asked : AskedSet \cup {None}, kwargs : ArgumentSet \cup {None}]]
  BY DEF Called, Building
<1>2. /\ call' = [stage |-> "raised", args |-> call.args, asked |-> call.asked,
                  forecast |-> call.forecast, since |-> call.since, former |-> call.former]
      /\ draft' = None
  BY <1>1 DEF Raise, Go
<1>3. call'.stage = "raised" /\ call'.former = [asked |-> Asked(model), kwargs |-> kwargs]
  BY <1>2 DEF Asking
<1>4. Typed'
  BY <1>2, <1>3 DEF Typed
<1>5. Called'
  BY <1>1, <1>2 DEF Called, Building
<1>6. Asking' /\ Drafted' /\ Serving' /\ ServedAsAsked'
  BY <1>2, <1>3 DEF Asking, Building, Drafted, Serving, ServedAsAsked
<1>7. Stored'
  BY DEF Stored, Values, Held
<1>8. RaiseIsClean' /\ GridIsRegular'
  BY <1>3 DEF RaiseIsClean, GridIsRegular, Asked
<1> QED
  BY <1>4, <1>5, <1>6, <1>7, <1>8

(* The call has all its fields while it builds or runs.                     *)
FullCall ==
  [stage : {"check", "build", "settle", "run", "returned", "raised"},
   args : ArgumentSet \cup {None}, asked : AskedSet \cup {None},
   forecast : BOOLEAN, since : 0 .. MaxEdits,
   former : [asked : AskedSet \cup {None}, kwargs : ArgumentSet \cup {None}]]

(* The next stage of a call is the same call.                               *)
LEMMA GoOK ==
  ASSUME Called, call.stage # "idle", clock' = clock,
         NEW stage \in {"check", "build", "settle", "run", "returned", "raised"}, Go(stage)
  PROVE  /\ Called' /\ call'.stage = stage /\ call \in FullCall /\ call' \in FullCall
         /\ call'.args = call.args /\ call'.asked = call.asked
         /\ call'.since = call.since /\ call'.former = call.former
<1>1. call \in FullCall /\ call.since <= clock
  BY DEF Called, FullCall
<1>2. call' = [call EXCEPT !.stage = stage]
  BY DEF Go
<1>3. /\ call' = [stage |-> stage, args |-> call.args, asked |-> call.asked,
                  forecast |-> call.forecast, since |-> call.since, former |-> call.former]
  BY <1>1, <1>2 DEF FullCall
<1>4. call' \in FullCall
  BY <1>1, <1>3 DEF FullCall
<1> QED
  BY <1>1, <1>3, <1>4 DEF Called, FullCall

(* What Acceptable says of the caller's arguments holds of the model's.     *)
LEMMA CheckedIsSound ==
  ASSUME NEW m, m.asked.extra \in ExtraValues, NEW x, NEW c, SameBut(m.asked.extra, x),
         m.copied = m.asked.extra.execution_provider_options, Acceptable(x, c)
  PROVE  Sound(m)
<1> DEFINE y == m.asked.extra
<1>1. /\ y.execution_device_id \in Int \cup {None} /\ y.cuda_device_id \in Int \cup {None}
      /\ y.execution_memory_limit \in Int \cup {None}
      /\ y.cuda_gpu_mem_limit \in Int \cup {None}
  BY AskedType
<1>2. /\ DeviceId(y) \in Int /\ DeviceId(y) = DeviceId(x)
      /\ MemoryLimit(y) \in Int /\ MemoryLimit(y) = MemoryLimit(x)
  BY <1>1 DEF DeviceId, MemoryLimit, Either, SameBut
<1>3. DeviceId(x) >= 0 /\ MemoryLimit(x) >= 0
  BY DEF Acceptable, DeviceValid
<1>4. y.reference_grid_resolution_degrees # None =>
        ResolutionValid(y.reference_grid_resolution_degrees)
  BY DEF Acceptable, SameBut
<1>5. SpatialTiling(y) => y.tile_bundle_path # None
  BY DEF Acceptable, SameBut, SpatialTiling
<1> HIDE DEF y
<1>6. DeviceId(y) \in Nat /\ MemoryLimit(y) \in Nat
  BY <1>2, <1>3
<1> QED
  BY <1>4, <1>5, <1>6 DEF Sound, y

(* The checks, and the copy of the options.                                 *)
LEMMA CheckOK ==
  ASSUME IInv, Check PROVE IInv'
<1> USE DEF IInv
<1> DEFINE x == call.args.extra
           copied == Held(x.execution_provider_options)
           new == [asked |-> call.asked, copied |-> copied, since |-> call.since,
                   shape |-> None, resolution |-> None, engines |-> NoEngines]
<1>1. Building /\ UNCHANGED <<world, model, kwargs, tampered>>
  BY DEF Building, Check, StoreEarly
<1>2. CASE Raise
  BY <1>1, <1>2, RaiseOK
<1>3. CASE draft' = new /\ Go("build") /\ Acceptable(x, copied)
  <2>1. /\ call.args \in ArgumentSet /\ call.asked = Values(call.args)
        /\ call.former = [asked |-> Asked(model), kwargs |-> kwargs]
    BY <1>1 DEF Asking
  <2>2. /\ call.asked \in AskedSet /\ call.asked.extra.execution_provider_options = copied
        /\ copied \in OptionValues /\ SameBut(call.asked.extra, x)
    BY <2>1, ValuesType DEF Typed
  <2>3. /\ Called' /\ call'.stage = "build" /\ call \in FullCall
        /\ call'.args = call.args /\ call'.asked = call.asked
        /\ call'.since = call.since /\ call'.former = call.former
    BY <1>1, <1>3, GoOK DEF world, Check
  <2>4. NoEngines \in [EngineFiles -> EngineSet \cup {None}]
    BY DEF NoEngines
  <2>5. new \in ModelSet
    BY <2>2, <2>3, <2>4 DEF ModelSet, FullCall
  <2>6. new.asked = call.asked /\ new.copied = copied /\ new.since = call.since
        /\ new.engines = NoEngines
    OBVIOUS
  <2> HIDE DEF new
  <2>7. Sound(new)
    <3>1. new.asked.extra \in ExtraValues
      BY <2>2, <2>6 DEF AskedSet
    <3> QED
      BY <1>3, <2>2, <2>6, <3>1, CheckedIsSound
  <2>8. Configured(new, clock)
    BY <2>6 DEF Configured, NoEngines
  <2>9. Drafted'
    BY <1>1, <1>3, <2>3, <2>6, <2>7, <2>8 DEF Drafted, Called, world
  <2>10. Typed'
    BY <1>1, <1>3, <2>3, <2>5, NoneAssumption DEF Typed, world
  <2>11. Asking'
    BY <1>1, <2>1, <2>3 DEF Asking, Asked, Values, Held, world
  <2>12. Stored'
    BY <1>1 DEF Stored, Values, Held, world
  <2>13. (ServedAsAsked /\ Serving /\ RaiseIsClean /\ GridIsRegular)'
    BY <1>1, <2>3 DEF ServedAsAsked, Serving, RaiseIsClean, GridIsRegular
  <2> QED
    BY <2>3, <2>9, <2>10, <2>11, <2>12, <2>13
<1> QED
  BY <1>2, <1>3 DEF Check

(* The engine of an untiled model, none of a tiled one.                     *)
LEMMA BuildOK ==
  ASSUME IInv, Build PROVE IInv'
<1> USE DEF IInv
<1>1. Building /\ UNCHANGED <<world, model, kwargs, tampered>> /\ call.stage = "build"
  BY DEF Building, Build
<1>2. CASE Raise
  BY <1>1, <1>2, RaiseOK
<1>3. ASSUME Go("settle"),
             draft' = draft \/ (Creatable(draft) /\ draft' = WithEngine(draft, Source(draft)))
      PROVE  IInv'
  <2>1. /\ draft \in ModelSet /\ draft # None /\ clock \in 0 .. MaxEdits
        /\ Sound(draft) /\ Configured(draft, clock)
        /\ draft.asked = call.asked /\ draft.since <= clock
    BY <1>1 DEF Typed, Drafted
  <2>2. /\ draft' \in ModelSet /\ Sound(draft') /\ Configured(draft', clock)
        /\ draft'.asked = call.asked /\ draft'.since <= clock
    <3>1. CASE draft' = draft
      BY <2>1, <3>1
    <3>2. CASE Creatable(draft) /\ draft' = WithEngine(draft, Source(draft))
      BY <2>1, <3>2, EngineAdded
    <3> QED
      BY <1>3, <3>1, <3>2
  <2>3. /\ Called' /\ call'.stage = "settle"
        /\ call'.args = call.args /\ call'.asked = call.asked /\ call'.former = call.former
    BY <1>1, <1>3, GoOK DEF world
  <2>4. Typed'
    BY <1>1, <2>2, <2>3, NoneAssumption DEF Typed, world
  <2>5. Asking'
    BY <1>1, <2>3 DEF Asking, Building, Asked, Values, Held, world
  <2>6. Drafted'
    BY <1>1, <2>2, <2>3 DEF Drafted, world
  <2>7. Stored'
    BY <1>1 DEF Stored, Values, Held, world
  <2>8. (ServedAsAsked /\ Serving /\ RaiseIsClean /\ GridIsRegular)'
    BY <1>1, <2>3 DEF ServedAsAsked, Serving, RaiseIsClean, GridIsRegular
  <2> QED
    BY <2>3, <2>4, <2>5, <2>6, <2>7, <2>8
<1> QED
  BY <1>2, <1>3 DEF Build

(* A model with another grid is otherwise the same.                         *)
LEMMA GridReplaced ==
  ASSUME NEW m \in ModelSet, NEW s, NEW r
  PROVE  [m EXCEPT !.shape = s, !.resolution = r]
           = [asked |-> m.asked, copied |-> m.copied, since |-> m.since,
              shape |-> s, resolution |-> r, engines |-> m.engines]
<1> DEFINE first == [m EXCEPT !.shape = s]
<1>1. DOMAIN first = {"asked", "copied", "since", "shape", "resolution", "engines"}
  BY DEF ModelSet
<1>2. /\ first.asked = m.asked /\ first.copied = m.copied /\ first.since = m.since
      /\ first.shape = s /\ first.engines = m.engines
  BY DEF ModelSet
<1>3. first = [f \in DOMAIN first |-> first[f]]
  BY DEF ModelSet
<1>4. [m EXCEPT !.shape = s, !.resolution = r] = [first EXCEPT !.resolution = r]
  BY Zenon
<1> HIDE DEF first
<1>5. [first EXCEPT !.resolution = r]
        = [asked |-> m.asked, copied |-> m.copied, since |-> m.since,
           shape |-> s, resolution |-> r, engines |-> m.engines]
  BY <1>1, <1>2, <1>3
<1> QED
  BY <1>4, <1>5, Zenon

(* Where the model and its arguments are replaced, in one step.             *)
LEMMA SettleOK ==
  ASSUME IInv, Settle PROVE IInv'
<1> USE DEF IInv
<1> DEFINE x == draft.asked.extra
           n == NodesOf[Source(draft)]
           shape == SettledShape(x, Declared(draft), n)
           resolution == SettledResolution(x, Declared(draft), n)
           new == [draft EXCEPT !.shape = shape, !.resolution = resolution]
           next == IF call.forecast THEN "run" ELSE "returned"
<1>1. Building /\ UNCHANGED world /\ call.stage = "settle"
  BY DEF Building, Settle
<1>2. CASE Raise /\ UNCHANGED <<model, kwargs, tampered>>
  BY <1>1, <1>2, RaiseOK
<1>3. CASE /\ GridFits(x, Declared(draft), n)
           /\ model' = new /\ kwargs' = call.args
           /\ tampered' = FALSE /\ draft' = None /\ Go(next)
  <2>1. /\ draft \in ModelSet /\ Sound(draft) /\ Configured(draft, clock)
        /\ draft.asked = call.asked /\ draft.since <= clock
    BY <1>1 DEF Typed, Drafted
  <2>2. /\ call.args \in ArgumentSet /\ call.asked = Values(call.args)
    BY <1>1 DEF Asking
  <2>3. call.asked \in AskedSet /\ call.asked # None
    BY <2>2, ValuesType DEF Typed
  <2>4. /\ shape \in (Int \X Int) \cup {None} /\ resolution \in Int \cup {None}
        /\ (shape # None /\ resolution # None) =>
             Regular(shape, resolution) \/ OnTrust(draft, resolution)
    BY <1>3, <2>1, GridSettled
  <2>5. /\ next \in {"run", "returned"}
        /\ Called' /\ call'.stage = next
        /\ call'.args = call.args /\ call'.asked = call.asked
    BY <1>1, <1>3, GoOK DEF world
  <2> HIDE DEF next, shape, resolution
  <2>6. new = [asked |-> draft.asked, copied |-> draft.copied, since |-> draft.since,
               shape |-> shape, resolution |-> resolution, engines |-> draft.engines]
    BY <2>1, GridReplaced
  <2>7. new \in ModelSet /\ new # None
    BY <2>1, <2>4, <2>6, NoneAssumption DEF ModelSet
  <2>8. /\ new.asked = draft.asked /\ new.copied = draft.copied /\ new.since = draft.since
        /\ new.engines = draft.engines /\ new.shape = shape /\ new.resolution = resolution
    BY <2>6
  <2> HIDE DEF new
  <2>9. Sound(new) /\ Configured(new, clock)
    BY <2>1, <2>8 DEF Sound, Configured
  <2>10. Typed'
    <3>1. /\ model' \in ModelSet /\ model' # None
          /\ kwargs' \in ArgumentSet /\ kwargs' # None
          /\ draft' = None /\ tampered' = FALSE /\ UNCHANGED world
          /\ call'.stage \in {"run", "returned"}
      BY <1>1, <1>3, <2>2, <2>5, <2>7, NoneAssumption
    <3>2. /\ (model' = None) = (kwargs' = None)
          /\ (draft' # None) = (call'.stage \in {"build", "settle"})
      BY <3>1
    <3>3. /\ dicts' \in [Objects -> Contents] /\ clock' \in 0 .. MaxEdits
          /\ environment' \in ModelFiles \cup {None}
      BY <3>1 DEF Typed, world
    <3> QED
      BY <3>1, <3>2, <3>3 DEF Typed
  <2>11. Asking' /\ Drafted'
    BY <1>3, <2>5 DEF Asking, Building, Drafted
  <2>12. Values(kwargs)' = call.asked
    BY <1>1, <1>3, <2>2 DEF Values, Held, world
  <2>13. Stored'
    BY <1>1, <1>3, <2>1, <2>8, <2>9, <2>12 DEF Stored, world
  <2>14. Asked(model)' = call.asked
    BY <1>3, <2>1, <2>7, <2>8 DEF Asked
  <2>15. ServedAsAsked' /\ Serving' /\ RaiseIsClean'
    BY <1>3, <2>3, <2>5, <2>7, <2>14 DEF ServedAsAsked, Serving, RaiseIsClean
  <2>16. GridIsRegular'
    BY <1>3, <2>4, <2>8 DEF GridIsRegular, OnTrust, Tiled, Source
  <2> QED
    BY <2>5, <2>10, <2>11, <2>13, <2>15, <2>16
<1> QED
  BY <1>2, <1>3 DEF Settle, Declared

(* A forecast adds engines, or ends.                                        *)
LEMMA RunOK ==
  ASSUME IInv, Run PROVE IInv'
<1> USE DEF IInv
<1>1. call.stage = "run" /\ UNCHANGED <<world, kwargs, tampered>> /\ model # None
  BY DEF Run, Serving
<1>2. /\ model \in ModelSet /\ clock \in 0 .. MaxEdits
      /\ Sound(model) /\ Configured(model, clock) /\ draft = None
  BY <1>1 DEF Typed, Stored
<1>3. ASSUME NEW f, Creatable(model), model' = WithEngine(model, f), UNCHANGED <<call, draft>>
      PROVE  IInv'
  <2>1. model.since <= clock
    \* A model is no older than the call that built it.
    BY <1>1 DEF Stored
  <2>2. /\ model' \in ModelSet /\ Sound(model') /\ Configured(model', clock)
        /\ model'.asked = model.asked /\ model'.shape = model.shape
        /\ model'.resolution = model.resolution
    BY <1>2, <1>3, <2>1, EngineAdded
  <2>3. model' # None
    BY <2>2, NoneAssumption
  <2>4. Typed' /\ Called'
    BY <1>1, <1>3, <2>2, <2>3 DEF Typed, Called, world
  <2>5. Asking' /\ Drafted'
    BY <1>1, <1>2, <1>3 DEF Asking, Building, Drafted
  <2>6. Stored'
    <3>1. model'.since = model.since
      BY <1>2, <1>3, <2>1, EngineAdded
    <3> QED
      BY <1>1, <2>1, <2>2, <3>1 DEF Stored, Values, Held, world
  <2>7. Asked(model)' = Asked(model)
    BY <1>1, <2>2, <2>3 DEF Asked
  <2>8. ServedAsAsked' /\ Serving' /\ RaiseIsClean'
    BY <1>1, <1>3, <2>3, <2>7 DEF ServedAsAsked, Serving, RaiseIsClean
  <2>9. GridIsRegular'
    BY <1>1, <2>2 DEF GridIsRegular, OnTrust, Tiled, Source
  <2> QED
    BY <2>4, <2>5, <2>6, <2>8, <2>9
<1>4. ASSUME NEW stage \in {"returned", "raised"}, Go(stage), draft' = None, model' = model
      PROVE  IInv'
  <2>1. /\ Called' /\ call'.stage = stage
        /\ call'.args = call.args /\ call'.asked = call.asked /\ call'.former = call.former
    BY <1>1, <1>4, GoOK DEF world
  <2>2. Typed'
    BY <1>1, <1>4, <2>1 DEF Typed, world
  <2>3. Asking' /\ Drafted'
    BY <1>4, <2>1 DEF Asking, Building, Drafted
  <2>4. Stored'
    BY <1>1, <1>4 DEF Stored, Values, Held, world
  <2>5. ServedAsAsked' /\ Serving' /\ RaiseIsClean' /\ GridIsRegular'
    BY <1>1, <1>4, <2>1 DEF ServedAsAsked, Serving, RaiseIsClean, GridIsRegular, Asked
  <2> QED
    BY <2>1, <2>2, <2>3, <2>4, <2>5
<1> QED
  BY <1>1, <1>2, <1>3, <1>4 DEF Run, Raise

(* A stuttering step.                                                       *)
LEMMA StutterOK ==
  ASSUME IInv, UNCHANGED vars PROVE IInv'
<1> USE DEF IInv, vars, world
<1>1. Typed' /\ Called' /\ Asking'
  BY DEF Typed, Called, Asking, Building, Values, Held, Asked
<1>2. Drafted' /\ Stored'
  BY DEF Drafted, Stored, Values, Held
<1>3. (ServedAsAsked /\ Serving /\ RaiseIsClean /\ GridIsRegular)'
  BY DEF ServedAsAsked, Serving, RaiseIsClean, GridIsRegular, Asked
<1> QED
  BY <1>1, <1>2, <1>3

-----------------------------------------------------------------------------
(* The theorems.                                                            *)

(* The invariant holds through every sequence of calls of load_model and    *)
(* predict (accessor.py), whatever the caller and other processes do.       *)
THEOREM Inductive == Spec => []IInv
<1>1. Init => IInv
  BY InitOK
<1>2. IInv /\ [Next]_vars => IInv'
  <2> SUFFICES ASSUME IInv, [Next]_vars PROVE IInv'
    OBVIOUS
  <2>1. CASE Replace
    BY <2>1, ReplaceOK
  <2>2. ASSUME NEW d \in Objects, NEW c \in Contents, Mutate(d, c) PROVE IInv'
    BY <2>2, MutateOK
  <2>3. ASSUME NEW f \in ModelFiles \cup {None}, SetEnvironment(f) PROVE IInv'
    BY <2>3, SetEnvironmentOK
  <2>4. ASSUME NEW f \in ModelFiles, NEW w \in WeightDirs, NEW x \in Extras,
               NEW force \in BOOLEAN, CallLoad(f, w, x, force)
        PROVE  IInv'
    BY <2>4, CallLoadOK
  <2>5. ASSUME NEW f \in ModelFiles \cup {None}, NEW w \in WeightDirs \cup {None},
               NEW x \in Extras, CallPredict(f, w, x)
        PROVE  IInv'
    BY <2>5, CallPredictOK
  <2>6. CASE Check
    BY <2>6, CheckOK
  <2>7. CASE Build
    BY <2>7, BuildOK
  <2>8. CASE Settle
    BY <2>8, SettleOK
  <2>9. CASE Run
    BY <2>9, RunOK
  <2>10. CASE UNCHANGED vars
    BY <2>10, StutterOK
  <2> QED
    BY <2>1, <2>2, <2>3, <2>4, <2>5, <2>6, <2>7, <2>8, <2>9, <2>10 DEF Next
<1> QED
  BY <1>1, <1>2, PTL DEF Spec

(* The types; every engine has a provider the host has and, where the       *)
(* caller's own options leave them open, a device that is not negative and  *)
(* no memory limit of zero (main.cpp:63-78, 196-237).                       *)
THEOREM TypeCorrect == Spec => []TypeOK
<1>1. IInv => TypeOK
  <2> SUFFICES ASSUME IInv, model # None, NEW f \in EngineFiles, model.engines[f] # None
               PROVE  LET s == model.engines[f].session IN
                      /\ s.provider \in Supported
                      /\ s.provider # "cpu" =>
                           IF model.copied.device_id = None
                           THEN s.options.device_id \in Nat
                           ELSE s.options.device_id = model.copied.device_id
                      /\ \A k \in {"gpu_mem_limit", "trt_max_workspace_size"} :
                           s.options[k] = 0 => model.copied[k] = 0
    BY DEF TypeOK, IInv
  <2>1. model.copied \in OptionValues
    BY DEF IInv, Typed, ModelSet
  <2>2. /\ model.engines[f].session = Session(model.asked.extra, model.copied)
        /\ Provider(model.asked.extra) \in Supported
        /\ DeviceId(model.asked.extra) \in Nat /\ MemoryLimit(model.asked.extra) \in Nat
    BY DEF IInv, Stored, Configured, Sound
  <2> QED
    BY <2>1, <2>2, SessionSound
<1> QED
  BY <1>1, Inductive, PTL

(* A call is served by a model built with the values it named, unless the   *)
(* caller changed an option object it had handed over (accessor.py:102-110).*)
THEOREM CallsServed == Spec => []ServedAsAsked
<1>1. IInv => ServedAsAsked
  BY DEF IInv
<1> QED
  BY <1>1, Inductive, PTL

(* A call that raises leaves a whole model with its own arguments: the      *)
(* former one, or the one it asked for (accessor.py:109-110).               *)
THEOREM RaisesClean == Spec => []RaiseIsClean
<1>1. IInv => RaiseIsClean
  BY DEF IInv
<1> QED
  BY <1>1, Inductive, PTL

(* All engines of a model, whenever created, run under the options and the  *)
(* constraints the model was asked for, from files no older than its call   *)
(* (model.py:403-415, 524-527).                                             *)
THEOREM EnginesConfigured == Spec => []EnginesAsConfigured
<1>1. IInv => EnginesAsConfigured
  <2> SUFFICES ASSUME IInv, model # None, NEW f \in EngineFiles, model.engines[f] # None
               PROVE  LET x == model.asked.extra IN
                      /\ model.engines[f].session = Session(x, x.execution_provider_options)
                      /\ model.engines[f].constraints = x.constraints_model_path
                      /\ model.engines[f].readAt >= model.since
    BY DEF EnginesAsConfigured
  <2>1. /\ model.engines[f].session = Session(model.asked.extra, model.copied)
        /\ model.engines[f].constraints = model.asked.extra.constraints_model_path
        /\ model.since <= model.engines[f].readAt
        /\ model.copied = model.asked.extra.execution_provider_options
    BY DEF IInv, Stored, Configured, Sound
  <2>2. model \in ModelSet /\ model.engines[f] \in EngineSet
    BY DEF IInv, Typed, ModelSet
  <2>3. model.since \in Int /\ model.engines[f].readAt \in Int
    BY <2>2 DEF ModelSet, EngineSet
  <2> QED
    BY <2>1, <2>3
<1> QED
  BY <1>1, Inductive, PTL

(* The shape and the resolution of a model describe one grid, whatever the  *)
(* manifests say, unless the resolution is the bundle's and the shape is    *)
(* not the one it declares for it (model.py:281-374, 490-491).              *)
THEOREM GridsRegular == Spec => []GridIsRegular
<1>1. IInv => GridIsRegular
  BY DEF IInv
<1> QED
  BY <1>1, Inductive, PTL

=============================================================================
