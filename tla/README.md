# WeatherGraph in TLA+

WeatherGraph runs graph neural network weather models exported to ONNX: a C++
module (`src/src/cpp/main.cpp`) holds the ONNX Runtime sessions and the hot loops, a
Python package (`src/weathergraph/`) wraps it with tiling, rollouts, ensembles,
exports and a command line. This directory holds TLA+ modules translated from that
code, TLC configurations that check them on small instances, and TLAPS proofs of the
properties that matter most for every value of the constants.

Line numbers are those of the source tree; `model.py`, `cli.py`, `utils.py`,
`tile_bundle.py`,
`accessor.py`, `data_sources.py` stand for the files of `src/weathergraph/`, `main.cpp` for
`src/src/cpp/main.cpp`. `PROJECT.json` maps every definition to the lines it models and
lists the hazards the properties are aimed at.

## 1. Inventory

| part | state it keeps | operations | what is hard about it |
|---|---|---|---|
| Tile bundle loading (`model.py:405-495`, `__init__`) | covered nodes, the tiles taken so far | read the manifest, check each tile, settle the reference grid | acceptance depends on the order of the tiles; coverage is checked once at the end |
| Tiled inference (`_predict_tiled`) | output and weight buffer, cache of engines, state counter | gather, run, accumulate, normalise | blending of overlapping tiles, a call that raises half way, the floor of 1e-8 |
| Rollouts and state buffers (`iter_forecast`, `predict_one_step`, `_allocate_state_buffer`, C++ `predict`) | the current state, the file counter of a state directory | next step, hand-over to the consumer | each step is at once the consumer's and the next input; `predict` sanitises in place; rollouts interleave where they yield |
| Ensemble core (`predict_ensemble`, Python and C++) | two work buffers, mean, M2, hit counters, rows | perturb, run, accumulate, feed back, finalise | one-pass statistics, reuse of the buffers between members, repeated aggregate steps, NaN |
| Tile bundle builder (`tile_bundle.py`) | the bundle directory on disk | partition, halo search, write index files, write the manifest | rounding at the edge, number of hops, a crash between two writes |
| Bundle directory | what builder and loader share | a load interleaved with builds | old manifest beside new index files, an input array of one build with an output array of another |
| Forecast export (`forecast_export`) | one NetCDF or Zarr store per channel, or one npz | create, write a step, close | truncation before the first step, stores of unequal length or with a slice half written after a crash |
| Command line (`cli.py`, `utils.py`) | model files, `.env`, `gcp_credentials.json`, environment | download, compile, pipeline, forecast, ensemble, inspect, prompt and retry | torn files that look present, a prompt that any exception may lead to, a command that runs twice, a stale credential, a key file two sessions share |
| Model construction (`model.py:73-145, 251-401`) | options, reference grid | normalisation and cross checks of the arguments, settlement of the grid | sources of a grid (shape, resolution, what a manifest declares, a default) that need not agree |
| Execution providers (`main.cpp:27-243, 318-408`) | the sessions | configuration of ONNX Runtime | options are merged when an engine is created, which for a tile may be long after the construction |
| xarray accessor (`accessor.py`) | a cached model and the arguments it was built from | reuse or rebuild, predict | the stored arguments hold the caller's own option objects; a rebuild may raise half way; files change behind equal arguments |
| Data sources (`data_sources.py`, `_resolve_dataset` and `_prepare_input`) | downloaded files, lazily opened datasets | retrieve, open, rename, scale, read the channels | shared default targets under `/tmp`, read after another load replaced them; variable maps that collide |
| CF metadata, integrations, visualisation | none | conversions, rendering | - |
| Model conversion (`src/exporter`) | none | build ONNX graphs with torch | - |
| Vendored runtime, scripts, examples, site | none | - | - |

How the parts interact. The CLI and the accessor construct a model object. The object
loads a bundle (written earlier by the builder, through the file system only), creates
one C++ engine per tile file lazily, and steps. `iter_forecast` is a generator: the
consumer (export, xarray conversion, user code) decides when the next step runs, and
holds references to the arrays of earlier steps. `predict_ensemble` is one C++ call
that keeps no reference to Python state. Exports pull `iter_forecast` and write to disk
as they go. Nothing in the program locks: threads, processes and crashes meet only in
the file system (state directories, bundle directories, export paths, model files).

What makes each part correct:

- loading: an accepted bundle covers every node, indexes none that is not there, and no
  tile without weights is laid over nodes an earlier tile owns;
- tiled inference: with sufficient halos, and weights that reach the floor somewhere at each node,
  it *is* the untiled step; below the floor it is damped, never inflated;
- rollouts: the n-th array handed out is the n-th state of that rollout's own
  trajectory, and stays so, however rollouts interleave and whatever models that share a state
  directory do to each other;
- ensembles: mean, M2 and counters are those of a two-pass computation; members are
  independent; the graph sees finite input only;
- builder and directory: halos are the receptive fields asked for; a load takes a bundle
  as it was built, or, in the middle of a rebuild, at least a partition;
- export: a finished export is complete and no readable file mixes two forecasts;
- command line: a retry or failure never spoils a model file that was there, and a command at the prompt
  has torn none but the one it failed to write; a command ends;
- accessor and construction: a call is served by the model it asked for, a call that raises
  leaves a model with its own arguments, and all engines of a model run as configured;
- data sources: a forecast starts from its own data, or from that of loads that meanwhile save into its
  file; each channel from the variable, level and unit meant for it.

## 2. Modules

```
TileBundle ---- TiledPredict --INSTANCE--> GlobalPredict      (abstract)
   |                 |
   |                 +-- MCTiledPredict, TiledPredict_proofs
   +--INSTANCE-- BundleDirectory -- TileBundleBuilder
                     +-- MCBundleDirectory, BundleDirectory_proofs
Rollout --INSTANCE--> Trajectory (abstract);  MCRollout, Rollout_proofs
Ensemble;  MCEnsemble, Ensemble_proofs
Export;    MCExport, Export_proofs
Pipeline;  MCPipeline, Pipeline_proofs
Construction -- Accessor -- MCAccessor, Accessor_proofs
DataSources;  MCDataSources, DataSources_proofs
```

**TileBundle** (`model.py:405-495` and the grid part of `__init__`). `CheckHeader`,
`ScanTile` and `Conclude` are the three stages of `_load_tile_bundle`; `WellFormed`,
`MayCover` and `Complete` are its raising conditions. `verdict` is where the load is.

**TiledPredict** composes that loader with calls of `_predict_tiled`. `Begin` is the
entry with the two allocations, `RunTile` one round of the loop, `RaiseInTile` every
way a round can raise (with what stays in the engine cache), `Finish` the
normalisation with its floor. Weights are counted in units of 1/`Unit`, and `Floor` of them stand for the
1e-8 of the code. The graph is a parameter: `Update(n, view)` is the next value of a node
from those neighbours its tile was given. **GlobalPredict** is what the caller is
promised: for a sound bundle, the step of the whole graph or an exception. A bundle is sound (`SoundBundle`) when
its halos suffice, no weight is negative, and at each node the weight of some owner is at least the floor.

**Rollout** is `iter_forecast` and `predict_one_step` of several model objects. Buffers
are explicit: `mem` maps a buffer (a heap array, or a file named by directory, prefix and
counter) to its content; `Buffer` and `Taken` are `_allocate_state_buffer`, where mode
`w+` truncates. Contents are symbolic: "state k of rollout r, with or without
non-finite values", "sum after n tiles", "junk". Junk appears as soon as a buffer is
used for two things at once, so the properties detect aliasing. Models may share a directory;
`Isolated` are the rollouts of those that do not. **Trajectory** is what
consumers are promised: each rollout hands out its own states, in order, for good.

**Ensemble** is one `predict_ensemble` call, one action per stage of the member and step
loops. `total`, `squares`, `poisoned` and `hits` are auxiliary: the two-pass statistics
the accumulators are compared with.

**TileBundleBuilder** is `build_tile_bundle`: argument checks, both partitions, the halo
search hop by hop, and the opening and the completion of each file as steps of their own (`OpenInput`,
`SaveInput`, `OpenOutput`, `SaveOutput`, `CutManifest`, `WriteManifest`), with a crash possible between any two.
**BundleDirectory** adds a loader that makes one step of each `json.load` and each `np.load`
(`OpenManifest`, `ReadInput`, `ReadOutput`), so that a build may go on between the two arrays of a tile. Its
checks are TileBundle's, by INSTANCE, applied to what is on disk when it is read.

**Export** is `forecast_export` with its three writers; several exports go to one path,
each of them may raise or be killed anywhere. `Cut` is what a write cut short may leave of a Zarr store,
`Unclosed` and `Closed` what a kill and an exception leave of the NetCDF files.

**Pipeline** is `main` of the CLI with `.env`, the authentication prompt and retry, and
the commands that write or read model files: `download-model`, `compile-model`,
`pipeline`, `forecast`, `ensemble`, `inspect`. Shells run concurrently over one work
directory. `Raise` leaves open, for every call, whether the exception's text holds one of the words that
`main` takes for a want of credentials. `keyFile` is `gcp_credentials.json`, to which `.env` and the environment may point.

**Construction** has no variables: it is the part of `WeatherGraphModel.__init__` and of the C++
constructor that computes. `Acceptable` is the conjunction of the checks on the arguments,
`SettledShape` and `SettledResolution` the reference grid, `Session` what
`append_execution_provider` merges.

**Accessor** is a dataset's accessor in one thread: `CallLoad` and `CallPredict` are the entries of `load_model`
and `predict` (and of the property `model`, which is predict's load without arguments), `Check`, `Build` and
`Settle` the constructor between them, `Run` the first step of the forecast with the engines a
tiled model creates tile by tile. Between any two of them another process may replace files
(`Replace`, a clock) or leave them broken; between two calls the caller changes its option
objects or its environment. `kwargs` holds references to those objects, as
`_model_kwargs` does, while `draft.copied` is the constructor's own copy.

**DataSources** runs several loads at once: `Import` (`_require`, whose ImportError `_resolve_dataset`
swallows), `Retrieve` and `Arrive` (a service writes the target file), `Open`, `Merge` and `Receive` (how
each kind of adapter gets its dataset) and `Read` (one channel of `_prepare_input`). The 12
adapters are six kinds: the adapters that open a file differ in the file's name, their variable
map and the two conversions only. `disturbed` is auxiliary: it marks a load whose file another load was
writing between its own writing and its last read.

## 3. Runs

| run | module | states | what it shows |
|---|---|---|---|
| `tiled_predict` | MCTiledPredict | 81,929 | `AcceptedCovers`, `LaterOverlapIsWeighted`, `PartialBlendExact`, `FloorOnlyDamps`, refinement of GlobalPredict |
| `rollout` | MCRollout | 1,022,699 | `HeldOnlySanitised`, refinement of Trajectory |
| `ensemble` | MCEnsemble | 56,438 | `GraphInputFinite`, `MomentsExact`, `NoNoiseNoSpread`, `EveryRuleReported` |
| `bundle_directory` | MCBundleDirectory | 85,061 | `HaloExact`, `WholeBuildLoads`, `EveryFileWasBuilt`, `MixIsPartition` |
| `export` | MCExport | 305,265 | `DoneIsComplete`, `ReadableIsOneRun`, `RaiseKeepsFormer` |
| `pipeline` | MCPipeline | 967,548 | `PipelineKeepsFiles`, `OnlyFailedWriteTears`, `SavedCredentialIsUsed`, `EachStepDescends`, `Terminates` |
| `accessor` | MCAccessor | 312,438 | `ServedAsAsked`, `RaiseIsClean`, `EnginesAsConfigured`, `GridIsRegular` |
| `data_sources` | MCDataSources | 996,846 | `OwnData`, `FieldsAsMapped` |

Each of them also checks its module's `TypeOK`. Four more runs each show one
statement of the repository that the code does not keep (section 6).

Bounds, and why they are enough:

- *tiled_predict*: all pairs of tiles from a pool of 61 over 2 nodes that contains every
  kind of index array the loader tells apart (empty, repeated, out of range, negative,
  wrong weight count, wrong row count), and all sequences of up to three tiles over a line of 3 nodes,
  where halos, blends and hard boundaries meet; two calls, so that a failed call is followed by
  another. Weights are quarters of 1.0 and the floor is two of them, so that totals of 0, below, at and above the
  floor occur (the floor of the code is 1e-8 of 1.0; nothing depends on how small it is). The proofs hold for every `Unit` and
  every `Floor` up to it, and lift the other bounds.
- *rollout*: a memory-mapped tiled model with two interleaved rollouts, an untiled model
  with a third, and two models with one directory, a single step each; any three of these five rollouts are begun
  (`MaxStarted`). 2 tiles, 2 steps: each buffer is input, output and held step once, a counter shared by two
  rollouts is advanced by both, and two models truncate each other's files beside a third. Lifted by the proofs.
- *ensemble*: up to 4 members and 3 steps (Welford needs three members before its
  terms differ in kind), one node, two variables at two levels, a graph that yields NaN, Inf or -Inf
  from some states, requests that list a step twice, `Scale` 12 so that all quotients are integers. Lifted by the proofs.
- *bundle_directory*: 13 argument lists that reach each branch of the checks and both
  partitions, at most 6 nodes and 4 tiles; 2 builds and 1 load, since a load can only mix
  the files of builds that run during it or died before it. A load makes two steps for each tile, so it can
  fall between any two steps of both builds. Lifted by the proofs.
- *export*: 2 levels by 2 variables so that a swapped channel index shows, up to 2 steps,
  3 exports so that there is a former file, one that dies, and one that follows. Lifted by the proofs.
- *pipeline*: 2 shells, 2 invocations, a good and a bad credential, two models behind two URLs, a source of either
  kind (with a credential or open to all). The shells export the bad credential, which the source refuses as it refuses
  none at all. Two invocations let one save what the other reads. No symmetry, which TLC does not allow with liveness.
  Lifted by the proofs, but for `Terminates`.
- *accessor*: two model files of different size, a bundle of two tiles (so that engines are
  created before and after an event), one whose manifest declares a shape and a resolution that do not belong together,
  one that declares a resolution alone and gets the default shape. One option object with two contents, among them a device
  of -1 and a limit of 0. Ten sets of keyword arguments: they give the grid by shape, by resolution, by both, by the bundle
  or not at all. Two of them are refused, by the device check and by the check that shape and resolution agree, and one is
  refused for the model whose nodes its grid does not fit. The other checks of `Acceptable` refuse in the proofs only. One replacement of files. The
  number of calls is not bounded. Lifted by the proofs.
- *data_sources*: two forecasts (symmetric), two files, five answers (two
  complete, one lacking a level of one variable, one lacking the level altogether, one in
  Pascal with other names), two variables at two levels, 12 adapters that
  contain each kind, a map that swaps names, one that collides, and shared targets. Lifted by the proofs.

`CHECK_DEADLOCK FALSE` stands in every configuration: a call that returned, a rollout
that was exhausted and a spent bound are ends the systems really have.

Fairness is assumed in Pipeline only: `WF_vars(Advance(p))` for each shell, that is, a
call of the operating system or of a service returns or raises in the end, and a user
who is prompted answers. Nothing is assumed of kills, of starting commands, or of which
way a call ends. The property it buys is `Terminates`: a second authentication failure
does not prompt again, because the retry stands outside the handled block
(`cli.py:634-646`). That holds for whatever led to the prompt. `EachStepDescends` is the safety half of it: a variant that every step of a
command lowers. The other modules state safety and refinement only, which need none.

## 4. Abstractions

- Arithmetic is exact where the code rounds to float32; the theorems about blending and
  Welford speak of the algorithms, not of rounding. In Ensemble means are
  kept in units of 1/`Scale` and M2 in 1/`Scale`^2; NaN in an accumulator stands for any
  non-finite value.
- The ONNX graphs are parameters. Their only assumed property is locality:
  a node's new value depends on its neighbours `Nbr`.
- Accessor: the size of a model file does not change when the file is replaced; a keyword
  argument given its default is one not given; `WEATHERGRAPH_WEIGHTS_DIR` behaves as
  `WEATHERGRAPH_ONNX_MODEL` does and is left out. Any read of a file may raise. What ONNX Runtime says to a
  provider of this build and host is one constant, `Supported`.
- DataSources: a file rewritten after it was lazily opened yields what a cache still holds, what the
  file now holds, or raises. Datasets name their pressure coordinate `level`. An answer is a
  record of variables and levels; times, latitudes and longitudes are not told apart.
- Pipeline: the key file is written at once.
- TileBundle leaves out the default grid of 181 x 360 for models with at least 65160 nodes,
  which always fits; Construction has it. Reshaping results into xarray datasets (`model.py:1157-1259`) is left out.
- One thread uses one model object; the class promises no thread safety. Different
  model objects run concurrently.
- Models that share a `tile_state_dir` are modelled, but promised nothing: the file names come from a
  per-object counter that starts at zero, so two objects given one directory (README.md:173 and docs_src
  hardware-tuning.md:67 propose a fixed one) truncate each other's live buffers. The properties speak of the models that
  share none (`Isolated`). A model without the argument has a temporary directory of its own.
- The opening of a file, which empties it, and its completion are separate steps where the file matters to others: model
  files, bundle files, the npz archive. A file that was opened and not completed (torn) is assumed not to parse.
  A read is one step. So a read that straddles a write, and sees the beginning of one array and the
  end of another, is below the grain of the model.
- Zarr and NetCDF are directories and containers, and what a cut leaves of them varies. A killed or failed write of a Zarr
  store leaves it as it was, emptied, unreadable, whole, or grown by a slice that holds fill values in whole or in part
  (`Fill`). A killed export leaves its NetCDF files unreadable, or, when an exception closed them, with fill values where
  no step was written.
- Resolutions are whole multiples of a unit, where the code compares with `np.isclose` (`model.py:132-143`): two
  resolutions that differ by less than its tolerance are one.
- When two processes write one model file at the same time, the file ends up as either of
  them meant it or torn.

## 5. Proofs

Eight modules, one for each component with state and named `<component>_proofs`, prove, for
every value of the constants that satisfies the named assumptions:

| theorem | statement |
|---|---|
| `TiledPredict_proofs!Coverage`, `OverlapDiscipline` | every accepted bundle covers all nodes; a later overlapping tile is weighted |
| `TiledPredict_proofs!BlendExact`, `FloorDamps` | between any two tiles the output buffer is the untiled step times the weight buffer; a node whose weights add up to less than the floor comes out damped towards zero, never inflated, and every other one exact |
| `TiledPredict_proofs!TiledImplementsUntiled` | TiledPredict implements GlobalPredict |
| `Rollout_proofs!HeldSafe` | a step handed out changes only by sanitising, if its model shares no state directory |
| `Rollout_proofs!RolloutImplementsTrajectory` | Rollout implements Trajectory, for the rollouts of models that share no state directory |
| `Ensemble_proofs!FiniteInputs`, `OnePassIsExact` | the graph sees finite values only; one-pass moments and counters equal the two-pass ones |
| `Accessor_proofs!CallsServed`, `RaisesClean` | a call gets the model it named, and an exception leaves a whole model |
| `Accessor_proofs!EnginesConfigured`, `GridsRegular` | engines run as configured whenever created; shape and resolution agree but where a manifest is taken on trust (section 6) |
| `DataSources_proofs!DataIsOwn`, `FieldsMapped` | a forecast starts from its own data or from what loads that wrote its file meanwhile saved there; each channel from what was meant for it |
| `Ensemble_proofs!SpreadIsZero` | without noise M2 is zero or NaN at every moment, whatever the graph and the number of members |
| `Ensemble_proofs!RulesReported` | every rule has its map in the result, unless a threshold has a level in its name |
| `BundleDirectory_proofs!HaloFound` | the halo search, with its frontier and early end, finds the whole receptive field of every tile of every graph |
| `BundleDirectory_proofs!WholeLoads` | a load that met one whole build takes exactly its tiles, or refuses a build that was not loadable |
| `BundleDirectory_proofs!FilesWereBuilt`, `MixSharesOut` | each array of a bundle that loads was written whole by some build for that place, input and output not always by the same one; tiles mixed from several builds still share out the nodes |
| `Export_proofs!CompleteWhenDone`, `OneRunPerFile` | a finished export is complete; a readable file is the first steps of one run, then fill values |
| `Export_proofs!FormerKept` | an export that raises leaves the archive, and the stores when it had no step |
| `Pipeline_proofs!FilesKept`, `OneFileTorn` | a pipeline leaves a file that was there; a command that stands at the prompt has torn none but the one whose writing raised |
| `Pipeline_proofs!CredentialUsed` | a good credential that `.env` leads to is used |
| `Pipeline_proofs!StepsRunOut` | each call of a command leaves fewer to make, through prompt and retry |
| `TypeCorrect`, `Inductive` in each | types; the inductive invariant |

*TiledPredict.* `IInv == LoadInv /\ TypeOK /\ Calling /\ Blending`. `LoadInv` says that
`covered` is the union of the outputs scanned so far, and that overlaps among them
follow the rule, so the two loader properties hold at acceptance. `PartialBlendExact` alone is
enough for the value but not for the division: `Blending` adds (`Weighed`), for weights that are not negative, that each
node has at least the weight of any tile that has run and owns it, whence at `Finish` it reaches the floor where one of its
owners does. `FloorOnlyDamps` needs no more than that, and no soundness. Sufficient halos enter once, where a tile's row
is shown equal to the untiled one because its halo holds the receptive field.

*Rollout.* `IInv == Base /\ \A r \in Isolated : Good(r)`, where `Base == Shape /\ Numbered /\ \A r : Placed(r)` is
kept by all models. `HeldOnlySanitised` is not inductive: a
fresh allocation could land on a held buffer. `Numbered` says that each buffer in use bears a number
below the counter of some model of its directory, and `Placed` that a rollout's buffers lie in its model's directory; so
in a directory of one's own an allocation is fresh, and no other model writes there. Nothing is assumed of the directories
the models are given. `Held(r)` and `Running(r)` then say what each buffer of a rollout contains at each
place of the loop.

*Ensemble.* `IInv == Typed /\ Exact`. `Exact` ties the accumulators to the auxiliary
totals for the members added so far (`Added(s)`), the quotient being exact by
`ScaleAssumption`. Lemma `Welford` is the algebra of one update, `Untouched` says
that a row no member has reached is still zero. `Further` adds three things. `Repeats`: without noise
there is one sequence T of outputs, known as far as the first member has come, that every
member adds again (`Alike`); the buffers always hold what T says, so nothing of an earlier member
is left in them, and by `Exact` and lemma `NoSquares` the spread is zero. T is a witness that grows
with the first member, so no induction over the steps is needed. `Passed`: a row that is
not the last of its step stays zero. `Reported`: the result is keyed by `NameOf`, which is injective
on the rules when no threshold has a level in its name (`OneName`).

*Accessor.* `ServedAsAsked` is not inductive: `Stored` adds that the stored arguments, read through
the caller's objects, still have the values the model was built with, unless `tampered`;
`Asking` and `Drafted` carry the values of the call through the constructor, where objects cannot
change, and `Configured` says of every engine that it was made from the model's own copy.
`GridsRegular` rests on `DerivedIsRegular`, the arithmetic of a resolution derived from a shape; what a manifest declares
is arbitrary, and `OnTrust` says when it decides.

*DataSources.* `IInv` has one predicate `Good` of each load and the files, and `Alone`: nobody writes the file of an
undisturbed load that is busy with it. `Traced` says where the values of any other load come from. `Fresh` and `Viewed` say that an
undisturbed load's file still holds what the load wrote or opened; `Faithful` says that the opened
dataset's variables are those meant, by lemma `RenamedAsMeant`, which needs that of the
entries with one source the last wins, and that `rename` raises on a collision.

*BundleDirectory.* `IInv == BInv /\ Loading /\ Following`. Of the builder, `Searching` says that after
`hop` hops the visited nodes are the ball of that radius, and that whoever sends to a visited node
behind the frontier has been visited, which is why an empty frontier may end the search early (lemma
`BallStops`). `Progress` and `Intact` say which files of the build at hand, or of the last whole one, are on the disk, also between the
opening of a file and its completion;
`Meant` that whatever is whole there was meant by some build. Of the load, `Disjoint` says that what it has taken
does not overlap and makes up `covered`, `Genuine` that each array, the one just read without its partner included, was meant, `Following` that it is the beginning of
the one build it saw. `WholeBuildLoads` and `MixIsPartition` need in addition what both partitions
compute: lemma `PartitionSplits` shows, from the arithmetic of blocks and runs (`BlocksSplit`, `RunsSplit`,
`Division`), that they share out the nodes, and `SortedFacts` that the written arrays are the
sorted sets, without repetition.

The recursion of the receptive field is a function whose value TLA+ defines by CHOOSE. `BallExists` shows that there is
one, by the least radius for which there would be none (lemma `First`, from the library's
well-foundedness of the naturals): induction in a form the provers accept.

*Export.* `IInv == Shape /\ Past /\ Present /\ Former`. `ReadableIsOneRun` alone does not say how far each
file of the current run has come: `Present` gives each file exactly, those before the position of
the double loop with the step at hand, the others with the one before (`Depth`). `Past` is what
survives into the next run: a store is the first steps of one run (`StackOrCut`), with what a cut may have left at its end. `FileFacts` is the arithmetic of the channel index.

*Pipeline.* `IInv == Shape /\ \A p : Fine(p)`. The properties speak of a command that runs alone. `Solo` says
that no other command is live while it does, so a step of a live command breaks nothing said of a lone one
(lemma `Others`). `Keeps`, `Tears` and `Saved` carry what the command found at its start to the place it
has reached; `Tears` names the one file a first attempt can have torn. `StepsRunOut` takes from `Leads` that each call leads to a nearer place, and that the prompt
is only reached in a first attempt.

Assumptions: `GridAssumption`, `ManifestAssumption` (TileBundle), `UpdateAssumption`,
`BoundAssumption`, `WeightAssumption` (TiledPredict), `ModelAssumption` (Rollout),
`ValueAssumption`, `LabelAssumption`, `ScaleAssumption`, `RequestAssumption` (Ensemble),
`TurnAssumption`, `DefaultAssumption` (Construction), `NoneAssumption`, `ArgumentAssumption`,
`FileAssumption`, `GridAssumption` (Accessor), `SourceAssumption` (DataSources), `BuildAssumption`,
`FileAssumption` (TileBundleBuilder), `LoadAssumption` (BundleDirectory), `SizeAssumption`, `BoundAssumption`,
`RequestAssumption` (Export), `CommandAssumption` (Pipeline). TLC evaluates all
of them on the instances of the runs. Most of them give the types of arguments and keep the symbols of the
model apart: a missing or torn file is neither an array nor a manifest, a name with `@` and a level is not one of
the `Labels`. Some say more:

- `WeightAssumption`: the floor is positive and at most the weight 1.0 of a tile without weights, as 1e-8 is.
- `UpdateAssumption`: the graph yields numbers, and (by the form of `Update`) looks at a node's neighbours only.
- `ScaleAssumption` and, in Accessor's `GridAssumption`, the last conjunct: the units of means and of resolutions are fine
  enough for the quotients to be integers. What a manifest declares is any pair.
- `DefaultAssumption`: the default grid has no more points than the models that get it have nodes, as 181 x 360 = 65160.
- `BuildAssumption`: no build has more tiles than `MaxTiles`, the room the model gives the directory; any number will do.
- `RequestAssumption` (Ensemble), `SourceAssumption`: keys of a dictionary (names of thresholds, variables of a map) differ,
  and no variable or level is listed twice; `CommandAssumption`: nobody exports or types the path of the key file, and a
  URL serves a model.

Only model-checked: `Terminates`, which is liveness under fairness and needs ENABLED (its safety half,
`EachStepDescends`, is proved), and the violations of section 6, which are counterexamples. All
other properties of the passing runs, invariants, `EachStepDescends` and the two refinements, are theorems.
The proofs speak of the models: the abstractions of section 4, exact arithmetic first, hold for them too.

## 6. Where code and documentation disagree

Each of these has a run that finds the counterexample:

1. `rollout_raw` - `model.py:880` promises a raw trajectory; `main.cpp:457` zeroes
   NaN and Inf in the caller's array, which for an untiled model is the step already
   collected. All steps but the last lose their non-finite values.
2. `bundle_loads` - a bundle built without a grid holds `"reference_grid_shape": null`
   (`tile_bundle.py:275`), on which the loader raises a TypeError (`model.py:490`).
3. `pipeline_complete` - `pipeline` fails at its export for want of a `start_time`
   option (`cli.py:438`; the parser: 296-304), against quickstart-cli.md:124.
4. `pipeline_session` - who declines to save a pasted key is told "Credentials applied for this
   session only." (`utils.py:101`), but the key has been written to `gcp_credentials.json`
   (`utils.py:73-76`), and if an earlier session saved its credential, `.env` points there: later
   sessions use the new key.

Seen while modelling, and stated here without a run; each is a short path in one function:

- halo-exchange.md:62 says tiles without weights share no output indices; `model.py:475`
  compares the unweighted tile with *earlier* ones only. `LaterOverlapIsWeighted` states
  what does hold.
- A step listed twice in `aggregate_steps` yields two rows of which only the last is filled
  (`main.cpp:581`, against inference-modes.md:86). `MomentsExact` says so of such
  requests too: the last row is exact, the others stay zero.
- The npz export needs a reference grid and asks for it only after the rollout
  (`model.py:894`, against feature-guide.md:294-295).
- `_resolve_dataset` swallows the ImportError with the installation hint that `_require` raises
  (`model.py:642-648`, `data_sources.py:101`); the user sees the failure of a later line.
- `predict(weights_dir=...)` and `predict(execution_provider=...)` replace a cached model by
  the one of the environment (`accessor.py:166-171`), where the docstring says that without a
  `model_path` "the cached / env-var model is used" (`accessor.py:144-145`).
- A caller who changes an option object inside the stored arguments and calls again with the
  same object is served the old model (`accessor.py:102-104`): the comparison sees one object
  twice. `ServedAsAsked` says that this is the only way.
- A caller's `reference_grid_shape` over a bundle that declares a resolution leaves a model whose
  shape and resolution describe different grids (`model.py:330-333`), and so does a manifest whose own pair does not
  agree, or which declares a resolution alone for a model large enough to get the default shape: `model.py:490-491` compare
  nothing. `GridIsRegular` says that these (`OnTrust`) are the only ways.
- A NetCDF export truncates all its files before the first prediction (`model.py:723-731`); if it then raises, the former
  forecast is gone and files of fill values stand in its place. The repository promises nothing here, so no run judges it;
  `ReadableIsOneRun` says that nothing is mixed, and `RaiseKeepsFormer` what the other two formats keep.
- CustomAdapter ignores its variable map, level unit and geopotential flag when it is given
  data (`data_sources.py:644-650`), and raw arrays are never usable by `_prepare_input`.
- execution-providers.md:83 promises a `ValueError` when a strict session falls back; the C++
  constructor throws a `runtime_error`, and a tiled model reports it only at its first step
  (`model.py:524-527`). `openvino` ignores the memory limit (`main.cpp:69-78`).
- `predict_ensemble` of a tiled model ends in an AttributeError (`model.py:1142`).
- dev/tile-bundles.md:31 says `--tile-grid-shape 2x2` gives four quadrants where the code takes
  it as the size of a tile; docs_src/api/utils.md:12 says that `download_file` validates file
  sizes, which `utils.py:21-29` does not; quickstart-cli.md:27 puts `.env` in the working
  directory where `cli.py:631` uses the cache directory by default.

## 7. Not modelled, and why

- The calls into ONNX Runtime that differ by build (`main.cpp:83-194`), thread counts, arena and
  memory pattern: settings of an external library no check depends on.
- The sizing reports (`model.py:579-625`): arithmetic on an array shape, without state.
- CF metadata, integrations, visualisation, the conversion scripts (`exporter`): pure
  conversions, or one-shot scripts around torch, without state or concurrency.
- The commands `visualize` and `list-sources` of the CLI, which render or print;
  `build-tile-bundle` is TileBundleBuilder.
- The generated documentation site, with the search scripts it vendors
  (`site/assets/javascripts/lunr/*.js`, the only JavaScript here), and the vendored ONNX Runtime
  headers: third-party code, no part of the program. The program itself is Python
  (`weathergraph/`) and C++ (`src/cpp/main.cpp`).

## 8. Plan

Done, in this order: TileBundle, TiledPredict with its proofs, Rollout with its proofs,
Ensemble with its proofs, TileBundleBuilder and BundleDirectory, Export, Pipeline,
Construction and Accessor with its proofs, DataSources with its proofs, then the proofs of
Pipeline, Export and BundleDirectory and the rest of Ensemble's.

Next:

1. an abstract bundle directory (a load gets one build, a partition, or an exception), which
   BundleDirectory implements, with the step simulation proved from its invariant;
2. that a bundle whose build had enough hops is a `SoundBundle` in the sense of TiledPredict, so that the theorems
   about the builder and about tiled inference meet: halo exactness gives the untiled step;
3. assumptions of the proofs that can still be weakened.
