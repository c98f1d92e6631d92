-------------------------------- MODULE Export --------------------------------
(***************************************************************************)
(* forecast_export: a rollout written step by step into one NetCDF file or *)
(* one Zarr store per level and variable, or collected into one npz        *)
(* archive.  Exports follow one another into the same output path, and any *)
(* of them may raise or be killed.                                         *)
(*                                                                         *)
(* A step of the model is abstracted to where its numbers come from: the   *)
(* slice <<run, step, channel>>.  A file is Missing, Torn (its writing was *)
(* cut short and it cannot be opened, or is gone) or its slices: Fill      *)
(* where it holds fill values, in whole or in part.                        *)
(***************************************************************************)
EXTENDS Integers, Sequences

CONSTANTS
  Levels, Vars,    \* numbers of pressure levels and of variables
  Requests,        \* arguments and circumstances of an export
  MaxRuns,         \* bound: exports into the path
  Missing, Torn, Fill

ASSUME SizeAssumption == Levels \in Nat \ {0} /\ Vars \in Nat \ {0}

ASSUME BoundAssumption == MaxRuns \in Nat

(* fmt and steps are arguments; grid: whether the model has a reference     *)
(* grid; nodes: whether its output has a node for each grid point.          *)
ASSUME RequestAssumption ==
  \A q \in Requests :
    /\ q.fmt \in {"netcdf4", "zarr", "npz"} /\ q.steps \in Nat
    /\ q.grid \in BOOLEAN /\ q.nodes \in BOOLEAN

VARIABLES
  phase,     \* "idle", "create", "run", "write", "archive", "done", "failed"
  request,
  run,       \* number of the export, from 1
  step,      \* steps the iterator has yielded
  file,      \* position of the loop over levels and variables, from 0
  nc, zarr,  \* the files and stores, by position
  npz,       \* the archive
  before,    \* the stores and the archive when this export began
  cause      \* of a failure: "none", "prediction", "kill"

vars == <<phase, request, run, step, file, nc, zarr, npz, before, cause>>

Files == 0 .. Levels * Vars - 1

-----------------------------------------------------------------------------
(* Plausible slips, each the body of one definition below.                  *)

FileAfterLast == file = Levels * Vars

ChannelByVar(f) == ((f % Vars) * Levels) + (f \div Vars)

StoresCleared(q) == IF q.fmt = "zarr" THEN [f \in Files |-> Missing] ELSE zarr

BlankKeepsOld(f) ==
  IF nc[f] \in {Missing, Torn} \/ Len(nc[f]) # request.steps
  THEN [k \in 1 .. request.steps |-> Fill] ELSE nc[f]

-----------------------------------------------------------------------------

(* ch = li * n_vars + vi of the file at this position of the double loop.   *)
Channel(f) == ((f \div Vars) * Vars) + (f % Vars)

Slice(f) == <<run, step, Channel(f)>>

LastFile == file = Levels * Vars - 1

Init ==
  /\ phase = "idle"
  /\ request \in Requests
  /\ run = 0 /\ step = 0 /\ file = 0
  /\ nc = [f \in Files |-> Missing] /\ zarr = [f \in Files |-> Missing] /\ npz = Missing
  /\ before = [zarr |-> [f \in Files |-> Missing], npz |-> Missing]
  /\ cause = "none"

(* Zarr stores are created by the first step that is written.               *)
StoresAtStart(q) == zarr

(* The head of forecast_export.  The stream formats ask for the grid first, *)
(* and NetCDF for times[0], which an empty forecast does not have.          *)
Begin(q) ==
  /\ phase \in {"idle", "done", "failed"} /\ run < MaxRuns
  /\ run' = run + 1 /\ request' = q
  /\ step' = 0 /\ file' = 0 /\ cause' = "none"
  /\ before' = [zarr |-> zarr, npz |-> npz]
  /\ phase' = CASE q.fmt # "npz" /\ ~q.grid -> "failed"
                [] q.fmt = "netcdf4" /\ q.grid -> IF q.steps = 0 THEN "failed" ELSE "create"
                [] OTHER -> "run"
  /\ zarr' = StoresAtStart(q)
  /\ UNCHANGED <<nc, npz>>

(* netCDF4.Dataset(mode="w"): the file is cut to nothing, and its variable  *)
(* has a slice of fill values for each step to come.                        *)
Blank(f) == [k \in 1 .. request.steps |-> Fill]

CreateFile ==
  /\ phase = "create"
  /\ nc' = [nc EXCEPT ![file] = Blank(file)]
  /\ IF LastFile THEN phase' = "run" /\ file' = 0
     ELSE file' = file + 1 /\ UNCHANGED phase
  /\ UNCHANGED <<request, run, step, zarr, npz, before, cause>>

(* The iterator: one more prediction, checked against the grid unless the   *)
(* trajectory is only collected.  Its exception ends the export, and the    *)
(* exit stack closes the NetCDF files.                                      *)
Predict ==
  /\ phase = "run" /\ step < request.steps
  /\ IF request.fmt # "npz" /\ ~request.nodes
     THEN phase' = "failed" /\ UNCHANGED <<step, file>>
     ELSE /\ step' = step + 1 /\ file' = 0
          /\ phase' = IF request.fmt = "npz" THEN "run" ELSE "write"
  /\ UNCHANGED <<request, run, nc, zarr, npz, before, cause>>

PredictFails ==
  /\ phase = "run" /\ step < request.steps
  /\ phase' = "failed" /\ cause' = "prediction"
  /\ UNCHANGED <<request, run, step, file, nc, zarr, npz, before>>

NextFile ==
  IF LastFile THEN phase' = "run" /\ UNCHANGED file
  ELSE phase' = "write" /\ file' = file + 1

WriteNetCDF ==
  /\ phase = "write" /\ request.fmt = "netcdf4"
  /\ nc' = [nc EXCEPT ![file][step] = Slice(file)]
  /\ NextFile
  /\ UNCHANGED <<request, run, step, zarr, npz, before, cause>>

(* to_zarr with mode "w" empties the store, with append_dim it grows it.    *)
Base(f) == IF step = 1 THEN <<>> ELSE zarr[f]

Written(f) == Append(Base(f), Slice(f))

WriteZarr ==
  /\ phase = "write" /\ request.fmt = "zarr"
  /\ zarr' = [zarr EXCEPT ![file] = Written(file)]
  /\ NextFile
  /\ UNCHANGED <<request, run, step, nc, npz, before, cause>>

(* np.stack of no array raises; without a grid the coordinates do, when the *)
(* rollout is over.                                                         *)
MayArchive == request.steps > 0 /\ request.grid

Archive ==
  /\ phase = "run" /\ step = request.steps /\ request.fmt = "npz"
  /\ IF MayArchive THEN phase' = "archive" /\ npz' = Torn
     ELSE phase' = "failed" /\ UNCHANGED npz
  /\ UNCHANGED <<request, run, step, file, nc, zarr, before, cause>>

SaveArchive ==
  /\ phase = "archive"
  /\ phase' = "done"
  /\ npz' = [k \in 1 .. request.steps |-> <<run, k>>]
  /\ UNCHANGED <<request, run, step, file, nc, zarr, before, cause>>

(* The stream ends; NetCDF files are closed.                                *)
Finish ==
  /\ phase = "run" /\ step = request.steps /\ request.fmt # "npz"
  /\ phase' = "done"
  /\ UNCHANGED <<request, run, step, file, nc, zarr, npz, before, cause>>

(* What a write cut short leaves of a store: a directory of arrays, resized *)
(* first and then filled chunk by chunk, opens with fill values at its end. *)
Cut(f) ==
  {zarr[f], Torn, Base(f), Append(Base(f), Fill), Written(f)}

(* What is left of the NetCDF files when the process is killed, none being  *)
(* closed, or when a write raises and the exit stack closes them.           *)
Unclosed == [f \in Files |-> IF phase = "create" /\ f > file THEN nc[f] ELSE Torn]

Closed == [f \in Files |-> IF phase = "create" /\ f = file THEN Torn ELSE nc[f]]

(* The process is killed or a write fails.                                  *)
Kill ==
  /\ phase \in {"create", "run", "write", "archive"}
  /\ phase' = "failed" /\ cause' = "kill"
  /\ nc' \in IF request.fmt = "netcdf4" THEN {Unclosed, Closed} ELSE {nc}
  /\ zarr' \in IF request.fmt = "zarr" /\ phase = "write"
              THEN {[zarr EXCEPT ![file] = x] : x \in Cut(file)} ELSE {zarr}
  /\ UNCHANGED <<request, run, step, file, npz, before>>

Next ==
  \/ \E q \in Requests : Begin(q)
  \/ CreateFile \/ Predict \/ PredictFails \/ WriteNetCDF \/ WriteZarr
  \/ Archive \/ SaveArchive \/ Finish
  \/ Kill

Spec == Init /\ [][Next]_vars

-----------------------------------------------------------------------------

Readable(x) == x \notin {Missing, Torn}

TypeOK ==
  /\ phase \in {"idle", "create", "run", "write", "archive", "done", "failed"}
  /\ request \in Requests
  /\ run \in 0 .. MaxRuns /\ step \in 0 .. request.steps /\ file \in Files
  /\ phase \in {"create", "write"} => request.fmt # "npz"
  /\ \A f \in Files : \A x \in {nc[f], zarr[f]} :
       Readable(x) => x \in Seq(((1 .. run) \X (Nat \ {0}) \X {f}) \cup {Fill})

(* When the export returns, every file holds every step of this run, in     *)
(* order, of its own level and variable, and nothing an earlier export left *)
(* in the path (model.py:760-776, 778-803).                                 *)
DoneIsComplete ==
  LET Whole(x, f) == x = [k \in 1 .. request.steps |-> <<run, k, f>>] IN
  (phase = "done" /\ request.steps > 0) =>
    CASE request.fmt = "netcdf4" -> \A f \in Files : Whole(nc[f], f)
      [] request.fmt = "zarr" -> \A f \in Files : Whole(zarr[f], f)
      [] OTHER -> npz = [k \in 1 .. request.steps |-> <<run, k>>]

(* Whatever raised or was killed before: a file that can be opened never    *)
(* mixes two forecasts and has no hole.  It is the first steps of one run,  *)
(* then fill values: as many as were still to come in a NetCDF file, at     *)
(* most the one step that was cut short in a Zarr store.                    *)
ReadableIsOneRun ==
  LET Prefix(x, f, n) == /\ \E r \in 1 .. run : \A k \in 1 .. n : x[k] = <<r, k, f>>
                         /\ \A k \in n + 1 .. Len(x) : x[k] = Fill IN
  /\ \A f \in Files :
       /\ Readable(nc[f]) => \E n \in 0 .. Len(nc[f]) : Prefix(nc[f], f, n)
       /\ Readable(zarr[f]) =>
            \E n \in 0 .. Len(zarr[f]) : Len(zarr[f]) <= n + 1 /\ Prefix(zarr[f], f, n)
  /\ Readable(npz) => \E r \in 1 .. run : \A k \in DOMAIN npz : npz[k] = <<r, k>>

(* An export that raises before it has a step to write leaves the Zarr      *)
(* stores of an earlier forecast alone, and one that raises at any time     *)
(* leaves the archive alone.  Nothing like it holds of NetCDF files, which  *)
(* are cut to nothing before the first prediction.                          *)
RaiseKeepsFormer ==
  (phase = "failed" /\ cause # "kill") =>
    /\ npz = before.npz
    /\ step = 0 => zarr = before.zarr

=============================================================================
