----------------------------- MODULE DataSources -----------------------------
(***************************************************************************)
(* Initial states from data sources: the adapters of data_sources.py, and  *)
(* _resolve_dataset and _prepare_input of model.py, which turn what an     *)
(* adapter loads into the channels of the first input.  Several forecasts  *)
(* load at once, in threads or processes.  ecmwf_open and cds_era5 save    *)
(* the answer of their service in a file, by default the same one for all, *)
(* and open it lazily: the values are read when the channels are taken.    *)
(*                                                                         *)
(* An answer stands for what a service serves or a file holds; its Fields  *)
(* are its variables, each with the coordinates of the levels it has.  A   *)
(* value is named by its answer, variable and coordinate.                  *)
(***************************************************************************)
EXTENDS Integers, Sequences

CONSTANTS
  Tasks,      \* forecasts
  Adapters,   \* [kind, answer, path, package, map, pascal, meters]
  Files, Answers, Fields,
  Installed,  \* packages that can be imported
  LevelVars, Levels,  \* the order of the channels
  Missing, Torn, None, NaN

Kinds == {"file", "retrieve", "gfs", "open_meteo", "dataset", "raw"}

Names == UNION {DOMAIN Fields[b] : b \in Answers}

Value == [answer : Answers, variable : Names, at : Nat, scaled : BOOLEAN]

ASSUME SourceAssumption ==
  /\ LevelVars \in Seq(STRING) /\ LevelVars # << >>
  /\ Levels \in Seq(Nat) /\ Levels # << >>
  /\ \A i, j \in DOMAIN LevelVars : LevelVars[i] = LevelVars[j] => i = j
  /\ Answers \cap {Missing, Torn, None, NaN} = {}
  /\ "z" \notin {Missing, Torn, None, NaN}
  /\ None \notin Adapters /\ NaN \notin Value
  /\ \A b \in Answers, v \in Names : v \in DOMAIN Fields[b] => Fields[b][v] \subseteq Nat
  /\ \A a \in Adapters :
       /\ a.kind \in Kinds
       /\ a.kind \in {"file", "retrieve"} => a.path \in Files
       /\ a.kind \notin {"file", "raw"} => a.answer \in Answers
       /\ a.map \in Seq(Seq(STRING)) /\ a.pascal \in BOOLEAN /\ a.meters \in BOOLEAN
       /\ \A i, j \in DOMAIN a.map : a.map[i][1] = a.map[j][1] => i = j

VARIABLES
  file,  \* what each file holds: an answer, Missing or Torn
  task   \* the load of each forecast

vars == <<file, task>>

NoView == [columns |-> << >>, opened |-> None, pascal |-> FALSE, scaled |-> {}]

NoTask == [stage |-> "new", adapter |-> None, through |-> FALSE, view |-> NoView,
           channels |-> << >>, disturbed |-> FALSE]

Adapter(t) == task[t].adapter

At(t, stage) == task[t].stage = stage

-----------------------------------------------------------------------------
(* Plausible slips, each the body of one definition below.                  *)

OneShort == Len(Levels) * Len(LevelVars) - 1

DefaultPath(a) == CHOOSE f \in Files : TRUE

ScaledBeforeRename(a, columns) ==
  IF a.meters THEN {v \in DOMAIN columns : columns[v] = "z"} ELSE {}

-----------------------------------------------------------------------------
(* Datasets.  A view maps a variable of the dataset to the variable of the  *)
(* answer behind it.                                                        *)

(* {src: dst for dst, src in variable_map.items()}: of two entries with one *)
(* source the last stays.                                                   *)
NewName(map, x) ==
  LET entries == {i \in DOMAIN map : map[i][2] = x}
      last == CHOOSE i \in entries : \A j \in entries : j <= i
  IN  IF entries = {} THEN x ELSE map[last][1]

(* ds.rename raises when two variables would bear one name.                 *)
MayRename(b, map) ==
  \A x, y \in DOMAIN Fields[b] : NewName(map, x) = NewName(map, y) => x = y

Renamed(b, map) ==
  [v \in {NewName(map, x) : x \in DOMAIN Fields[b]} |->
     CHOOSE x \in DOMAIN Fields[b] : NewName(map, x) = v]

(* Variables multiplied by g, of those the dataset has.                     *)
Scaled(a, columns) == IF a.meters THEN {"z"} \cap DOMAIN columns ELSE {}

ViewOf(a, b) ==
  LET columns == Renamed(b, a.map) IN
  [columns |-> columns, opened |-> b, pascal |-> a.pascal, scaled |-> Scaled(a, columns)]

(* The coordinate in the file of a level, in hPa, of the dataset.           *)
Coordinate(view, level) == IF view.pascal THEN 100 * level ELSE level

(* The level coordinate of a dataset joins those of its variables.          *)
HasLevel(view, level) ==
  \E v \in DOMAIN view.columns :
    Coordinate(view, level) \in Fields[view.opened][view.columns[v]]

Cell(view, b, v, level) ==
  LET x == view.columns[v] IN
  IF Coordinate(view, level) \in Fields[b][x]
  THEN [answer |-> b, variable |-> x, at |-> Coordinate(view, level),
        scaled |-> v \in view.scaled]
  ELSE NaN

-----------------------------------------------------------------------------

Init ==
  /\ file \in [Files -> Answers \cup {Missing, Torn}]
  /\ task = [t \in Tasks |-> NoTask]

Become(t, new) == task' = [task EXCEPT ![t] = new]

Fail(t) == Become(t, [task[t] EXCEPT !.stage = "failed"]) /\ UNCHANGED file

(* A forecast is given an adapter (through), or what its load() returned.   *)
Start(t, a, through) ==
  /\ At(t, "new")
  /\ Become(t, [NoTask EXCEPT !.stage = "import", !.adapter = a, !.through = through])
  /\ UNCHANGED file

(* _require.  _resolve_dataset swallows the ImportError and goes on with    *)
(* the adapter as though it were the dataset.                               *)
Import(t) ==
  /\ At(t, "import")
  /\ IF Adapter(t).package \in Installed \cup {None}
     THEN Become(t, [task[t] EXCEPT !.stage = "load"]) /\ UNCHANGED file
     ELSE IF task[t].through
          THEN Become(t, [task[t] EXCEPT !.stage = "prepare"]) /\ UNCHANGED file
          ELSE Fail(t)

FileBacked(a) == a.kind \in {"file", "retrieve"}

Using(t, f) ==
  task[t].stage \in {"retrieve", "open", "prepare"} /\ FileBacked(Adapter(t)) /\ Adapter(t).path = f

(* The other loads whose service is still writing f.                        *)
Writing(t, f) == {o \in Tasks \ {t} : At(o, "retrieve") /\ Adapter(o).path = f}

(* Another load writes the file of t, or has since t began to use it.       *)
Disturbed(t) ==
  task[t].disturbed \/ (FileBacked(Adapter(t)) /\ Writing(t, Adapter(t).path) # {})

Load(t, view) ==
  /\ Become(t, [task[t] EXCEPT !.stage = "prepare", !.view = view, !.disturbed = Disturbed(t)])
  /\ UNCHANGED file

(* t writes x into f, its target, which disturbs the others that use f.     *)
Store(t, f, x, stage) ==
  /\ file' = [file EXCEPT ![f] = x]
  /\ task' = [o \in Tasks |->
       IF o = t THEN [task[t] EXCEPT !.stage = stage, !.disturbed = Disturbed(t)]
       ELSE [task[o] EXCEPT !.disturbed = (@ \/ Using(o, f))]]

(* client.retrieve, which may raise before it opens its target, and after,  *)
(* when the file stays torn, as it does when the process is killed.         *)
Retrieve(t) ==
  /\ At(t, "load") /\ Adapter(t).kind = "retrieve"
  /\ Store(t, Adapter(t).path, Torn, "retrieve") \/ Fail(t)

(* With another writer in the same file the outcome may be torn.            *)
AsWritten(t, x) == IF task[t].disturbed THEN {x, Torn} ELSE {x}

Arrive(t) ==
  /\ At(t, "retrieve")
  /\ \/ \E x \in AsWritten(t, Adapter(t).answer) : Store(t, Adapter(t).path, x, "open")
     \/ Store(t, Adapter(t).path, Torn, "failed")

(* xr.open_dataset and xr.open_zarr read the metadata; a file that is not   *)
(* there or is torn raises, and so may a rename.                            *)
OpenedPath(a) == a.path

Open(t) ==
  /\ At(t, "open") \/ (At(t, "load") /\ Adapter(t).kind = "file")
  /\ LET a == Adapter(t)
         b == file[OpenedPath(a)]
     IN  \/ b \in Answers /\ MayRename(b, a.map) /\ Load(t, ViewOf(a, b))
         \/ Fail(t)

(* GFS: variable by variable, one that fails is left out.                   *)
Merge(t) ==
  /\ At(t, "load") /\ Adapter(t).kind = "gfs"
  /\ LET a == Adapter(t)
         b == a.answer
     IN  \/ \E kept \in SUBSET DOMAIN Fields[b] :
              Load(t, [columns |-> [v \in kept |-> v], opened |-> b, pascal |-> FALSE,
                       scaled |-> kept \cap {"z"}])
         \/ Fail(t)

(* Open-Meteo: the levels the answer has; and a dataset given as it is, to  *)
(* the model or to a custom adapter, which then maps nothing.               *)
Plain(b) ==
  [columns |-> [v \in DOMAIN Fields[b] |-> v], opened |-> b, pascal |-> FALSE, scaled |-> {}]

Receive(t) ==
  /\ At(t, "load")
  /\ \/ Adapter(t).kind \in {"open_meteo", "dataset"} /\ Load(t, Plain(Adapter(t).answer))
     \/ Adapter(t).kind = "raw" /\ Load(t, NoView)
     \/ Adapter(t).kind = "open_meteo" /\ Fail(t)

-----------------------------------------------------------------------------
(* _prepare_input takes the channels one by one.  ds[var] and sel raise for *)
(* a variable or level the dataset lacks.  A file that was written since it *)
(* was opened yields what a cache still has, what it now holds or is being  *)
(* given, or raises.                                                        *)

Channels == Len(Levels) * Len(LevelVars)

LevelAt(k) == Levels[1 + ((k - 1) \div Len(LevelVars))]

VarAt(k) == LevelVars[1 + ((k - 1) % Len(LevelVars))]

Sources(t, v) ==
  LET f == OpenedPath(Adapter(t))
      view == task[t].view
      held == {file[f]} \cup {Adapter(o).answer : o \in Writing(t, f)}
  IN  {view.opened} \cup
        (IF FileBacked(Adapter(t))
         THEN {b \in held \cap Answers : view.columns[v] \in DOMAIN Fields[b]} ELSE {})

Read(t) ==
  /\ At(t, "prepare")
  /\ LET k == Len(task[t].channels) + 1
         view == task[t].view
     IN  \/ /\ VarAt(k) \in DOMAIN view.columns /\ HasLevel(view, LevelAt(k))
            /\ \E b \in Sources(t, VarAt(k)) :
                 Become(t, [task[t] EXCEPT
                   !.channels = Append(@, Cell(view, b, VarAt(k), LevelAt(k))),
                   !.stage = IF k = Channels THEN "done" ELSE "prepare"])
            /\ UNCHANGED file
         \/ Fail(t)

-----------------------------------------------------------------------------

Next ==
  \E t \in Tasks :
    \/ \E a \in Adapters, through \in BOOLEAN : Start(t, a, through)
    \/ Import(t) \/ Retrieve(t) \/ Arrive(t) \/ Open(t) \/ Merge(t) \/ Receive(t)
    \/ Read(t)

Spec == Init /\ [][Next]_vars

-----------------------------------------------------------------------------

(* The variables have their types, and a forecast starts from all channels. *)
TypeOK ==
  /\ file \in [Files -> Answers \cup {Missing, Torn}]
  /\ \A t \in Tasks :
       /\ task[t].stage \in {"new", "import", "load", "retrieve", "open", "prepare",
                             "done", "failed"}
       /\ At(t, "new") = (Adapter(t) = None)
       /\ task[t].channels \in Seq(Value \cup {NaN})
       /\ At(t, "done") => Len(task[t].channels) = Len(Levels) * Len(LevelVars)
       /\ At(t, "prepare") => Len(task[t].channels) < Len(Levels) * Len(LevelVars)

(* The answer a forecast asked for; of a file, what it held when opened.    *)
Own(t) == IF Adapter(t).kind = "file" THEN task[t].view.opened ELSE Adapter(t).answer

(* The answers of the loads that save theirs in f.                          *)
Saved(f) ==
  {Adapter(o).answer :
     o \in {o \in Tasks : ~At(o, "new") /\ Adapter(o).kind = "retrieve" /\ Adapter(o).path = f}}

(* A forecast starts from values of the answer it asked for and no other's, *)
(* whatever was loaded before, at the same time or torn, unless another     *)
(* load was writing into its file between its own writing and its last read *)
(* - as happens by default, for all loads of one service have one target -  *)
(* and even then only values of such loads of its own target get in         *)
(* (data_sources.py:185, 209-210, 251, 284; model.py:661-666).              *)
OwnData ==
  \A t \in Tasks : At(t, "done") =>
    \A k \in DOMAIN task[t].channels :
      LET c == task[t].channels[k] IN
      c = NaN \/ c.answer = Own(t) \/ (task[t].disturbed /\ c.answer \in Saved(Adapter(t).path))

(* The variable the caller names for a variable of the model: the one its   *)
(* map gives, if the answer has it, or else the one of that name.  An entry *)
(* counts only if no later one claims the same source.                      *)
Meant(a, b, v) ==
  LET given == {a.map[i][2] : i \in {j \in DOMAIN a.map :
                  /\ a.map[j][1] = v
                  /\ a.map[j][2] \in DOMAIN Fields[b]
                  /\ \A later \in DOMAIN a.map : a.map[later][2] = a.map[j][2] => later <= j}}
  IN  IF ~FileBacked(a) \/ given = {} THEN v ELSE CHOOSE x \in given : TRUE

InMeters(a) == a.kind = "gfs" \/ (FileBacked(a) /\ a.meters)

InPascal(a) == FileBacked(a) /\ a.pascal

(* Each channel holds the variable meant for it at its own level, in the    *)
(* units of the model; and it is NaN, which predict turns into a zero       *)
(* (main.cpp:457), only where the answer has no value for a variable and a  *)
(* level that it does know (data_sources.py:357-361, 446-460, 679-693).     *)
FieldsAsMapped ==
  \A t \in Tasks : At(t, "done") =>
    \A i \in DOMAIN Levels, j \in DOMAIN LevelVars :
      LET a == Adapter(t)
          c == task[t].channels[(i - 1) * Len(LevelVars) + j]
          x == Meant(a, task[t].view.opened, LevelVars[j])
          at == IF InPascal(a) THEN 100 * Levels[i] ELSE Levels[i]
          known == Fields[task[t].view.opened]
      IN  IF c # NaN
          THEN /\ c.variable = x /\ c.at = at
               /\ c.scaled = (InMeters(a) /\ LevelVars[j] = "z")
          ELSE \/ task[t].disturbed
               \/ at \notin known[x] /\ \E y \in DOMAIN known : at \in known[y]

=============================================================================
