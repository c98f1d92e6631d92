---------------------------- MODULE MCDataSources ----------------------------
(***************************************************************************)
(* Two variables at two levels and two forecasts.  Answers one and two are *)
(* whole; gap lacks a level of t, and less lacks it altogether; foreign    *)
(* has other names, the two of the model among them in the wrong places,   *)
(* and its levels in Pa.                                                   *)
(***************************************************************************)
EXTENDS DataSources, TLC

CONSTANTS t1, t2, one, two, gap, less, foreign, shared, other, cfgrib, absent

Forecasts == Permutations({t1, t2})

MCLevelVars == <<"z", "t">>

MCLevels == <<1, 100>>

Whole == [v \in {"z", "t"} |-> {1, 100}]

MCFields ==
  [b \in {one, two, gap, less, foreign} |->
     CASE b = gap -> [Whole EXCEPT !["t"] = {100}]
       [] b = less -> [v \in {"z", "t"} |-> {100}]
       [] b = foreign -> [v \in {"z", "t", "q"} |-> {100, 10000}]
       [] OTHER -> Whole]

Plainly(kind, answer, path) ==
  [kind |-> kind, answer |-> answer, path |-> path, package |-> None, map |-> << >>,
   pascal |-> FALSE, meters |-> FALSE]

Custom == [Plainly("file", None, other) EXCEPT !.pascal = TRUE, !.meters = TRUE]

MCAdapters ==
  {[Plainly("retrieve", one, shared) EXCEPT !.package = cfgrib],
   Plainly("retrieve", two, shared), Plainly("retrieve", two, other),
   [Plainly("retrieve", one, other) EXCEPT !.package = absent],
   Plainly("file", None, shared),
   [Custom EXCEPT !.map = <<<<"z", "t">>, <<"t", "z">>>>],
   [Custom EXCEPT !.map = <<<<"z", "q">>>>],
   [Custom EXCEPT !.map = <<<<"z", "q">>, <<"t", "q">>, <<"q", "t">>>>],
   Plainly("gfs", gap, None), Plainly("open_meteo", gap, None),
   Plainly("dataset", less, None),
   Plainly("raw", None, None)}

=============================================================================
