------------------------------- MODULE MCExport -------------------------------
(***************************************************************************)
(* Two levels, two variables, forecasts of up to two steps, three exports  *)
(* into one path: any format after any format, longer after shorter and    *)
(* shorter after longer.                                                   *)
(***************************************************************************)
EXTENDS Export

Of(fmt, steps, grid, nodes) == [fmt |-> fmt, steps |-> steps, grid |-> grid, nodes |-> nodes]

MCRequests ==
  {Of(fmt, steps, TRUE, TRUE) : fmt \in {"netcdf4", "zarr", "npz"}, steps \in 0 .. 2}
  \cup {Of(fmt, 1, grid, FALSE) : fmt \in {"netcdf4", "zarr", "npz"}, grid \in BOOLEAN}

=============================================================================
