------------------------ MODULE MCStationInterpolation ------------------------
(* Command lines and files for the model checker. *)
EXTENDS StationInterpolation, MCReadOutput

Long == Netcdf("netcdf4", "ok", 3, {6}, <<6>>, FALSE, 1)

StationNames == {"a", "a.nc"}
StationDisks ==
  {[f \in StationNames |-> IF f = "a" THEN x ELSE y] :
     x \in {Full, Truncated, CutLine, Broken, Sparse, BadCount, Unknown, None},
     y \in {Long, Vector, MaxFile, NoVar, NoRecord, Classic}}
NcNamed == {"a.nc"}

Starts == {Unset, 1, 2, 3}
Ends3  == {Unset, 1, 3, 4}

ASSUME WindowTaken == WindowGranted
=============================================================================
