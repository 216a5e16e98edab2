------------------------------ MODULE MCRoundTrip ------------------------------
(* Source files, targets and meshes for the model checker. *)
EXTENDS RoundTrip, MCReadOutput

NetcdfRound == {"in", "out.nc"}
OnDisk(names, s) == [f \in names |-> IF f = "in" THEN s ELSE None]

(* Files of one node: a scalar snap, two snaps of a vector, the maximum of a *)
(* vector.                                                                    *)
OneNode(n, value) ==
  [Ascii("asciiFull", "ok", n, 1,
         [i \in 1..(2 * n) |-> [kind |-> IF i % 2 = 1 THEN "full" ELSE value,
                                snap |-> (i - 1) \div 2, count |-> 0]],
         FALSE, value = "vector")
   EXCEPT !.nodes = 1]
Scalar1 == OneNode(1, "scalar")
Vector1 == OneNode(2, "vector")
Max1    == [MaxFile EXCEPT !.nodes = 1]

RoundNames  == {"in", "out", "out.nc"}
RoundDisks  == {OnDisk(RoundNames, s) : s \in {Scalar1, Vector1, Max1}}
Out         == {"out"}
NcOut       == {"out.nc"}
BothOut     == Out \cup NcOut
NoMeshes    == {NoMesh}

(* One target in a behaviour, an ASCII or a netCDF one, and the reader is     *)
(* pointed at it once it exists.                                              *)
OneTarget ==
  /\ {f \in Targets : f = target \/ disk[f].format # "missing"} \in {{}, Out, NcOut}
  /\ filename \in Targets => disk[filename].format # "missing"
=============================================================================
