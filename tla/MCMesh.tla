------------------------------- MODULE MCMesh -------------------------------
(***************************************************************************)
(* Mesh files for the model checker: one to three triangles, numbered in   *)
(* order or not, in every format, cut short, with a line of other than     *)
(* three vertices, or naming a node they lack.                             *)
(***************************************************************************)
EXTENDS MeshFiles

Tri(i, a, b, c) == [id |-> i, verts |-> {a, b, c}]
File(format, ns, es, missing) ==
  [format |-> format, nodes |-> ns, elements |-> es, odd |-> {},
   good |-> 2 + Len(ns) + Len(es) - missing]

Two == <<Tri(1, 1, 2, 3), Tri(2, 2, 3, 4)>>
Fan == <<Tri(1, 1, 2, 3), Tri(2, 1, 2, 4), Tri(3, 1, 2, 3)>>

Ordered    == File("Adcirc", <<1, 2, 3, 4>>, Two, 0)
Small      == File("Adcirc", <<1, 2, 3>>, <<Tri(1, 1, 2, 3)>>, 0)
Shuffled   == File("Adcirc", <<4, 1, 2, 3>>, <<Tri(2, 1, 2, 3), Tri(1, 2, 3, 4)>>, 0)
Misordered == File("Adcirc", <<1, 2, 3, 4>>, <<Tri(2, 1, 2, 3), Tri(1, 2, 3, 4)>>, 0)
Overlaid   == File("Adcirc", <<1, 2, 3, 4>>, Fan, 0)
CutNodes   == File("Adcirc", <<2, 1, 3>>, <<Tri(1, 1, 2, 3)>>, 2)
CutElems   == File("Adcirc", <<1, 3, 2>>, <<Tri(1, 1, 2, 3), Tri(2, 1, 2, 3)>>, 1)
Open       == File("Adcirc", <<1, 3, 2>>, <<Tri(1, 1, 2, 4)>>, 0)
NoSize     == File("Adcirc", <<1, 2, 3>>, <<Tri(1, 1, 2, 3)>>, 6)
Cards      == File("2DM", <<1, 2, 3>>, <<Tri(1, 1, 2, 3)>>, 0)
Shuffled2  == File("2DM", <<3, 1, 2>>, <<Tri(1, 1, 2, 3)>>, 0)
Swapped2   == File("2DM", <<3, 1, 2>>, <<Tri(2, 1, 2, 3), Tri(1, 1, 2, 3)>>, 0)
Arrays     == File("AdcircNetcdf", <<1, 2, 3>>, <<Tri(1, 1, 2, 3)>>, 0)
DFlowNet   == File("DFlow", <<1, 2, 3>>, <<Tri(1, 1, 2, 3)>>, 0)
DFlowCut   == File("DFlow", <<1, 2, 3>>, <<Tri(1, 1, 2, 3), Tri(2, 1, 2, 3)>>, 1)
DFlowOpen  == File("DFlow", <<1, 2, 3>>, <<Tri(1, 1, 2, 4)>>, 0)
CutSize    == File("Adcirc", <<1, 2, 3>>, <<Tri(1, 1, 2, 3)>>, 5)
OddLine    == [Ordered EXCEPT !.odd = {1}]
OddNumbers == [Shuffled EXCEPT !.odd = {2}]
Other      == File("Unknown", <<>>, <<>>, 0)

SomeCorners == {{1, 2, 3}, {1, 2, 4}}

AllMeshes == {Ordered, Small, Shuffled, Misordered, Overlaid, CutNodes, CutElems, Open,
              NoSize, CutSize, OddLine, OddNumbers, Cards, Shuffled2, Swapped2, Arrays, DFlowNet, DFlowCut, DFlowOpen,
              Other}
=============================================================================
