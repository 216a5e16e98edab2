---------------------------- MODULE MCMeshSearch ----------------------------
(***************************************************************************)
(* Mesh files of different sizes, sound and cut short, for the searches.   *)
(***************************************************************************)
EXTENDS MeshSearch

Tri(i, a, b, c) == [id |-> i, verts |-> {a, b, c}]
File(format, ns, es, missing) ==
  [format |-> format, nodes |-> ns, elements |-> es, odd |-> {},
   good |-> 2 + Len(ns) + Len(es) - missing]

Large    == File("Adcirc", <<1, 2, 3, 4>>, <<Tri(1, 1, 2, 3), Tri(2, 2, 3, 4)>>, 0)
Small    == File("Adcirc", <<1, 2, 3>>, <<Tri(1, 1, 2, 3)>>, 0)
CutNodes == File("Adcirc", <<2, 1, 3>>, <<Tri(1, 1, 2, 3)>>, 2)
BadSize  == File("Adcirc", <<1, 2, 3>>, <<Tri(1, 1, 2, 3)>>, 5)
Cards    == File("2DM", <<1, 2, 3>>, <<Tri(1, 1, 2, 3)>>, 0)
Arrays   == File("AdcircNetcdf", <<1, 2, 3>>, <<Tri(1, 1, 2, 3)>>, 0)
DFlowCut == File("DFlow", <<1, 2, 3>>, <<Tri(1, 1, 2, 3), Tri(2, 1, 2, 3)>>, 1)
DFlowOpen == File("DFlow", <<1, 2, 3>>, <<Tri(1, 1, 2, 4)>>, 0)
OddLine  == [Large EXCEPT !.odd = {1}]
Other    == File("Unknown", <<>>, <<>>, 0)

SearchMeshes == {Large, Small, CutNodes, BadSize, Cards, Arrays, DFlowCut, DFlowOpen, OddLine, Other}
SomeCorners  == {{1, 2, 3}, {1, 2, 4}}
=============================================================================
