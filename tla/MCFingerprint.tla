---------------------------- MODULE MCFingerprint ----------------------------
(* Small instances of Fingerprint: three nodes, two places, one or two     *)
(* triangles, boundaries of one node, a projection that swaps the places.   *)
EXTENDS Fingerprint

CONSTANTS here, there

MCProject(p) == IF p = here THEN there ELSE here

Flat(p, es, bs) == [place |-> [n \in Nodes |-> IF n = 1 THEN p ELSE here], depth |-> [n \in Nodes |-> 0],
                    elements |-> es, boundaries |-> bs]

MCFiles == {Flat(here, <<<<1, 2, 3>>>>, <<<<1>>>>),
            Flat(there, <<<<2, 3, 1>>>>, <<>>),
            Flat(here, <<<<1, 2, 3>>, <<3, 2, 1>>>>, <<<<2>>, <<1>>>>)}
=============================================================================
