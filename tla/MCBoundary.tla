----------------------------- MODULE MCBoundary -----------------------------
(* Small instances of Boundary: land boundaries of one line, weirs with and *)
(* without pipes, and one of a code the program has no class for, alone and *)
(* in pairs of like and unlike lengths.                                     *)
EXTENDS Boundary

CONSTANTS n1, n2

MCCodes == {-1, 20, 23, 24, 25, 6}

Line(c, front, v, back, p) == [code |-> c, node1 |-> front, weir |-> v, back |-> back, pipe |-> p]

Shore   == Line(20, <<n1, n2>>, <<>>, <<>>, <<>>)
Levee   == Line(24, <<n2>>, <<1>>, <<n1>>, <<>>)
Culvert == Line(25, <<n1, n2>>, <<0, 1>>, <<n2, n1>>, <<1, 0>>)
Odd     == Line(6, <<n2>>, <<>>, <<>>, <<>>)

MCFiles == {<<Shore, Culvert>>, <<Culvert, Levee>>, <<Levee, Shore>>, <<Odd, Levee>>, <<Levee, Odd>>}
=============================================================================
