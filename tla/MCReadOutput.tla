---------------------------- MODULE MCReadOutput ----------------------------
(***************************************************************************)
(* Files for the model checker: small ASCII and netCDF files, well formed, *)
(* damaged, truncated or of a format the reader does not take.             *)
(***************************************************************************)
EXTENDS ReadOutput

Ascii(format, header0, declared, nodes, lines, cut, vector) ==
  [format |-> format, header |-> header0, snaps |-> declared, nodes |-> nodes,
   lines |-> lines, cut |-> cut, fields |-> {}, vars |-> <<>>,
   vector |-> vector, max |-> FALSE, dim |-> IF vector THEN 2 ELSE 1]

Netcdf(format, header0, snaps, fields, vs, max, dim) ==
  [format |-> format, header |-> header0, snaps |-> snaps, nodes |-> 2,
   lines |-> [i \in 1..snaps |-> [kind |-> "slab", snap |-> i - 1, count |-> 0]],
   cut |-> FALSE, fields |-> fields, vars |-> vs,
   vector |-> dim > 1 /\ ~max, max |-> max, dim |-> dim]

(* n snaps of a full file: one header and two values each. *)
FullLines(n, value) ==
  [i \in 1..(3 * n) |->
     [kind |-> IF i % 3 = 1 THEN "full" ELSE value,
      snap |-> (i - 1) \div 3, count |-> 0]]

(* Snaps with 1, 0 and 2 wet nodes. *)
SparseLines ==
  <<[kind |-> "sparse", snap |-> 0, count |-> 1], [kind |-> "scalar", snap |-> 0, count |-> 0],
    [kind |-> "sparse", snap |-> 1, count |-> 0],
    [kind |-> "sparse", snap |-> 2, count |-> 2], [kind |-> "scalar", snap |-> 2, count |-> 0],
    [kind |-> "scalar", snap |-> 2, count |-> 0]>>

Stump(lines, i, tokens) == [lines EXCEPT ![i].kind = "stump", ![i].count = tokens]
Damaged(lines, i) == [lines EXCEPT ![i].kind = "bad"]

None == [Netcdf("missing", "ok", 0, {}, <<>>, FALSE, 1) EXCEPT !.nodes = 0]

Full      == Ascii("asciiFull", "ok", 3, 2, FullLines(3, "scalar"), FALSE, FALSE)
Truncated == Ascii("asciiFull", "ok", 4, 2, SubSeq(FullLines(3, "scalar"), 1, 8), FALSE, FALSE)
CutLine   == Ascii("asciiFull", "ok", 3, 2, SubSeq(FullLines(3, "scalar"), 1, 8), TRUE, FALSE)
Broken    == Ascii("asciiFull", "ok", 3, 2, Damaged(FullLines(3, "scalar"), 5), FALSE, FALSE)
BrokenVec == Ascii("asciiFull", "ok", 3, 2, Damaged(FullLines(3, "vector"), 2), FALSE, TRUE)
Sparse    == Ascii("asciiSparse", "ok", 3, 2, SparseLines, FALSE, FALSE)
(* Headers with one of two tokens, at the end of the file; with three of     *)
(* four; and with two of four, which pass for a full header.                 *)
CutHead   == Ascii("asciiFull", "ok", 3, 2, Stump(SubSeq(FullLines(3, "scalar"), 1, 4), 4, 1), TRUE, FALSE)
ThreeLeft == Ascii("asciiSparse", "ok", 3, 2, Stump(SparseLines, 3, 3), FALSE, FALSE)
TwoLeft   == Ascii("asciiSparse", "ok", 3, 2, Stump(SparseLines, 3, 2), FALSE, FALSE)
BadCount  == Ascii("asciiFull", "badCount", 3, 2, FullLines(2, "scalar"), FALSE, FALSE)
BadField  == Ascii("asciiFull", "badField", 3, 2, FullLines(2, "scalar"), FALSE, FALSE)
ShortHead == Ascii("asciiSparse", "short", 3, 2, SparseLines, FALSE, FALSE)
Unknown   == Ascii("unknown", "ok", 3, 2, <<>>, FALSE, FALSE)

Scalar    == Netcdf("netcdf4", "ok", 2, {6}, <<6>>, FALSE, 1)
Vector    == Netcdf("netcdf4", "ok", 2, {6, 7}, <<6, 7>>, FALSE, 2)
OtherVar  == Netcdf("netcdf4", "ok", 2, {4}, <<4>>, FALSE, 1)
MaxFile   == Netcdf("netcdf4", "ok", 1, {6, 7}, <<6, 7>>, TRUE, 2)
ThreeD    == Netcdf("netcdf4", "ok", 2, {6, 7}, <<6, 7>>, FALSE, 3)
NoVar     == Netcdf("netcdf4", "ok", 2, {6}, <<>>, FALSE, 1)
NoTime    == Netcdf("netcdf4", "short", 2, {6}, <<6>>, FALSE, 1)
NoRecord  == Netcdf("netcdf4", "ok", 0, {6}, <<6>>, FALSE, 1)
Classic   == Netcdf("netcdf3", "ok", 2, {6}, <<6>>, FALSE, 1)

TwoNames == {"a", "b"}
Disk(x, y) == [f \in TwoNames |-> IF f = "a" THEN x ELSE y]
AsciiDisks ==
  {Disk(x, Sparse) : x \in {Full, Truncated, CutLine, Broken, BrokenVec, BadCount,
                            BadField, ShortHead, CutHead, ThreeLeft, TwoLeft, Unknown, None}}
NetcdfDisks ==
  {Disk(x, y) : x \in {Scalar, Vector, OtherVar, MaxFile, ThreeD, NoVar, NoTime,
                       NoRecord, Classic},
                y \in {Scalar, Full}}
    \cup {Disk(MaxFile, OtherVar)}
AllDisks == AsciiDisks \cup NetcdfDisks

(* Every one of them, damaged or not, was written once. *)
ASSUME DisksWritten == FilesWritten
=============================================================================
