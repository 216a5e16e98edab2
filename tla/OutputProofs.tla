-------------------------------- MODULE OutputProofs --------------------------------
(***************************************************************************)
(* The writer, and the programs that read and write global output files.   *)
(*                                                                         *)
(* First the writer: what was written is what is read, for every set of    *)
(* files, every bound, every shape of the records and every order of the   *)
(* owner's calls.  The file of a sound session is the records that went    *)
(* in, one after the other, and an undisturbed reader of it always stands  *)
(* before the record it will number next: the invariant carries the        *)
(* positions at which the records begin along with the file.  A step is    *)
(* the reader's, which leaves the files alone, or the writer's, which      *)
(* leaves the reader alone and never touches the file the reader has open. *)
(*                                                                         *)
(* Then resultsScope, which leaves no snap out, and, at the end,           *)
(* interpolateAdcircStations, which delivers the window it was asked for.  *)
(***************************************************************************)
EXTENDS RoundTrip, ResultsScope, StationInterpolation, ReadOutputProofs, FiniteSetTheorems

(***************************************************************************)
(* The invariant.                                                          *)
(***************************************************************************)
Makings ==
  [file : Targets \cup {NoWriter}, snaps : Seq(Nat \cup {Garbled}), sound : BOOLEAN]

WriterTyped ==
  /\ target \in Targets \cup {NoWriter}
  /\ sparse \in BOOLEAN
  /\ wopen \in BOOLEAN
  /\ stream \in {"closed", "good", "failed"}
  /\ mesh \in Nat \cup {NoMesh}
  /\ varidsOut \in Seq(Nat)
  /\ numWritten \in Nat
  /\ made \in Makings

(* A reader that has met no error describes the file it has open.  Variable *)
(* ids of earlier sessions only make the list longer.                       *)
Describes ==
  /\ D.format \in AsciiFormats => numNodes = D.nodes /\ meta.vector = D.vector
  /\ D.format \in NetcdfFormats =>
       /\ D.vars # <<>> /\ Len(D.vars) <= Len(varids)
       /\ times = D.snaps
       /\ meta.max = D.max
       /\ meta.dim = IF Len(D.vars) = 1 THEN 1 ELSE D.dim

OwnerReads ==
  /\ handle # Closed => open
  /\ open => filetype = D.format
  /\ ~disturbed /\ ~open => currentSnap = 0
  /\ ~disturbed /\ open /\ ret # "crash" => Describes

(* A writer with a stream is in the session whose file is recorded, and    *)
(* that file is not the one the reader has open.                           *)
OwnerWrites ==
  /\ wopen <=> stream # "closed"
  /\ wopen => target # NoWriter /\ made.file = target
  /\ wopen /\ made.sound => stream = "good"
  /\ wopen /\ open => filename # target

M == disk[made.file]

(* While a sound session lasts, its container still has the shape the file *)
(* was given, and the writer has put as many slabs into it as records went *)
(* in.                                                                     *)
Shaped ==
  wopen /\ made.sound =>
    /\ ~IsNetcdf /\ meta.dim = 2 => T.vector
    /\ IsNetcdf => /\ T.vars = varidsOut
                   /\ Len(varidsOut) = meta.dim
                   /\ T.max = meta.max
                   /\ numWritten = Len(made.snaps)

(* One record of an ASCII file, from line i to the one before "next".  The *)
(* second block of a maximum file begins with values no reader takes.      *)
RecordAt(f, i, next, k) ==
  /\ f.lines[i].kind \in RecordHeads
  /\ \A j \in i..(next - 1) : f.lines[j].snap = k
  /\ i < next /\ i + ValueLines(f, i) < next
  /\ \/ next = i + ValueLines(f, i) + 1
     \/ f.vector /\ 0 < ValueLines(f, i) /\ f.lines[i + 1].kind = "scalar"

(* The file of a session is the records that went in, one after the other; *)
(* "at" says where each of them begins.                                    *)
Laid(f, snaps, at) ==
  /\ at \in [1..(Len(snaps) + 1) -> 1..(Len(f.lines) + 1)]
  /\ at[1] = 1 /\ at[Len(snaps) + 1] = Len(f.lines) + 1
  /\ \A j \in 1..Len(snaps) : RecordAt(f, at[j], at[j + 1], snaps[j])

(* An undisturbed reader of that file stands before a record.              *)
Stands(at) ==
  ~disturbed /\ ret # "crash" /\ handle # Closed /\ filename = made.file =>
    /\ currentSnap <= Len(made.snaps)
    /\ handle + 1 = at[currentSnap + 1]

MadeAscii ==
  made.sound /\ made.file \in Targets \ NcTargets =>
    /\ M.format \in AsciiFormats \cup {"unknown"}
    /\ ~M.cut
    /\ \E at \in [1..(Len(made.snaps) + 1) -> 1..(Len(M.lines) + 1)] :
         Laid(M, made.snaps, at) /\ Stands(at)

MadeNetcdf ==
  made.sound /\ made.file \in NcTargets =>
    /\ M.format = "netcdf4"
    /\ Len(M.vars) = M.dim
    /\ M.snaps = Len(M.lines)
    /\ ~M.max => /\ Len(M.lines) = Len(made.snaps)
                 /\ \A i \in 1..Len(made.snaps) : M.lines[i].snap = made.snaps[i]

RoundInvariant ==
  /\ TypeOK /\ WriterTyped
  /\ OwnerReads /\ OwnerWrites
  /\ Shaped /\ MadeAscii /\ MadeNetcdf
  /\ ReadBack

-----------------------------------------------------------------------------
(* The steps, seen from the other side. *)

(* A step of the reader is one of its calls; of the writer it may only end *)
(* the soundness of the session.                                           *)
LEMMA ReaderStepIsCall ==
  ASSUME TypeOK, WriterTyped, ReaderStep
  PROVE  /\ [Call]_vars /\ disk' = disk
         /\ UNCHANGED <<object, sparse, wopen, stream, varidsOut, numWritten>>
         /\ made' \in Makings
         /\ made'.file = made.file /\ made'.snaps = made.snaps
         /\ made'.sound => made.sound
         /\ made'.sound /\ wopen => meta' = meta
<1>1. Requests \subseteq AnyRequest
  BY ReaderAssumption DEF Requests, AnyRequest
<1>2. [Call]_vars
  BY <1>1 DEF ReaderStep, Call
<1>3. disk' = disk
  BY <1>2, OpenedGrows
<1>4. made' = [made EXCEPT !.sound =
                 @ /\ (wopen => <<meta, numSnaps, numNodes>>' = <<meta, numSnaps, numNodes>>)]
  BY DEF ReaderStep
<1>5. made \in Makings
  BY DEF WriterTyped
<1>6. /\ made'.file = made.file /\ made'.snaps = made.snaps
      /\ made'.sound = (made.sound /\ (wopen => <<meta, numSnaps, numNodes>>' = <<meta, numSnaps, numNodes>>))
      /\ made' = [file |-> made.file, snaps |-> made.snaps, sound |-> made'.sound]
  BY <1>4, <1>5 DEF Makings
<1>7. made'.sound \in BOOLEAN
  BY <1>5, <1>6 DEF Makings
<1>8. UNCHANGED <<object, sparse, wopen, stream, varidsOut, numWritten>>
  BY DEF ReaderStep
<1> QED BY <1>2, <1>3, <1>5, <1>6, <1>7, <1>8 DEF Makings

LEMMA ReplacedTyped ==
  ASSUME TypeOK, Replaced
  PROVE  TypeOK'
<1>1. <<>> \in Seq(OutputRecord) /\ <<>> \in Seq(Nat) /\ DOMAIN <<>> = {}
  BY EmptySeq
<1>2. meta' \in Metadata
  BY DEF Replaced, Metadata
<1> QED BY <1>1, <1>2 DEF Replaced, TypeOK, Formats

(* What a writer puts into a file. *)
LEMMA ValuesTyped ==
  ASSUME NEW kind, kind = "scalar" \/ kind = "vector", NEW k \in Nat \cup {Garbled}, NEW n \in Nat
  PROVE  /\ Values(kind, k, n) \in Seq(Line)
         /\ Len(Values(kind, k, n)) = n
         /\ \A i \in 1..n : Values(kind, k, n)[i].kind = kind /\ Values(kind, k, n)[i].snap = k
<1>1. [kind |-> kind, snap |-> k, count |-> 0] \in Line
  BY DEF Line
<1>2. Values(kind, k, n) = [i \in 1..n |-> [kind |-> kind, snap |-> k, count |-> 0]]
  BY DEF Values
<1>3. Values(kind, k, n) \in [1..n -> Line]
  BY <1>1, <1>2
<1> QED BY <1>2, <1>3, SeqDef

LEMMA HeadTyped ==
  ASSUME WriterTyped, NEW r \in OutputRecord, NEW legible \in BOOLEAN, NEW n \in Nat
  PROVE  /\ RecordHead(r, legible, n) \in Line
         /\ RecordHead(r, legible, n).snap = r.holds.snap
         /\ r.holds.snap \in Nat \cup {Garbled}
         /\ r.nodes \in Nat /\ r.meta \in Metadata
<1>1. r.holds.snap \in Nat \cup {Garbled} /\ r.nodes \in Nat /\ r.meta \in Metadata
  BY DEF OutputRecord, Content
<1> QED BY <1>1 DEF RecordHead, Line, RecordHeads, WriterTyped

LEMMA MissingTyped ==
  /\ Missing \in FileDesc
  /\ Missing.lines = <<>> /\ ~Missing.cut /\ ~Missing.max /\ Missing.snaps = 0
  /\ Missing.header = "ok"
<1>1. <<>> \in Seq(Line) /\ <<>> \in Seq(Nat)
  BY EmptySeq
<1> QED BY <1>1 DEF Missing, FileDesc, Formats

LEMMA AsciiFileTyped ==
  ASSUME TypeOK
  PROVE  /\ AsciiFile \in FileDesc
         /\ AsciiFile.lines = <<>> /\ AsciiFile.format = "unknown" /\ ~AsciiFile.cut
         /\ AsciiFile.vector = (meta.dim = 2)
<1>1. PICK f \in FileDesc : f = Missing
  BY MissingTyped
<1>2. PICK h \in {"ok", "badField"} : h = IF meta.dim = 3 THEN "badField" ELSE "ok"
  OBVIOUS
<1>3. PICK v \in BOOLEAN : v = (meta.dim = 2)
  OBVIOUS
<1>4. meta.dim \in 0..3 /\ numSnaps \in Nat /\ numNodes \in Nat
  BY DEF TypeOK, Metadata
<1>5. "unknown" \in Formats
  BY DEF Formats
<1>6. AsciiFile = [f EXCEPT !.format = "unknown", !.header = h, !.snaps = numSnaps,
                            !.nodes = numNodes, !.vector = v, !.dim = meta.dim]
  BY <1>1, <1>2, <1>3 DEF AsciiFile
<1>7. /\ AsciiFile \in FileDesc
      /\ AsciiFile.lines = f.lines /\ AsciiFile.format = "unknown" /\ AsciiFile.cut = f.cut
      /\ AsciiFile.vector = v
  BY <1>4, <1>5, <1>6 DEF FileDesc
<1> QED BY <1>1, <1>3, <1>7, MissingTyped

LEMMA NetcdfFileTyped ==
  ASSUME TypeOK, WriterTyped
  PROVE  /\ NetcdfVars \in Seq(Nat) /\ Len(NetcdfVars) = meta.dim
         /\ NetcdfFile \in FileDesc
         /\ NetcdfFile.lines = <<>> /\ NetcdfFile.format = "netcdf4" /\ NetcdfFile.snaps = 0
         /\ NetcdfFile.vars = NetcdfVars /\ NetcdfFile.max = meta.max
         /\ NetcdfFile.dim = meta.dim /\ NetcdfFile.header = "ok"
         /\ NetcdfFile.nodes = (IF mesh = NoMesh THEN numNodes ELSE mesh)
         /\ NetcdfFile.fields = {NetcdfVars[i] : i \in 1..meta.dim}
<1>1. /\ meta.dim \in 0..3 /\ meta.vector \in BOOLEAN /\ meta.max \in BOOLEAN
      /\ numNodes \in Nat
  BY DEF TypeOK, Metadata
<1>2. NetcdfVars \in Seq(Nat) /\ Len(NetcdfVars) = meta.dim
  <2>1. NetcdfVars \in [1..meta.dim -> Nat]
    BY <1>1 DEF NetcdfVars
  <2> QED BY <1>1, <2>1, SeqDef
<1>3. PICK f \in FileDesc : f = Missing
  BY MissingTyped
<1>4. PICK fields \in SUBSET Nat : fields = {NetcdfVars[i] : i \in 1..meta.dim}
  <2>1. \A i \in 1..meta.dim : NetcdfVars[i] \in Nat
    BY <1>1 DEF NetcdfVars
  <2> HIDE DEF NetcdfVars
  <2>2. {NetcdfVars[i] : i \in 1..meta.dim} \in SUBSET Nat
    BY <2>1
  <2> QED BY <2>2
<1>5. PICK n \in Nat : n = IF mesh = NoMesh THEN numNodes ELSE mesh
  BY <1>1 DEF WriterTyped
<1>6. "netcdf4" \in Formats
  BY DEF Formats, NetcdfFormats
<1>7. NetcdfFile = [f EXCEPT !.format = "netcdf4", !.nodes = n, !.fields = fields,
                             !.vars = NetcdfVars, !.vector = meta.vector, !.max = meta.max,
                             !.dim = meta.dim]
  BY <1>3, <1>4, <1>5 DEF NetcdfFile
<1>8. /\ NetcdfFile \in FileDesc
      /\ NetcdfFile.lines = f.lines /\ NetcdfFile.format = "netcdf4"
      /\ NetcdfFile.snaps = f.snaps /\ NetcdfFile.vars = NetcdfVars
      /\ NetcdfFile.max = meta.max /\ NetcdfFile.dim = meta.dim
      /\ NetcdfFile.header = f.header /\ NetcdfFile.nodes = n /\ NetcdfFile.fields = fields
  <2> HIDE DEF NetcdfVars
  <2> QED BY <1>1, <1>2, <1>6, <1>7 DEF FileDesc
<1> QED BY <1>2, <1>3, <1>4, <1>5, <1>8, MissingTyped, Zenon

(* A record of n values: its head, and the values the shape of the container *)
(* asks for.                                                                 *)
LEMMA BlockTyped ==
  ASSUME WriterTyped, NEW r \in OutputRecord, NEW legible \in BOOLEAN, NEW n \in Nat
  PROVE  Block(r, legible, n) \in Seq(Line)
<1> DEFINE k == r.holds.snap
           a == IF ~Vectors THEN Values("scalar", k, n)
                ELSE IF Throws(r, n) THEN <<>> ELSE Values("vector", k, n)
           b == IF TwoBlock /\ ~Throws(r, n) THEN Values("scalar", k, n) ELSE <<>>
<1>1. RecordHead(r, legible, n) \in Line /\ k \in Nat \cup {Garbled}
  BY HeadTyped
<1>2. <<RecordHead(r, legible, n)>> \in Seq(Line)
  BY <1>1
<1>3. /\ Values("scalar", k, n) \in Seq(Line) /\ Values("vector", k, n) \in Seq(Line)
      /\ <<>> \in Seq(Line)
  <2> HIDE DEF k
  <2> QED BY <1>1, ValuesTyped, EmptySeq
<1>4. a \in Seq(Line) /\ b \in Seq(Line)
  <2> HIDE DEF k
  <2> QED BY <1>3
<1>5. Block(r, legible, n) = <<RecordHead(r, legible, n)>> \o a \o b
  BY DEF Block
<1> HIDE DEF a, b
<1> QED BY <1>2, <1>4, <1>5, ConcatProperties

LEMMA BlockLaid ==
  ASSUME TypeOK, WriterTyped, NEW r \in OutputRecord, NEW n \in Nat, ~Throws(r, n)
  PROVE  LET B == Block(r, TRUE, n) IN
         /\ B \in Seq(Line) /\ n + 1 <= Len(B)
         /\ B[1].kind = (IF sparse THEN "sparse" ELSE "full")
         /\ B[1].count = (IF sparse THEN n ELSE 0)
         /\ \A i \in 1..Len(B) : B[i].snap = r.holds.snap
         /\ Len(B) = n + 1 \/ (0 < n /\ meta.dim = 2 /\ B[2].kind = "scalar")
<1>1. PICK k \in Nat \cup {Garbled} : k = r.holds.snap
  BY HeadTyped
<1>2. PICK h \in Line : h = RecordHead(r, TRUE, n)
  BY HeadTyped
<1>3. /\ h.snap = k /\ h.kind = (IF sparse THEN "sparse" ELSE "full")
      /\ h.count = (IF sparse THEN n ELSE 0)
  BY <1>1, <1>2 DEF RecordHead, WriterTyped
<1>4. PICK kind \in {"scalar", "vector"} : kind = IF Vectors THEN "vector" ELSE "scalar"
  OBVIOUS
<1>5. PICK a : a = Values(kind, k, n)
  OBVIOUS
<1>6. a \in Seq(Line) /\ Len(a) = n /\ \A i \in 1..n : a[i].kind = kind /\ a[i].snap = k
  <2>1. /\ Values(kind, k, n) \in Seq(Line)
        /\ Len(Values(kind, k, n)) = n
        /\ \A i \in 1..n : Values(kind, k, n)[i].kind = kind /\ Values(kind, k, n)[i].snap = k
    <3>1. kind = "scalar" \/ kind = "vector"
      OBVIOUS
    <3>2. k \in Nat \cup {Garbled} /\ n \in Nat
      OBVIOUS
    <3>3. Values(kind, k, n) \in Seq(Line)
      BY SMT, <3>1, <3>2, ValuesTyped
    <3>4. Len(Values(kind, k, n)) = n
      BY SMT, <3>1, <3>2, ValuesTyped
    <3>5. \A i \in 1..n : Values(kind, k, n)[i].kind = kind /\ Values(kind, k, n)[i].snap = k
      BY SMT, <3>1, <3>2, ValuesTyped
    <3> QED BY <3>3, <3>4, <3>5
  <2> QED BY Zenon, <1>5, <2>1
<1>7. PICK b : b = IF TwoBlock THEN Values("scalar", k, n) ELSE <<>>
  OBVIOUS
<1>8. /\ b \in Seq(Line) /\ \A i \in 1..Len(b) : b[i].snap = k
      /\ Len(b) = 0 \/ (TwoBlock /\ Len(b) = n)
  <2>1. /\ Values("scalar", k, n) \in Seq(Line)
        /\ Len(Values("scalar", k, n)) = n
        /\ \A i \in 1..n : Values("scalar", k, n)[i].snap = k
    <3>1. "scalar" = "scalar" \/ "scalar" = "vector"
      OBVIOUS
    <3>2. k \in Nat \cup {Garbled} /\ n \in Nat
      OBVIOUS
    <3>3. Values("scalar", k, n) \in Seq(Line)
      BY SMT, <3>1, <3>2, ValuesTyped
    <3>4. Len(Values("scalar", k, n)) = n
      BY SMT, <3>1, <3>2, ValuesTyped
    <3>5. \A i \in 1..n : Values("scalar", k, n)[i].kind = "scalar" /\ Values("scalar", k, n)[i].snap = k
      BY SMT, <3>1, <3>2, ValuesTyped
    <3> QED BY <3>3, <3>4, <3>5
  <2>2. <<>> \in Seq(Line) /\ Len(<<>>) = 0
    BY EmptySeq
  <2> QED BY <1>7, <2>1, <2>2
<1>9. Block(r, TRUE, n) = <<h>> \o a \o b
  BY <1>1, <1>2, <1>4, <1>5, <1>7 DEF Block
<1>10. PICK c : c = <<h>> \o a
  OBVIOUS
<1>11. /\ <<h>> \in Seq(Line) /\ Len(<<h>>) = 1 /\ <<h>>[1] = h
  OBVIOUS
<1>12. /\ c \in Seq(Line) /\ Len(c) = n + 1 /\ c[1] = h
       /\ \A i \in 1..(n + 1) : c[i].snap = k
       /\ 0 < n => c[2].kind = kind
  <2>1. /\ c \in Seq(Line) /\ Len(c) = 1 + n
        /\ \A i \in 1..(1 + n) : c[i] = IF i <= 1 THEN <<h>>[i] ELSE a[i - 1]
    BY <1>6, <1>10, <1>11, ConcatProperties
  <2>2. c[1] = h /\ Len(c) = n + 1
    BY <1>11, <2>1
  <2>3. ASSUME NEW i \in 1..(n + 1), i # 1 PROVE c[i] = a[i - 1] /\ i - 1 \in 1..n
    BY <2>1, <2>3
  <2>4. ASSUME NEW i \in 1..(n + 1) PROVE c[i].snap = k
    BY <1>3, <1>6, <2>2, <2>3
  <2>5. 0 < n => c[2].kind = kind
    <3>1. 0 < n => 2 \in 1..(n + 1) /\ 2 - 1 = 1 /\ 1 \in 1..n
      OBVIOUS
    <3> QED BY <1>6, <2>3, <3>1
  <2> QED BY <2>1, <2>2, <2>4, <2>5
<1>13. PICK d : d = c \o b
  OBVIOUS
<1>14. /\ d \in Seq(Line) /\ Len(d) = n + 1 + Len(b) /\ Len(b) \in Nat
       /\ \A i \in 1..(n + 1 + Len(b)) :
            d[i] = IF i <= n + 1 THEN c[i] ELSE b[i - (n + 1)]
  <2>1. /\ d \in Seq(Line) /\ Len(d) = Len(c) + Len(b)
        /\ \A i \in 1..(Len(c) + Len(b)) :
             d[i] = IF i <= Len(c) THEN c[i] ELSE b[i - Len(c)]
    BY <1>8, <1>12, <1>13, ConcatProperties
  <2>2. Len(b) \in Nat
    BY <1>8, LenProperties
  <2> QED BY <1>12, <2>1, <2>2
<1>15. \A i \in 1..Len(d) : d[i].snap = k
  <2> TAKE i \in 1..Len(d)
  <2>1. CASE i <= n + 1
    BY <1>12, <1>14, <2>1
  <2>2. CASE ~(i <= n + 1)
    <3>1. i - (n + 1) \in 1..Len(b) /\ d[i] = b[i - (n + 1)]
      BY <1>14, <2>2
    <3> QED BY <1>8, <3>1
  <2> QED BY <2>1, <2>2
<1>16. d[1] = h
  <2>1. 1 \in 1..(n + 1 + Len(b)) /\ 1 <= n + 1
    BY <1>14
  <2> QED BY <1>12, <1>14, <2>1
<1>17. Len(d) = n + 1 \/ (0 < n /\ meta.dim = 2 /\ d[2].kind = "scalar")
  <2> SUFFICES ASSUME Len(b) # 0 PROVE 0 < n /\ meta.dim = 2 /\ d[2].kind = "scalar"
    BY <1>14
  <2>1. TwoBlock /\ 0 < n
    BY <1>8
  <2>2. meta.dim = 2 /\ kind = "scalar"
    BY <1>4, <2>1 DEF TwoBlock, Vectors
  <2>3. 2 \in 1..(n + 1 + Len(b)) /\ 2 <= n + 1
    BY <1>14, <2>1
  <2> QED BY <1>12, <1>14, <2>1, <2>2, <2>3
<1>18. Block(r, TRUE, n) = d
  BY <1>9, <1>10, <1>13
<1>19. /\ d \in Seq(Line) /\ n + 1 <= Len(d)
       /\ d[1].kind = (IF sparse THEN "sparse" ELSE "full")
       /\ d[1].count = (IF sparse THEN n ELSE 0)
  BY <1>3, <1>14, <1>16
<1> QED BY <1>1, <1>15, <1>17, <1>18, <1>19, Zenon

(* A record stays where it is when lines are put behind it. *)
LEMMA RecordStays ==
  ASSUME NEW f, NEW g, NEW m \in Nat, NEW i \in Nat, NEW next \in Nat, NEW k,
         1 <= i, next <= m + 1, f.nodes \in Nat,
         \A j \in 1..m : f.lines[j] \in Line /\ g.lines[j] = f.lines[j],
         g.nodes = f.nodes, g.vector = f.vector, RecordAt(f, i, next, k)
  PROVE  RecordAt(g, i, next, k)
<1>1. PICK v : v = ValueLines(f, i)
  OBVIOUS
<1>2. /\ f.lines[i].kind \in RecordHeads
      /\ \A j \in i..(next - 1) : f.lines[j].snap = k
      /\ i < next /\ i + v < next
      /\ next = i + v + 1 \/ (f.vector /\ 0 < v /\ f.lines[i + 1].kind = "scalar")
  BY <1>1 DEF RecordAt
<1>3. i \in 1..m
  BY <1>2
<1>4. f.lines[i] \in Line /\ g.lines[i] = f.lines[i]
  BY <1>3
<1>5. v \in Nat
  BY <1>1, <1>4 DEF ValueLines, Line
<1>6. ValueLines(g, i) = v
  BY <1>1, <1>4 DEF ValueLines
<1>7. \A j \in i..(next - 1) : g.lines[j].snap = k
  <2> TAKE j \in i..(next - 1)
  <2>1. j \in 1..m
    OBVIOUS
  <2> QED BY <1>2, <2>1
<1>8. 0 < v => g.lines[i + 1] = f.lines[i + 1]
  <2>1. 0 < v => i + 1 \in 1..m
    BY <1>2, <1>5
  <2> QED BY <2>1
<1>9. next = i + v + 1 \/ (g.vector /\ 0 < v /\ g.lines[i + 1].kind = "scalar")
  BY <1>2, <1>8, Zenon
<1> QED BY <1>2, <1>4, <1>6, <1>7, <1>9 DEF RecordAt

(* The b lines of B are a record of n values of the file f. *)
IsRecord(f, B, b, n, k) ==
  /\ n + 1 <= b
  /\ B[1].kind \in RecordHeads
  /\ n = IF B[1].kind = "full" THEN f.nodes ELSE B[1].count
  /\ \A i \in 1..b : B[i].snap = k
  /\ b = n + 1 \/ (f.vector /\ 0 < n /\ B[2].kind = "scalar")

LEMMA RecordAdded ==
  ASSUME NEW f, NEW g, NEW B, NEW m \in Nat, NEW b \in Nat, NEW n \in Nat, NEW k,
         NEW i \in Nat, NEW next \in Nat, i = m + 1, next = i + b,
         \A j \in 1..b : g.lines[m + j] = B[j],
         g.nodes = f.nodes, g.vector = f.vector, IsRecord(f, B, b, n, k)
  PROVE  RecordAt(g, i, next, k)
<1>1. /\ n + 1 <= b /\ B[1].kind \in RecordHeads
      /\ \A j \in 1..b : B[j].snap = k
      /\ b = n + 1 \/ (f.vector /\ 0 < n /\ B[2].kind = "scalar")
  BY DEF IsRecord
<1>2. g.lines[i] = B[1]
  <2>1. 1 \in 1..b
    BY <1>1
  <2> QED BY <2>1
<1>3. ValueLines(g, i) = n
  BY <1>2 DEF ValueLines, IsRecord
<1>4. \A j \in i..(next - 1) : g.lines[j].snap = k
  <2> TAKE j \in i..(next - 1)
  <2>1. j - m \in 1..b /\ m + (j - m) = j
    OBVIOUS
  <2>2. g.lines[m + (j - m)] = B[j - m]
    BY <2>1
  <2> QED BY <1>1, <2>1, <2>2
<1>5. 0 < n => g.lines[i + 1] = B[2]
  <2>1. 0 < n => 2 \in 1..b /\ m + 2 = i + 1
    BY <1>1
  <2> QED BY <2>1
<1>6. i + n < next /\ i < next
  BY <1>1
<1>7. b = n + 1 => next = i + n + 1
  OBVIOUS
<1>8. next = i + n + 1 \/ (g.vector /\ 0 < n /\ g.lines[i + 1].kind = "scalar")
  BY <1>1, <1>5, <1>7, Zenon
<1>9. g.lines[i].kind \in RecordHeads
  BY <1>1, <1>2
<1> QED BY <1>3, <1>4, <1>6, <1>8, <1>9, Zenon DEF RecordAt

(* A record more: what was laid stays, and it is laid behind. *)
Behind(at, n, last) == [j \in 1..(n + 2) |-> IF j <= n + 1 THEN at[j] ELSE last]

LEMMA BehindPlaces ==
  ASSUME NEW s \in Nat, NEW m \in Nat, NEW b \in Nat, NEW at \in [1..(s + 1) -> 1..(m + 1)]
  PROVE  /\ Behind(at, s, m + b + 1) \in [1..(s + 2) -> 1..(m + b + 1)]
         /\ Behind(at, s, m + b + 1)[s + 2] = m + b + 1
         /\ \A j \in 1..(s + 1) : Behind(at, s, m + b + 1)[j] = at[j]
<1>1. ASSUME NEW j \in 1..(s + 2)
      PROVE  (IF j <= s + 1 THEN at[j] ELSE m + b + 1) \in 1..(m + b + 1)
  <2>1. CASE j <= s + 1
    <3>1. at[j] \in 1..(m + 1)
      BY <2>1
    <3>2. PICK x \in 1..(m + 1) : x = at[j]
      BY <3>1
    <3>3. x \in 1..(m + b + 1)
      OBVIOUS
    <3> QED BY <2>1, <3>2, <3>3
  <2>2. CASE ~(j <= s + 1)
    BY <2>2
  <2> QED BY <2>1, <2>2
<1> QED BY <1>1 DEF Behind

Grown(f, g, B) ==
  g.lines = f.lines \o B /\ g.nodes = f.nodes /\ g.vector = f.vector

LEMMA LaidExtended ==
  ASSUME NEW f \in FileDesc, NEW g \in FileDesc, NEW k \in Nat \cup {Garbled},
         NEW snaps \in Seq(Nat \cup {Garbled}), NEW at, Laid(f, snaps, at),
         NEW B \in Seq(Line), NEW n \in Nat,
         Grown(f, g, B), IsRecord(f, B, Len(B), n, k)
  PROVE  Laid(g, Append(snaps, k), Behind(at, Len(snaps), Len(g.lines) + 1))
<1>1. f.lines \in Seq(Line) /\ g.lines \in Seq(Line) /\ f.nodes \in Nat
  BY DEF FileDesc
<1>2. PICK s \in Nat, m \in Nat, b \in Nat :
        s = Len(snaps) /\ m = Len(f.lines) /\ b = Len(B)
  BY <1>1, LenProperties
<1>3. /\ Len(g.lines) = m + b
      /\ \A i \in 1..(m + b) : g.lines[i] = IF i <= m THEN f.lines[i] ELSE B[i - m]
  BY <1>1, <1>2, ConcatProperties DEF Grown
<1>16. g.nodes = f.nodes /\ g.vector = f.vector
  BY DEF Grown
<1>4. PICK more : more = Append(snaps, k)
  OBVIOUS
<1>5. /\ Len(more) = s + 1
      /\ \A j \in 1..s : more[j] = snaps[j]
      /\ more[s + 1] = k
  BY <1>2, <1>4, AppendProperties
<1>6. /\ at \in [1..(s + 1) -> 1..(m + 1)]
      /\ at[1] = 1 /\ at[s + 1] = m + 1
      /\ \A j \in 1..s : RecordAt(f, at[j], at[j + 1], snaps[j])
  BY <1>2 DEF Laid
<1>7. PICK to : to = Behind(at, s, m + b + 1)
  OBVIOUS
<1>8. /\ to \in [1..(s + 2) -> 1..(m + b + 1)]
      /\ to[s + 2] = m + b + 1
      /\ \A j \in 1..(s + 1) : to[j] = at[j]
  <2>1. /\ Behind(at, s, m + b + 1) \in [1..(s + 2) -> 1..(m + b + 1)]
        /\ Behind(at, s, m + b + 1)[s + 2] = m + b + 1
        /\ \A j \in 1..(s + 1) : Behind(at, s, m + b + 1)[j] = at[j]
    BY <1>6, BehindPlaces, Zenon
  <2> QED BY <1>7, <2>1, Zenon
<1>9. \A j \in 1..m : f.lines[j] \in Line /\ g.lines[j] = f.lines[j]
  <2> TAKE j \in 1..m
  <2>1. f.lines[j] \in Line
    BY <1>1, <1>2, ElementOfSeq
  <2>2. j \in 1..(m + b) /\ j <= m
    OBVIOUS
  <2> QED BY <1>3, <2>1, <2>2
<1>10. \A i \in 1..b : g.lines[m + i] = B[i]
  <2> TAKE i \in 1..b
  <2>1. m + i \in 1..(m + b) /\ ~(m + i <= m) /\ (m + i) - m = i
    OBVIOUS
  <2> QED BY <1>3, <2>1
<1>11. RecordAt(g, m + 1, m + b + 1, k)
  <2>1. IsRecord(f, B, b, n, k)
    BY <1>2
  <2>2. PICK i \in Nat, next \in Nat : i = m + 1 /\ next = i + b /\ next = m + b + 1
    OBVIOUS
  <2>3. RecordAt(g, i, next, k)
    BY <1>10, <1>16, <2>1, <2>2, RecordAdded
  <2> QED BY <2>2, <2>3
<1>12. \A j \in 1..(s + 1) : RecordAt(g, to[j], to[j + 1], more[j])
  <2> TAKE j \in 1..(s + 1)
  <2>1. CASE j \in 1..s
    <3>1. j + 1 \in 1..(s + 1) /\ j \in 1..(s + 1)
      BY <2>1
    <3>2. PICK x \in 1..(m + 1), y \in 1..(m + 1) : x = at[j] /\ y = at[j + 1]
      BY <1>6, <3>1
    <3>3. RecordAt(f, x, y, snaps[j])
      BY <1>6, <2>1, <3>2, Zenon
    <3>4. x \in Nat /\ y \in Nat /\ 1 <= x /\ y <= m + 1
      OBVIOUS
    <3>5. RecordAt(g, x, y, snaps[j])
      BY <1>1, <1>9, <1>16, <3>3, <3>4, RecordStays
    <3>6. to[j] = x /\ to[j + 1] = y /\ more[j] = snaps[j]
      BY <1>5, <1>8, <2>1, <3>1, <3>2, Zenon
    <3> QED BY <3>5, <3>6, Zenon
  <2>2. CASE j = s + 1
    <3>1. j + 1 = s + 2 /\ s + 1 \in 1..(s + 1)
      BY <2>2
    <3>2. to[j] = m + 1 /\ to[j + 1] = m + b + 1 /\ more[j] = k
      BY <1>5, <1>6, <1>8, <2>2, <3>1, Zenon
    <3> QED BY <1>11, <3>2, Zenon
  <2>3. j \in 1..s \/ j = s + 1
    OBVIOUS
  <2> QED BY <2>1, <2>2, <2>3
<1>13. to[1] = 1 /\ s + 1 + 1 = s + 2
  <2>1. 1 \in 1..(s + 1)
    OBVIOUS
  <2> QED BY <1>6, <1>8, <2>1
<1>14. /\ to \in [1..(Len(more) + 1) -> 1..(Len(g.lines) + 1)]
       /\ to[1] = 1 /\ to[Len(more) + 1] = Len(g.lines) + 1
       /\ \A j \in 1..Len(more) : RecordAt(g, to[j], to[j + 1], more[j])
  BY <1>3, <1>5, <1>8, <1>12, <1>13, Zenon
<1>15. Laid(g, more, to)
  BY <1>14, Zenon DEF Laid
<1> QED BY <1>2, <1>3, <1>4, <1>7, <1>15, Zenon

-----------------------------------------------------------------------------
(* The writer's steps. *)

LEMMA TargetTyped ==
  ASSUME TypeOK, WriterTyped, target # NoWriter
  PROVE  target \in Files /\ target \in Targets /\ T \in FileDesc
<1>1. target \in Targets /\ Targets \subseteq Files
  BY WriterAssumption DEF WriterTyped
<1> QED BY <1>1 DEF TypeOK, T

LEMMA ExtendedTyped ==
  ASSUME TypeOK, WriterTyped, target # NoWriter, NEW B \in Seq(Line)
  PROVE  /\ Extended(B) \in FileDesc
         /\ Grown(T, Extended(B), B)
         /\ Extended(B).cut = T.cut /\ Extended(B).max = T.max
         /\ Extended(B).format \in {T.format, "asciiSparse", "asciiFull"}
<1>1. PICK f \in FileDesc : f = T
  BY TargetTyped
<1>2. f.lines \in Seq(Line) /\ f.format \in Formats \cup {"missing"}
  BY DEF FileDesc
<1>3. PICK lines \in Seq(Line) : lines = f.lines \o B
  BY <1>2, ConcatProperties
<1>4. PICK format \in Formats \cup {"missing"} :
        /\ format = IF f.lines # <<>> THEN f.format
                    ELSE IF sparse THEN "asciiSparse" ELSE "asciiFull"
        /\ format \in {f.format, "asciiSparse", "asciiFull"}
  BY <1>2 DEF Formats, AsciiFormats
<1>5. Extended(B) = [f EXCEPT !.lines = lines, !.format = format]
  BY <1>1, <1>3, <1>4 DEF Extended
<1>6. /\ Extended(B) \in FileDesc
      /\ Extended(B).lines = lines /\ Extended(B).nodes = f.nodes
      /\ Extended(B).vector = f.vector /\ Extended(B).cut = f.cut
      /\ Extended(B).max = f.max /\ Extended(B).format = format
  BY <1>5 DEF FileDesc
<1> QED BY <1>1, <1>3, <1>4, <1>6 DEF Grown

(* What a netCDF record leaves in the file. *)
WithSlab(r) == [T EXCEPT !.lines = Slabs(r), !.snaps = Len(Slabs(r))]

LEMMA SlabsTyped ==
  ASSUME TypeOK, WriterTyped, target # NoWriter, NEW r \in OutputRecord
  PROVE  /\ Slabs(r) \in Seq(Line)
         /\ WithSlab(r) \in FileDesc
         /\ WithSlab(r).lines = Slabs(r) /\ WithSlab(r).snaps = Len(Slabs(r))
         /\ WithSlab(r).format = T.format /\ WithSlab(r).vars = T.vars
         /\ WithSlab(r).dim = T.dim /\ WithSlab(r).max = T.max
         /\ WithSlab(r).header = T.header /\ WithSlab(r).nodes = T.nodes
         /\ WithSlab(r).fields = T.fields
<1>1. PICK f \in FileDesc : f = T
  BY TargetTyped
<1>2. f.lines \in Seq(Line)
  BY DEF FileDesc
<1>3. PICK m \in Nat : m = Len(f.lines)
  BY <1>2, LenProperties
<1>4. PICK c \in Nat : c = numWritten + 1
  BY DEF WriterTyped
<1>5. PICK len \in Nat : len = IF c <= m THEN m ELSE c
  OBVIOUS
<1>6. PICK k \in Nat \cup {Garbled} : k = IF SlabKept(r) THEN r.holds.snap ELSE Garbled
  BY HeadTyped
<1>7. /\ [kind |-> "slab", count |-> 0, snap |-> k] \in Line
      /\ [kind |-> "slab", count |-> 0, snap |-> Garbled] \in Line
  BY DEF Line
<1>8. \A i \in 1..m : f.lines[i] \in Line
  BY <1>2, <1>3, ElementOfSeq
<1>9. Slabs(r) = [i \in 1..len |->
                    IF i = c THEN [kind |-> "slab", count |-> 0, snap |-> k]
                    ELSE IF i <= m THEN f.lines[i]
                    ELSE [kind |-> "slab", count |-> 0, snap |-> Garbled]]
  BY <1>1, <1>3, <1>4, <1>5, <1>6 DEF Slabs, SlabIndex
<1>10. Slabs(r) \in [1..len -> Line]
  BY <1>7, <1>8, <1>9
<1>11. Slabs(r) \in Seq(Line) /\ Len(Slabs(r)) = len
  BY <1>10, SeqDef
<1>12. PICK lines \in Seq(Line) : lines = Slabs(r)
  BY <1>11
<1>13. WithSlab(r) = [f EXCEPT !.lines = lines, !.snaps = len]
  BY <1>1, <1>11, <1>12 DEF WithSlab
<1>14. /\ WithSlab(r) \in FileDesc
       /\ WithSlab(r).lines = lines /\ WithSlab(r).snaps = len
       /\ WithSlab(r).format = f.format /\ WithSlab(r).vars = f.vars
       /\ WithSlab(r).dim = f.dim /\ WithSlab(r).max = f.max
       /\ WithSlab(r).header = f.header /\ WithSlab(r).nodes = f.nodes
       /\ WithSlab(r).fields = f.fields
  BY <1>13 DEF FileDesc
<1> QED BY <1>1, <1>11, <1>12, <1>14

(* A slab of the shape of the file goes behind those that are there. *)
LEMMA SlabAdded ==
  ASSUME TypeOK, WriterTyped, target # NoWriter, NEW r \in OutputRecord,
         SlabKept(r), Len(T.lines) = numWritten
  PROVE  /\ Len(Slabs(r)) = numWritten + 1
         /\ \A i \in 1..numWritten : Slabs(r)[i] = T.lines[i]
         /\ Slabs(r)[numWritten + 1].snap = r.holds.snap
<1>1. PICK lines \in Seq(Line) : lines = T.lines
  BY TargetTyped DEF FileDesc
<1>2. PICK s \in Nat : s = numWritten
  BY DEF WriterTyped
<1>3. Slabs(r) = [i \in 1..(s + 1) |->
                    IF i = s + 1
                      THEN [kind |-> "slab", count |-> 0, snap |-> r.holds.snap]
                      ELSE IF i <= s THEN lines[i]
                      ELSE [kind |-> "slab", count |-> 0, snap |-> Garbled]]
  BY <1>1, <1>2 DEF Slabs, SlabIndex
<1>4. Len(Slabs(r)) = s + 1
  <2>1. Slabs(r) \in Seq(Line)
    BY SlabsTyped
  <2>2. DOMAIN Slabs(r) = 1..(s + 1)
    BY <1>3
  <2> QED BY <2>1, <2>2, LenProperties
<1>5. \A i \in 1..s : Slabs(r)[i] = lines[i]
  BY <1>3
<1>6. Slabs(r)[s + 1].snap = r.holds.snap
  BY <1>3
<1> QED BY <1>1, <1>2, <1>4, <1>5, <1>6

LEMMA WholeListKept ==
  ASSUME WriterTyped, Len(varidsOut) = meta.dim
  PROVE  SubSeq(varidsOut, 1, meta.dim) = varidsOut
<1>1. varidsOut \in Seq(Nat)
  BY DEF WriterTyped
<1> QED BY <1>1, SubSeqFull

(* A step that touches no file goes on with the session or ends it. *)
Rested ==
  /\ UNCHANGED disk
  /\ made'.file = made.file /\ made'.snaps = made.snaps /\ (made'.sound => made.sound)
  /\ \/ ~wopen' /\ stream' = "closed"
     \/ /\ UNCHANGED <<target, wopen, varidsOut, numWritten>>
        /\ stream' = stream \/ (stream # "closed" /\ stream' = "failed" /\ ~made'.sound)

(* A step that begins a session. *)
Started ==
  /\ target # NoWriter /\ ~Held(target) /\ (open => filename # target)
  /\ UNCHANGED <<target, numWritten>> /\ wopen' /\ stream' = "good"
  /\ made'.file = target /\ made'.snaps = <<>>
  /\ \/ ~IsNetcdf /\ Put(AsciiFile)
     \/ /\ IsNetcdf /\ Put(NetcdfFile)
        /\ varidsOut' = varidsOut \o NetcdfVars
        /\ made'.sound => numWritten = 0 /\ varidsOut = <<>>

Wrote(r) == WriteAscii(r, TRUE) \/ WriteNetcdf(r)

LEMMA MadeTyped ==
  ASSUME WriterTyped
  PROVE  /\ made \in Makings
         /\ Unsound => /\ made' \in Makings
                       /\ made'.file = made.file /\ made'.snaps = made.snaps
                       /\ ~made'.sound
         /\ \A b \in BOOLEAN : Begin(b) /\ target # NoWriter =>
              /\ made' \in Makings
              /\ made'.file = target /\ made'.snaps = <<>> /\ made'.sound = b
<1>1. <<>> \in Seq(Nat \cup {Garbled})
  BY EmptySeq
<1>2. made \in Makings
  BY DEF WriterTyped
<1>3. Unsound => /\ made' \in Makings
                 /\ made'.file = made.file /\ made'.snaps = made.snaps
                 /\ ~made'.sound
  BY <1>2 DEF Unsound, Makings
<1>4. ASSUME NEW b \in BOOLEAN, Begin(b), target # NoWriter
      PROVE  /\ made' \in Makings
             /\ made'.file = target /\ made'.snaps = <<>> /\ made'.sound = b
  BY <1>1, <1>4 DEF Begin, Makings, WriterTyped
<1> QED BY <1>2, <1>3, <1>4

LEMMA WriterForms ==
  ASSUME TypeOK, WriterTyped, OwnerWrites, WriterStep
  PROVE  /\ UNCHANGED reader
         /\ ret # "crash" /\ ret' \in {"none", "ok", "error", "crash"}
         /\ \/ Rested \/ Started
            \/ \E i \in DOMAIN records : records[i].whole /\ Wrote(records[i])
<1> USE DEF Succeed, Reject
<1>1. ASSUME NEW f \in Targets, NEW m \in Meshes, MakeWriter(f, m)
      PROVE  UNCHANGED reader /\ ret # "crash" /\ ret' = "ok" /\ Rested
  BY <1>1 DEF MakeWriter, Rested
<1>2. CASE ~(open /\ filename = target) /\ ~Held(target) /\ OpenTargetAscii
  <2>1. UNCHANGED reader /\ ret # "crash" /\ ret' = "ok"
    BY <1>2 DEF OpenTargetAscii
  <2>2. CASE stream = "closed"
    BY <1>2, <2>2, MadeTyped DEF OpenTargetAscii, Started, object
  <2>3. CASE stream # "closed"
    BY <1>2, <2>3, MadeTyped DEF OpenTargetAscii, Rested, object, OwnerWrites, WriterTyped
  <2> QED BY <2>1, <2>2, <2>3
<1>3. CASE ~(open /\ filename = target) /\ ~Held(target) /\ OpenTargetNetcdf
  <2>1. CASE stream = "closed"
    <3>1. PICK b \in BOOLEAN : b = (numWritten = 0 /\ varidsOut = <<>>)
      OBVIOUS
    <3>2. Begin(b) /\ target # NoWriter
      BY <1>3, <2>1, <3>1 DEF OpenTargetNetcdf
    <3>3. made'.file = target /\ made'.snaps = <<>> /\ made'.sound = b
      BY <3>2, MadeTyped
    <3>4. /\ UNCHANGED reader /\ ret # "crash" /\ ret' = "ok"
          /\ UNCHANGED <<target, numWritten>> /\ wopen' /\ stream' = "good"
          /\ IsNetcdf /\ Put(NetcdfFile) /\ varidsOut' = varidsOut \o NetcdfVars
      BY <1>3, <2>1 DEF OpenTargetNetcdf, object
    <3>5. made'.sound => numWritten = 0 /\ varidsOut = <<>>
      BY <3>1, <3>3, Zenon
    <3>6. Started
      BY <1>3, <3>2, <3>3, <3>4, <3>5, Zenon DEF Started
    <3> QED BY <3>4, <3>6
  <2>2. CASE stream # "closed"
    BY <1>3, <2>2, MadeTyped DEF OpenTargetNetcdf, Rested, object, OwnerWrites, WriterTyped
  <2> QED BY <2>1, <2>2
<1>4. ASSUME NEW i \in DOMAIN records, records[i].whole, WriteCall(records[i], TRUE)
      PROVE  /\ UNCHANGED reader
             /\ ret # "crash" /\ ret' \in {"ok", "error", "crash"}
             /\ Rested \/ Wrote(records[i])
  <2>1. CASE WriteRefused \/ WriteNetcdfCrash(records[i])
    BY <2>1 DEF WriteRefused, WriteNetcdfCrash, writer, Rested
  <2>2. CASE WriteAscii(records[i], TRUE)
    BY <2>2 DEF WriteAscii, Wrote
  <2>3. CASE WriteNetcdf(records[i])
    BY <2>3 DEF WriteNetcdf, Wrote
  <2> QED BY <1>4, <2>1, <2>2, <2>3 DEF WriteCall
<1>5. ASSUME NEW s \in BOOLEAN, ChooseSparse(s)
      PROVE  UNCHANGED reader /\ ret # "crash" /\ ret' = "ok" /\ Rested
  BY <1>5 DEF ChooseSparse, Rested, object
<1>6. CASE CloseTarget \/ DropWriter
  BY <1>6 DEF CloseTarget, DropWriter, Rested
<1> QED BY <1>1, <1>2, <1>3, <1>4, <1>5, <1>6 DEF WriterStep, OpenTarget

LEMMA EnterTyped ==
  ASSUME WriterTyped, NEW r \in OutputRecord, Enter(r)
  PROVE  /\ made' \in Makings
         /\ made'.file = made.file
         /\ made'.snaps = Append(made.snaps, r.holds.snap)
         /\ made'.sound => made.sound /\ r.nodes = T.nodes /\ r.meta = meta
<1>1. PICK b \in BOOLEAN : b = (made.sound /\ r.nodes = T.nodes /\ r.meta = meta)
  OBVIOUS
<1>2. made \in Makings /\ r.holds.snap \in Nat \cup {Garbled}
  BY HeadTyped DEF WriterTyped
<1>3. PICK snaps \in Seq(Nat \cup {Garbled}) : snaps = Append(made.snaps, r.holds.snap)
  <2>1. made.snaps \in Seq(Nat \cup {Garbled})
    BY <1>2 DEF Makings
  <2> QED BY <1>2, <2>1, AppendProperties
<1>4. made' = [made EXCEPT !.snaps = snaps, !.sound = b]
  BY <1>1, <1>3 DEF Enter
<1>5. made' \in Makings /\ made'.file = made.file /\ made'.snaps = snaps /\ made'.sound = b
  BY <1>2, <1>4 DEF Makings
<1> QED BY <1>1, <1>3, <1>5, Zenon

(* What a call of write() has done to the files and the session. *)
Puts(r) ==
  /\ target # NoWriter /\ wopen
  /\ UNCHANGED <<target, mesh, sparse, wopen, stream, varidsOut>>
  /\ disk' \in [Files -> FileDesc]
  /\ \A f \in Files : f # target => disk'[f] = disk[f]
  /\ made' \in Makings /\ made'.file = made.file
  /\ made'.sound => /\ made.sound /\ r.nodes = T.nodes /\ r.meta = meta
                    /\ made'.snaps = Append(made.snaps, r.holds.snap)
  /\ numWritten' \in Nat

PutsBlock(r) ==
  \E n \in Nat : /\ ~Throws(r, n)
                 /\ ~sparse => n = T.nodes
                 /\ disk'[target] = Extended(Block(r, TRUE, n))

LEMMA AsciiWritten ==
  ASSUME TypeOK, WriterTyped, OwnerWrites, NEW r \in OutputRecord, WriteAscii(r, TRUE)
  PROVE  ~IsNetcdf /\ Puts(r) /\ (made'.sound => PutsBlock(r))
<1>1. /\ target # NoWriter /\ ~IsNetcdf /\ wopen
      /\ UNCHANGED <<target, mesh, sparse, wopen, stream, varidsOut>>
  BY DEF WriteAscii, object
<1>2. PICK n \in IF sparse THEN 0..r.nodes ELSE {r.nodes} :
        /\ IF stream = "good" THEN Put(Extended(Block(r, TRUE, n))) ELSE UNCHANGED disk
        /\ IF Throws(r, n)
             THEN Reject /\ Unsound /\ UNCHANGED numWritten
             ELSE Succeed /\ Enter(r) /\ numWritten' = numWritten + 1
  BY DEF WriteAscii
<1>3. n \in Nat /\ (~sparse => n = r.nodes)
  BY <1>2, HeadTyped DEF WriterTyped
<1>4. target \in Files /\ disk \in [Files -> FileDesc]
  BY <1>1, TargetTyped DEF TypeOK
<1>5. Extended(Block(r, TRUE, n)) \in FileDesc
  BY <1>1, <1>3, BlockTyped, ExtendedTyped
<1>6. /\ disk' \in [Files -> FileDesc]
      /\ \A f \in Files : f # target => disk'[f] = disk[f]
      /\ stream = "good" => disk'[target] = Extended(Block(r, TRUE, n))
  <2> HIDE DEF Block
  <2> QED BY <1>2, <1>4, <1>5 DEF Put
<1>7. CASE Throws(r, n)
  <2>1. made' \in Makings /\ made'.file = made.file /\ ~made'.sound /\ numWritten' \in Nat
    BY <1>2, <1>7, MadeTyped DEF WriterTyped
  <2> QED BY <1>1, <1>6, <2>1 DEF Puts
<1>8. CASE ~Throws(r, n)
  <2>1. Enter(r) /\ numWritten' \in Nat
    BY <1>2, <1>8 DEF WriterTyped
  <2>2. /\ made' \in Makings
        /\ made'.file = made.file
        /\ made'.snaps = Append(made.snaps, r.holds.snap)
        /\ made'.sound => made.sound /\ r.nodes = T.nodes /\ r.meta = meta
    BY <2>1, EnterTyped
  <2>3. made'.sound => PutsBlock(r)
    <3> SUFFICES ASSUME made'.sound PROVE PutsBlock(r)
      OBVIOUS
    <3>1. stream = "good" /\ r.nodes = T.nodes
      BY <1>1, <2>2 DEF OwnerWrites
    <3> QED BY <1>3, <1>6, <1>8, <3>1 DEF PutsBlock
  <2> QED BY <1>1, <1>6, <2>1, <2>2, <2>3 DEF Puts
<1> QED BY <1>7, <1>8

LEMMA NetcdfWritten ==
  ASSUME TypeOK, WriterTyped, NEW r \in OutputRecord, WriteNetcdf(r)
  PROVE  /\ IsNetcdf /\ Puts(r)
         /\ disk'[target] = WithSlab(r) /\ numWritten' = numWritten + 1
<1>1. /\ target # NoWriter /\ IsNetcdf /\ wopen /\ Enter(r)
      /\ UNCHANGED <<target, mesh, sparse, wopen, stream, varidsOut>>
      /\ Put(WithSlab(r)) /\ numWritten' = numWritten + 1
  BY DEF WriteNetcdf, object, WithSlab
<1>2. target \in Files /\ disk \in [Files -> FileDesc] /\ WithSlab(r) \in FileDesc
  BY <1>1, TargetTyped, SlabsTyped DEF TypeOK
<1>3. /\ disk' \in [Files -> FileDesc]
      /\ \A f \in Files : f # target => disk'[f] = disk[f]
      /\ disk'[target] = WithSlab(r)
  BY <1>1, <1>2 DEF Put
<1>4. numWritten' \in Nat
  BY <1>1 DEF WriterTyped
<1> QED BY <1>1, <1>3, <1>4, EnterTyped DEF Puts

LEMMA StartedTyped ==
  ASSUME TypeOK, WriterTyped, Started
  PROVE  /\ disk' \in [Files -> FileDesc]
         /\ \A f \in Files : f # target => disk'[f] = disk[f]
         /\ disk'[target] = IF IsNetcdf THEN NetcdfFile ELSE AsciiFile
<1>1. target \in Files /\ disk \in [Files -> FileDesc]
  BY TargetTyped DEF TypeOK, Started
<1>2. PICK f \in FileDesc : f = IF IsNetcdf THEN NetcdfFile ELSE AsciiFile
  BY AsciiFileTyped, NetcdfFileTyped
<1>3. Put(f)
  BY <1>2 DEF Started
<1> QED BY <1>1, <1>2, <1>3 DEF Put

(* The writer leaves the file the reader has open alone. *)
LEMMA WriterTouches ==
  ASSUME TypeOK, WriterTyped, OwnerWrites, WriterStep
  PROVE  /\ TypeOK'
         /\ open => D' = D
<1>1. /\ UNCHANGED reader
      /\ ret' \in {"none", "ok", "error", "crash"}
      /\ \/ Rested \/ Started
         \/ \E i \in DOMAIN records : Wrote(records[i])
  BY WriterForms
<1>2. disk \in [Files -> FileDesc] /\ filename \in Files
  BY DEF TypeOK
<1>3. disk' \in [Files -> FileDesc] /\ (open => disk'[filename] = disk[filename])
  <2>1. CASE Rested
    BY <1>2, <2>1 DEF Rested
  <2>2. CASE Started
    BY <1>2, <2>2, StartedTyped DEF Started
  <2>3. ASSUME NEW i \in DOMAIN records, Wrote(records[i])
        PROVE  disk' \in [Files -> FileDesc] /\ (open => disk'[filename] = disk[filename])
    <3>1. records[i] \in OutputRecord
      BY LenProperties, ElementOfSeq DEF TypeOK
    <3>2. Puts(records[i])
      BY <2>3, <3>1, AsciiWritten, NetcdfWritten DEF Wrote
    <3> QED BY <1>2, <3>2 DEF Puts, OwnerWrites
  <2> QED BY <1>1, <2>1, <2>2, <2>3
<1>4. UNCHANGED <<filename, open, filetype, handle, currentSnap, numSnaps, numNodes, meta, times,
                  varids, records, recordMap, disturbed, opened>>
  BY <1>1 DEF reader, cursor, header, store
<1>5. TypeOK'
  BY <1>1, <1>3, <1>4 DEF TypeOK
<1> QED BY <1>3, <1>4, <1>5 DEF D

LEMMA WriterTypedKept ==
  ASSUME TypeOK, WriterTyped, OwnerWrites, WriterStep
  PROVE  WriterTyped'
<1> USE DEF WriterTyped, object
<1>1. ASSUME NEW f \in Targets, NEW m \in Meshes, MakeWriter(f, m) PROVE WriterTyped'
  BY <1>1, EmptySeq, WriterAssumption DEF MakeWriter
<1>2. CASE OpenTargetAscii
  BY <1>2, MadeTyped DEF OpenTargetAscii
<1>3. CASE OpenTargetNetcdf
  <2>1. varidsOut \o NetcdfVars \in Seq(Nat)
    BY NetcdfFileTyped, ConcatProperties
  <2>2. (numWritten = 0 /\ varidsOut = <<>>) \in BOOLEAN
    OBVIOUS
  <2>3. made' \in Makings
    BY <1>3, <2>2, MadeTyped, Zenon DEF OpenTargetNetcdf
  <2> QED BY <1>3, <2>1, <2>3 DEF OpenTargetNetcdf
<1>4. ASSUME NEW i \in DOMAIN records, WriteCall(records[i], TRUE) PROVE WriterTyped'
  <2>1. CASE WriteRefused \/ WriteNetcdfCrash(records[i])
    BY <2>1 DEF WriteRefused, WriteNetcdfCrash, writer
  <2>2. CASE WriteAscii(records[i], TRUE) \/ WriteNetcdf(records[i])
    <3>1. records[i] \in OutputRecord
      BY LenProperties, ElementOfSeq DEF TypeOK
    <3>2. Puts(records[i])
      BY <2>2, <3>1, AsciiWritten, NetcdfWritten
    <3> QED BY <3>2 DEF Puts
  <2> QED BY <1>4, <2>1, <2>2 DEF WriteCall
<1>5. ASSUME NEW s \in BOOLEAN, ChooseSparse(s) PROVE WriterTyped'
  BY <1>5 DEF ChooseSparse
<1>6. CASE CloseTarget \/ DropWriter
  BY <1>6 DEF CloseTarget, DropWriter
<1> QED BY <1>1, <1>2, <1>3, <1>4, <1>5, <1>6 DEF WriterStep, OpenTarget

LEMMA WriterOwner ==
  ASSUME TypeOK, WriterTyped, OwnerReads, OwnerWrites, WriterStep
  PROVE  OwnerReads' /\ OwnerWrites'
<1>1. /\ UNCHANGED <<filename, open, filetype, handle, currentSnap, numSnaps, numNodes, meta,
                     times, varids, records, disturbed>>
      /\ ret # "crash"
  BY WriterForms DEF reader, cursor, header, store
<1>2. open => D' = D
  BY WriterTouches
<1>3. OwnerReads'
  BY <1>1, <1>2 DEF OwnerReads, Describes
<1>4. ASSUME Rested PROVE OwnerWrites'
  BY <1>1, <1>4 DEF Rested, OwnerWrites, WriterTyped
<1>5. ASSUME Started PROVE OwnerWrites'
  BY <1>1, <1>5 DEF Started, OwnerWrites
<1>6. ASSUME NEW i \in DOMAIN records, Wrote(records[i]) PROVE OwnerWrites'
  <2>1. records[i] \in OutputRecord
    BY LenProperties, ElementOfSeq DEF TypeOK
  <2>2. Puts(records[i])
    BY <1>6, <2>1, AsciiWritten, NetcdfWritten DEF Wrote
  <2> QED BY <1>1, <2>2 DEF Puts, OwnerWrites
<1> QED BY <1>3, <1>4, <1>5, <1>6, WriterForms

(* No reader is below the file of a session with a stream. *)
LEMMA NobodyStands ==
  ASSUME OwnerReads', OwnerWrites', wopen', NEW at
  PROVE  Stands(at)'
BY DEF OwnerReads, OwnerWrites, Stands

LEMMA RestedKeeps ==
  ASSUME TypeOK, WriterTyped, UNCHANGED reader, ret # "crash", Rested,
         Shaped, MadeAscii, MadeNetcdf, ReadBack
  PROVE  Shaped' /\ MadeAscii' /\ MadeNetcdf' /\ ReadBack'
<1>1. /\ disk' = disk
      /\ made'.file = made.file /\ made'.snaps = made.snaps /\ (made'.sound => made.sound)
      /\ \/ ~wopen' /\ stream' = "closed"
         \/ UNCHANGED <<target, wopen, varidsOut, numWritten>>
  BY DEF Rested
<1>2. UNCHANGED <<filename, handle, currentSnap, meta, records, disturbed>>
  BY DEF reader, cursor, header, store
<1>3. M' = M
  BY <1>1 DEF M
<1>4. Shaped'
  <2> SUFFICES ASSUME wopen', made'.sound PROVE Shaped'
    BY DEF Shaped
  <2>1. UNCHANGED <<target, wopen, varidsOut, numWritten, meta>> /\ made.sound
    BY <1>1, <1>2
  <2>2. T' = T /\ IsNetcdf' = IsNetcdf
    BY <1>1, <2>1 DEF T, IsNetcdf
  <2> QED BY <1>1, <2>1, <2>2 DEF Shaped
<1>5. \A at : Stands(at) => Stands(at)'
  BY <1>1, <1>2 DEF Stands
<1>6. MadeAscii'
  <2> SUFFICES ASSUME made'.sound, made'.file \in Targets \ NcTargets PROVE MadeAscii'
    BY DEF MadeAscii
  <2>1. /\ M.format \in AsciiFormats \cup {"unknown"} /\ ~M.cut
        /\ \E at \in [1..(Len(made.snaps) + 1) -> 1..(Len(M.lines) + 1)] :
             Laid(M, made.snaps, at) /\ Stands(at)
    BY <1>1 DEF MadeAscii
  <2> QED BY <1>1, <1>3, <1>5, <2>1 DEF MadeAscii
<1>7. MadeNetcdf'
  BY <1>1, <1>3 DEF MadeNetcdf
<1>8. ReadBack'
  BY <1>1, <1>2 DEF ReadBack, ReadBackOf
<1> QED BY <1>4, <1>6, <1>7, <1>8

LEMMA StartedKeeps ==
  ASSUME TypeOK, WriterTyped, UNCHANGED reader, OwnerReads', OwnerWrites', Started
  PROVE  Shaped' /\ MadeAscii' /\ MadeNetcdf' /\ ReadBack'
<1>1. /\ target \in Files /\ target' = target /\ wopen' /\ numWritten' = numWritten
      /\ made'.file = target /\ made'.snaps = <<>>
      /\ IsNetcdf => /\ varidsOut' = varidsOut \o NetcdfVars
                     /\ made'.sound => numWritten = 0 /\ varidsOut = <<>>
  BY TargetTyped DEF Started
<1>2. meta' = meta /\ records' = records /\ IsNetcdf' = IsNetcdf
  BY <1>1 DEF reader, header, store, IsNetcdf
<1>3. PICK f \in FileDesc : f = IF IsNetcdf THEN NetcdfFile ELSE AsciiFile
  BY AsciiFileTyped, NetcdfFileTyped
<1>4. M' = f /\ T' = f
  BY <1>1, <1>3, StartedTyped DEF M, T
<1>5. /\ f.lines = <<>> /\ Len(<<>>) = 0 /\ Len(f.lines) = 0 /\ Len(made'.snaps) = 0
  BY <1>1, <1>3, AsciiFileTyped, NetcdfFileTyped, EmptySeq
<1>6. Shaped'
  <2>1. CASE IsNetcdf
    <3>1. made'.sound => varidsOut' = NetcdfVars
      BY <1>1, <2>1, NetcdfFileTyped, ConcatEmptySeq
    <3>2. f.vars = NetcdfVars /\ Len(NetcdfVars) = meta.dim /\ f.max = meta.max
      BY <1>3, <2>1, NetcdfFileTyped
    <3>3. made'.sound => numWritten' = Len(made'.snaps)
      BY <1>1, <1>5, <2>1
    <3> QED BY <1>2, <1>4, <2>1, <3>1, <3>2, <3>3 DEF Shaped
  <2>2. CASE ~IsNetcdf
    <3>1. f.vector = (meta.dim = 2)
      BY <1>3, <2>2, AsciiFileTyped
    <3> QED BY <1>2, <1>4, <2>2, <3>1 DEF Shaped
  <2> QED BY <2>1, <2>2
<1>7. MadeAscii'
  <2> SUFFICES ASSUME made'.file \in Targets \ NcTargets PROVE MadeAscii'
    BY DEF MadeAscii
  <2>1. ~IsNetcdf
    BY <1>1 DEF IsNetcdf
  <2>2. f.format = "unknown" /\ ~f.cut
    BY <1>3, <2>1, AsciiFileTyped
  <2>3. PICK at : at = [j \in 1..1 |-> 1]
    OBVIOUS
  <2>4. at \in [1..(0 + 1) -> 1..(0 + 1)] /\ at[1] = 1 /\ at[0 + 1] = 0 + 1
    BY <2>3
  <2>5. Laid(f, made'.snaps, at)
    BY <1>5, <2>4 DEF Laid
  <2>6. Stands(at)'
    BY <1>1, NobodyStands
  <2>7. /\ at \in [1..(Len(made'.snaps) + 1) -> 1..(Len(f.lines) + 1)]
        /\ Laid(f, made'.snaps, at) /\ Stands(at)'
    BY <1>5, <2>4, <2>5, <2>6
  <2> QED BY <1>4, <2>2, <2>7 DEF MadeAscii
<1>8. MadeNetcdf'
  <2> SUFFICES ASSUME made'.file \in NcTargets PROVE MadeNetcdf'
    BY DEF MadeNetcdf
  <2>1. IsNetcdf
    BY <1>1 DEF IsNetcdf
  <2>2. f.format = "netcdf4" /\ f.vars = NetcdfVars /\ f.dim = meta.dim /\ f.snaps = 0
        /\ Len(NetcdfVars) = meta.dim
    BY <1>3, <2>1, NetcdfFileTyped
  <2> QED BY <1>4, <1>5, <2>2 DEF MadeNetcdf
<1>9. ReadBack'
  <2>1. \A i \in DOMAIN records' : records'[i].holds.file # made'.file
    BY <1>1, <1>2 DEF Started, Held
  <2> QED BY <2>1 DEF ReadBack, ReadBackOf
<1> QED BY <1>6, <1>7, <1>8, <1>9

(* A record that was not refused lies behind those written before it. *)
LEMMA BlockIsRecord ==
  ASSUME TypeOK, WriterTyped, NEW r \in OutputRecord, NEW n \in Nat, ~Throws(r, n),
         ~sparse => n = T.nodes, meta.dim = 2 => T.vector,
         NEW B, B = Block(r, TRUE, n)
  PROVE  B \in Seq(Line) /\ IsRecord(T, B, Len(B), n, r.holds.snap)
<1>1. /\ B \in Seq(Line) /\ n + 1 <= Len(B)
      /\ B[1].kind = (IF sparse THEN "sparse" ELSE "full")
      /\ B[1].count = (IF sparse THEN n ELSE 0)
      /\ \A i \in 1..Len(B) : B[i].snap = r.holds.snap
      /\ Len(B) = n + 1 \/ (0 < n /\ meta.dim = 2 /\ B[2].kind = "scalar")
  BY BlockLaid
<1>2. B[1].kind \in RecordHeads
  BY <1>1 DEF RecordHeads
<1>3. n = IF B[1].kind = "full" THEN T.nodes ELSE B[1].count
  BY <1>1 DEF WriterTyped
<1>4. Len(B) = n + 1 \/ (T.vector /\ 0 < n /\ B[2].kind = "scalar")
  BY <1>1, Zenon
<1> QED BY <1>1, <1>2, <1>3, <1>4, Zenon DEF IsRecord

LEMMA AsciiKeeps ==
  ASSUME TypeOK, WriterTyped, OwnerWrites, OwnerReads', OwnerWrites',
         Shaped, MadeAscii, UNCHANGED reader,
         NEW r \in OutputRecord, WriteAscii(r, TRUE)
  PROVE  Shaped' /\ MadeAscii' /\ MadeNetcdf'
<1>1. ~IsNetcdf /\ Puts(r) /\ (made'.sound => PutsBlock(r))
  BY AsciiWritten
<1>2. /\ target \in Files /\ target \in Targets \ NcTargets /\ wopen /\ wopen'
      /\ target' = target /\ made'.file = made.file /\ made.file = target
      /\ made'.sound => made.sound /\ made'.snaps = Append(made.snaps, r.holds.snap)
  BY <1>1, TargetTyped DEF Puts, OwnerWrites, IsNetcdf
<1>3. M = T /\ M' = disk'[target] /\ T' = disk'[target] /\ ~IsNetcdf'
  BY <1>1, <1>2 DEF M, T, IsNetcdf
<1>4. MadeNetcdf'
  BY <1>2 DEF MadeNetcdf
<1>5. SUFFICES ASSUME made'.sound PROVE Shaped' /\ MadeAscii'
  BY <1>4 DEF Shaped, MadeAscii
<1>6. PICK n \in Nat : /\ ~Throws(r, n)
                       /\ ~sparse => n = T.nodes
                       /\ disk'[target] = Extended(Block(r, TRUE, n))
  BY <1>1, <1>5 DEF PutsBlock
<1>7. PICK B : B = Block(r, TRUE, n)
  OBVIOUS
<1>8. meta' = meta
  BY DEF reader, header
<1>9. meta.dim = 2 => T.vector
  BY <1>1, <1>2, <1>5 DEF Shaped
<1>10. B \in Seq(Line) /\ IsRecord(T, B, Len(B), n, r.holds.snap)
  BY <1>6, <1>7, <1>9, BlockIsRecord
<1>11. PICK g : g = Extended(B)
  OBVIOUS
<1>12. /\ g \in FileDesc /\ Grown(T, g, B) /\ g.cut = T.cut
       /\ g.format \in {T.format, "asciiSparse", "asciiFull"}
  BY <1>1, <1>10, <1>11, ExtendedTyped DEF Puts
<1>13. M' = g /\ T' = g
  BY <1>3, <1>6, <1>7, <1>11
<1>14. Shaped'
  <2>1. g.vector = T.vector
    BY <1>12 DEF Grown
  <2> QED BY <1>3, <1>8, <1>9, <1>13, <2>1 DEF Shaped
<1>15. /\ T.format \in AsciiFormats \cup {"unknown"} /\ ~T.cut
       /\ \E at : Laid(T, made.snaps, at)
  BY <1>2, <1>3, <1>5 DEF MadeAscii
<1>16. PICK at : Laid(T, made.snaps, at)
  BY <1>15
<1>17. PICK k \in Nat \cup {Garbled} : k = r.holds.snap
  BY HeadTyped
<1>18. T \in FileDesc /\ made.snaps \in Seq(Nat \cup {Garbled})
  <2>1. target # NoWriter
    BY <1>1 DEF Puts
  <2> QED BY <2>1, TargetTyped DEF WriterTyped, Makings
<1>19. PICK to : to = Behind(at, Len(made.snaps), Len(g.lines) + 1)
  OBVIOUS
<1>20. Laid(g, Append(made.snaps, k), to)
  BY <1>10, <1>12, <1>16, <1>17, <1>18, <1>19, LaidExtended
<1>21. Laid(g, made'.snaps, to) /\ Stands(to)'
  BY <1>2, <1>5, <1>17, <1>20, NobodyStands
<1>22. to \in [1..(Len(made'.snaps) + 1) -> 1..(Len(g.lines) + 1)]
  BY <1>21 DEF Laid
<1>23. g.format \in AsciiFormats \cup {"unknown"} /\ ~g.cut
  BY <1>12, <1>15 DEF AsciiFormats
<1>24. MadeAscii'
  BY <1>13, <1>21, <1>22, <1>23 DEF MadeAscii
<1> QED BY <1>14, <1>24

LEMMA NetcdfKeeps ==
  ASSUME TypeOK, WriterTyped, OwnerWrites, Shaped, MadeNetcdf, UNCHANGED reader,
         NEW r \in OutputRecord, WriteNetcdf(r)
  PROVE  Shaped' /\ MadeAscii' /\ MadeNetcdf'
<1>1. IsNetcdf /\ Puts(r) /\ disk'[target] = WithSlab(r) /\ numWritten' = numWritten + 1
  BY NetcdfWritten
<1>2. /\ target \in Files /\ target # NoWriter /\ target \in NcTargets /\ wopen /\ wopen'
      /\ target' = target /\ varidsOut' = varidsOut
      /\ made'.file = made.file /\ made.file = target
      /\ made'.sound => /\ made.sound /\ r.nodes = T.nodes
                        /\ made'.snaps = Append(made.snaps, r.holds.snap)
  BY <1>1, TargetTyped DEF Puts, OwnerWrites, IsNetcdf
<1>3. M = T /\ M' = WithSlab(r) /\ T' = WithSlab(r) /\ IsNetcdf'
  BY <1>1, <1>2 DEF M, T, IsNetcdf
<1>4. MadeAscii'
  BY <1>2 DEF MadeAscii
<1>5. SUFFICES ASSUME made'.sound PROVE Shaped' /\ MadeNetcdf'
  BY <1>4 DEF Shaped, MadeNetcdf
<1>6. /\ WithSlab(r).lines = Slabs(r) /\ WithSlab(r).snaps = Len(Slabs(r))
      /\ WithSlab(r).format = T.format /\ WithSlab(r).vars = T.vars
      /\ WithSlab(r).dim = T.dim /\ WithSlab(r).max = T.max
      /\ Slabs(r) \in Seq(Line)
  BY <1>2, SlabsTyped
<1>7. PICK s \in Nat : s = Len(made.snaps)
  BY LenProperties DEF WriterTyped, Makings
<1>8. /\ T.vars = varidsOut /\ Len(varidsOut) = meta.dim /\ T.max = meta.max
      /\ numWritten = s
  BY <1>1, <1>2, <1>5, <1>7 DEF Shaped
<1>9. /\ Len(made'.snaps) = s + 1
      /\ \A i \in 1..s : made'.snaps[i] = made.snaps[i]
      /\ made'.snaps[s + 1] = r.holds.snap
  <2>1. made.snaps \in Seq(Nat \cup {Garbled}) /\ r.holds.snap \in Nat \cup {Garbled}
    BY HeadTyped DEF WriterTyped, Makings
  <2>2. PICK k \in Nat \cup {Garbled} : k = r.holds.snap
    BY <2>1
  <2> QED BY <1>2, <1>5, <1>7, <2>1, <2>2, AppendProperties
<1>10. /\ T.format = "netcdf4" /\ Len(T.vars) = T.dim
       /\ ~T.max => /\ Len(T.lines) = s
                    /\ \A i \in 1..s : T.lines[i].snap = made.snaps[i]
  BY <1>2, <1>3, <1>5, <1>7 DEF MadeNetcdf
<1>11. Shaped'
  <2>1. meta' = meta /\ numWritten' = Len(made'.snaps)
    BY <1>1, <1>8, <1>9 DEF reader, header
  <2> QED BY <1>2, <1>3, <1>6, <1>8, <2>1 DEF Shaped
<1>12. ASSUME ~T.max
       PROVE  /\ Len(Slabs(r)) = s + 1
              /\ \A i \in 1..(s + 1) : Slabs(r)[i].snap = made'.snaps[i]
  <2>1. SlabKept(r)
    <3>1. meta.dim \in Nat /\ r.meta = meta
      BY <1>1, <1>5 DEF Puts, TypeOK, Metadata
    <3>2. ~Lacks(r)
      BY <3>1 DEF Lacks
    <3> QED BY <1>2, <1>5, <1>8, <1>12, <3>2, WholeListKept DEF SlabKept
  <2>2. /\ Len(Slabs(r)) = s + 1
        /\ \A i \in 1..s : Slabs(r)[i] = T.lines[i]
        /\ Slabs(r)[s + 1].snap = r.holds.snap
    BY <1>2, <1>8, <1>10, <1>12, <2>1, SlabAdded
  <2>3. ASSUME NEW i \in 1..(s + 1) PROVE Slabs(r)[i].snap = made'.snaps[i]
    <3>1. i = s + 1 \/ i \in 1..s
      OBVIOUS
    <3> QED BY <1>9, <1>10, <1>12, <2>2, <3>1
  <2> QED BY <2>2, <2>3
<1>13. MadeNetcdf'
  <2>1. /\ M'.format = "netcdf4" /\ Len(M'.vars) = M'.dim /\ M'.snaps = Len(M'.lines)
    BY <1>3, <1>6, <1>10
  <2>2. ~M'.max => /\ Len(M'.lines) = Len(made'.snaps)
                   /\ \A i \in 1..Len(made'.snaps) : M'.lines[i].snap = made'.snaps[i]
    BY <1>3, <1>6, <1>9, <1>12
  <2> QED BY <2>1, <2>2, Zenon DEF MadeNetcdf
<1> QED BY <1>11, <1>13

LEMMA WroteReadsBack ==
  ASSUME TypeOK, WriterTyped, OwnerWrites, UNCHANGED reader, MadeAscii, MadeNetcdf,
         ReadBack, NEW r \in OutputRecord, Wrote(r)
  PROVE  ReadBack'
<1>1. Puts(r)
  BY AsciiWritten, NetcdfWritten DEF Wrote
<1>2. /\ target \in Files /\ made'.file = made.file /\ made.file = target
      /\ made'.sound => made.sound /\ made'.snaps = Append(made.snaps, r.holds.snap)
  BY <1>1, TargetTyped DEF Puts, OwnerWrites
<1>3. SUFFICES ASSUME made'.sound, ~disturbed, ~disk'[target].max,
                      NEW i \in DOMAIN records, records[i].whole,
                      records[i].holds.file = target
               PROVE  /\ records[i].id < Len(made'.snaps)
                      /\ records[i].holds.snap = made'.snaps[records[i].id + 1]
  BY <1>2 DEF ReadBack, ReadBackOf, reader, store
<1>4. ~disk[target].max
  <2>1. CASE WriteAscii(r, TRUE)
    <3>1. PICK n \in Nat : disk'[target] = Extended(Block(r, TRUE, n))
      BY <1>3, <2>1, AsciiWritten DEF PutsBlock
    <3>2. Block(r, TRUE, n) \in Seq(Line)
      BY BlockTyped
    <3>3. Extended(Block(r, TRUE, n)).max = T.max
      BY <1>1, <3>2, ExtendedTyped DEF Puts
    <3> QED BY <1>3, <3>1, <3>3 DEF T
  <2>2. CASE WriteNetcdf(r)
    <3>1. disk'[target] = WithSlab(r)
      BY <2>2, NetcdfWritten
    <3>2. WithSlab(r).max = T.max
      BY <1>1, SlabsTyped DEF Puts
    <3> QED BY <1>3, <3>1, <3>2 DEF T
  <2> QED BY <2>1, <2>2 DEF Wrote
<1>5. records[i] \in OutputRecord
  BY LenProperties, ElementOfSeq DEF TypeOK
<1>6. PICK id \in Nat : id = records[i].id
  BY <1>5 DEF OutputRecord
<1>7. target # NoWriter
  BY <1>1 DEF Puts
<1>8. id < Len(made.snaps) /\ records[i].holds.snap = made.snaps[id + 1]
  BY <1>2, <1>3, <1>4, <1>6, <1>7 DEF ReadBack, ReadBackOf
<1>9. PICK s \in Nat : s = Len(made.snaps)
  BY LenProperties DEF WriterTyped, Makings
<1>10. /\ Len(made'.snaps) = s + 1
       /\ \A j \in 1..s : made'.snaps[j] = made.snaps[j]
  <2>1. made.snaps \in Seq(Nat \cup {Garbled}) /\ r.holds.snap \in Nat \cup {Garbled}
    BY HeadTyped DEF WriterTyped, Makings
  <2>2. PICK k \in Nat \cup {Garbled} : k = r.holds.snap
    BY <2>1
  <2> QED BY <1>2, <1>3, <1>9, <2>1, <2>2, AppendProperties
<1>11. id + 1 \in 1..s /\ id < s + 1
  BY <1>8, <1>9
<1> QED BY <1>6, <1>8, <1>10, <1>11

LEMMA WriterKeeps ==
  ASSUME RoundInvariant, WriterStep
  PROVE  RoundInvariant'
<1> USE DEF RoundInvariant
<1>1. TypeOK' /\ WriterTyped' /\ OwnerReads' /\ OwnerWrites'
  BY WriterTouches, WriterTypedKept, WriterOwner
<1>2. /\ UNCHANGED reader /\ ret # "crash"
      /\ \/ Rested \/ Started
         \/ \E i \in DOMAIN records : records[i].whole /\ Wrote(records[i])
  BY WriterForms
<1>3. CASE Rested
  BY <1>1, <1>2, <1>3, RestedKeeps
<1>4. CASE Started
  BY <1>1, <1>2, <1>4, StartedKeeps
<1>5. ASSUME NEW i \in DOMAIN records, Wrote(records[i])
      PROVE  RoundInvariant'
  <2>1. records[i] \in OutputRecord
    BY LenProperties, ElementOfSeq DEF TypeOK
  <2>2. Shaped' /\ MadeAscii' /\ MadeNetcdf'
    BY <1>1, <1>2, <1>5, <2>1, AsciiKeeps, NetcdfKeeps DEF Wrote
  <2>3. ReadBack'
    BY <1>2, <1>5, <2>1, WroteReadsBack
  <2> QED BY <1>1, <2>2, <2>3
<1> QED BY <1>2, <1>3, <1>4, <1>5

LEMMA NewReaderKeeps ==
  ASSUME RoundInvariant, NewReader
  PROVE  RoundInvariant'
<1> USE DEF RoundInvariant
<1>1. /\ target = NoWriter /\ Replaced /\ UNCHANGED writer
  BY DEF NewReader
<1>2. TypeOK' /\ WriterTyped'
  BY <1>1, ReplacedTyped DEF WriterTyped, writer
<1>3. /\ disk' = disk /\ handle' = Closed /\ ~open' /\ currentSnap' = 0
      /\ records' = <<>> /\ UNCHANGED <<target, wopen, stream, made, varidsOut, numWritten>>
      /\ ~wopen
  BY <1>1 DEF Replaced, writer, OwnerWrites
<1>4. M' = M
  BY <1>3 DEF M
<1>5. OwnerReads' /\ OwnerWrites' /\ Shaped'
  BY <1>3 DEF OwnerReads, OwnerWrites, Shaped
<1>6. \A at : Stands(at)'
  BY <1>3 DEF Stands
<1>7. MadeAscii' /\ MadeNetcdf'
  BY <1>3, <1>4, <1>6 DEF MadeAscii, MadeNetcdf
<1>8. ReadBack'
  <2>1. DOMAIN records' = {}
    BY <1>3
  <2> QED BY <2>1 DEF ReadBack
<1> QED BY <1>2, <1>5, <1>7, <1>8

-----------------------------------------------------------------------------
(* The reader's steps. *)

LEMMA ReaderOwns ==
  ASSUME TypeOK, OwnerReads, [Call]_vars
  PROVE  OwnerReads'
<1> USE DEF OwnerReads
<1>1. CASE Quiet
  <2>1. /\ UNCHANGED <<disk, filename, open, filetype, handle, currentSnap, numSnaps, numNodes,
                      meta, times, varids, disturbed>>
        /\ ret' # "crash" => ret # "crash"
    BY <1>1 DEF Quiet, cursor, header
  <2>2. D' = D
    BY <2>1 DEF D
  <2> QED BY <2>1, <2>2 DEF Describes
<1>2. CASE Failed
  BY <1>2 DEF Failed, D
<1>3. CASE Renamed
  BY <1>3 DEF Renamed
<1>4. CASE OpenUnknown
  BY <1>4 DEF OpenUnknown, Throw, Running, D
<1>5. CASE OpenAscii
  <2>1. /\ D' = D /\ D.format \in AsciiFormats /\ open' /\ filetype' = D.format
    BY <1>5 DEF OpenAscii, OpenCommon, Running, D
  <2>2. ~disturbed' => numNodes' = D.nodes /\ meta'.vector = D.vector
    BY <1>5 DEF OpenAscii, Throw, Return, TypeOK, Metadata
  <2>3. ~disturbed' => Describes'
    BY <2>1, <2>2 DEF Describes, AsciiFormats, NetcdfFormats
  <2> QED BY <2>1, <2>3
<1>6. CASE OpenNetcdf
  <2>1. /\ D' = D /\ D.format \in NetcdfFormats /\ open' /\ filetype' = D.format
    BY <1>6 DEF OpenNetcdf, OpenCommon, Running, D
  <2>2. D.vars \in Seq(Nat) /\ varids \in Seq(Nat)
    BY FileTyped DEF FileDesc, TypeOK
  <2>3. Len(varids \o D.vars) = Len(varids) + Len(D.vars) /\ Len(varids) \in Nat
        /\ Len(D.vars) \in Nat
    BY <2>2, ConcatProperties, LenProperties
  <2>4. ~disturbed' /\ ret' # "crash" =>
          /\ D.vars # <<>> /\ times' = D.snaps /\ varids' = varids \o D.vars
          /\ meta' = [vector |-> D.vector, max |-> D.max,
                      dim |-> IF Len(D.vars) = 1 THEN 1 ELSE D.dim]
    BY <1>6 DEF OpenNetcdf, Throw, Abort, Return
  <2>5. ~disturbed' /\ ret' # "crash" =>
          /\ D.vars # <<>> /\ times' = D.snaps /\ Len(D.vars) <= Len(varids')
          /\ meta'.max = D.max /\ meta'.dim = IF Len(D.vars) = 1 THEN 1 ELSE D.dim
    BY <2>3, <2>4
  <2>6. ~disturbed' /\ ret' # "crash" => Describes'
    BY <2>1, <2>5 DEF Describes, AsciiFormats, NetcdfFormats
  <2> QED BY <2>1, <2>6
<1>7. CASE CloseFile
  BY <1>7 DEF CloseFile
<1>8. CASE ReadAsciiRecord
  <2>1. /\ open /\ ret # "crash"
        /\ UNCHANGED <<disk, filename, open, filetype, numSnaps, numNodes, meta, times, varids,
                       disturbed>>
    BY <1>8 DEF ReadAsciiRecord, AtRecord, ReadingAscii, Reading, Running, Keep, Return, header
  <2> QED BY <2>1 DEF Describes, D
<1>9. CASE ReadAsciiCrash
  BY <1>9 DEF ReadAsciiCrash, AtRecord, ReadingAscii, Reading, Running, Abort, D
<1>10. ASSUME NEW s \in AnyRequest, ReadNetcdfRecord(s) PROVE OwnerReads'
  <2>1. /\ open /\ ret # "crash"
        /\ UNCHANGED <<disk, filename, open, filetype, handle, numSnaps, numNodes, meta, times,
                       varids, disturbed>>
    BY <1>10 DEF ReadNetcdfRecord, InFile, ReadingNetcdf, Reading, Running, Keep, Return, header
  <2> QED BY <2>1 DEF Describes, D
<1>11. ASSUME NEW s \in AnyRequest, ReadNetcdfCrash(s) PROVE OwnerReads'
  BY <1>11 DEF ReadNetcdfCrash, ReadingNetcdf, Reading, Running, Abort, D
<1>12. ASSUME NEW k \in Cursors, SetCurrentSnap(k) PROVE OwnerReads'
  BY <1>12 DEF SetCurrentSnap, Running, D
<1> QED BY <1>1, <1>2, <1>3, <1>4, <1>5, <1>6, <1>7, <1>8, <1>9, <1>10, <1>11, <1>12, Calls

LEMMA OpensElsewhere ==
  ASSUME ReaderStep, open'
  PROVE  \/ UNCHANGED <<open, filename>>
         \/ filename' = filename /\ (wopen => filename # target)
<1>1. CASE (wopen => filename # target) /\ OpenCall
  BY <1>1 DEF OpenCall, OpenRefused, OpenUnknown, OpenAscii, OpenNetcdf, OpenCommon, cursor
<1>2. CASE CloseCall
  BY <1>2 DEF CloseCall, CloseRefused, CloseFile, cursor
<1>3. ASSUME NEW s, ReadCall(s) PROVE UNCHANGED <<open, filename>>
  BY <1>3 DEF ReadCall, ReadUnknown, ReadAsciiPastLast, ReadAsciiRecord, ReadAsciiNoHeader,
     ReadAsciiBadValue, ReadAsciiCrash, ReadNetcdfPastLast, ReadNetcdfRecord, ReadNetcdfError,
     ReadNetcdfCrash, ReadingAscii, ReadingNetcdf, Reading, cursor
<1>4. ASSUME NEW f, SetFilename(f) PROVE UNCHANGED <<open, filename>>
  BY <1>4 DEF SetFilename, cursor
<1> QED BY <1>1, <1>2, <1>3, <1>4 DEF ReaderStep

(* A record read below a record's head is that record, and the next begins *)
(* where the stream then stands.                                           *)
LEMMA LaidRead ==
  ASSUME TypeOK, OwnerReads, ~disturbed, ~D.cut, ReadAsciiRecord,
         NEW next \in Nat, NEW k, next <= Len(D.lines) + 1,
         RecordAt(D, Top, next, k)
  PROVE  /\ Keep(currentSnap, [file |-> filename, snap |-> k, vars |-> <<>>])
         /\ handle' + 1 = next
<1>1. PICK n \in Announced(D.lines[Top]) :
        /\ \A i \in (Top + 1)..(Top + n) : ~Rejects(i)
        /\ handle' = Consumed(Top + n)
        /\ Keep(currentSnap, [file |-> filename, snap |-> SnapRead(n), vars |-> <<>>])
  BY DEF ReadAsciiRecord
<1>2. /\ handle \in Nat /\ handle < Len(D.lines) /\ ret # "crash" /\ filetype \in AsciiFormats
  BY DEF ReadAsciiRecord, AtRecord, ReadingAscii, Reading, Running, TypeOK
<1>3. numNodes = D.nodes /\ meta.vector = D.vector /\ numNodes \in Nat
  BY <1>2 DEF OwnerReads, Describes, TypeOK, Closed, ReadAsciiRecord, AtRecord
<1>4. PICK m \in Nat : m = Len(D.lines)
  BY FileTyped, LenProperties DEF FileDesc
<1>5. PICK t \in 1..m : t = Top
  BY <1>2, <1>4 DEF Top
<1>6. D.lines[t] \in Line
  BY <1>4, FileTyped, ElementOfSeq DEF FileDesc
<1>7. PICK v \in Nat : v = ValueLines(D, t)
  BY <1>3, <1>6 DEF ValueLines, Line
<1>8. /\ D.lines[t].kind \in RecordHeads
      /\ \A j \in t..(next - 1) : D.lines[j].snap = k
      /\ t < next /\ t + v < next
      /\ next = t + v + 1 \/ (D.vector /\ 0 < v /\ D.lines[t + 1].kind = "scalar")
  BY <1>5, <1>7 DEF RecordAt
<1>9. n = v
  BY <1>1, <1>3, <1>5, <1>7, <1>8 DEF Announced, Overruns, ValueLines, RecordHeads
<1>10. next = t + v + 1
  <2> SUFFICES ASSUME D.vector, 0 < v, D.lines[t + 1].kind = "scalar" PROVE FALSE
    BY <1>8
  <2>1. t + 1 \in (Top + 1)..(Top + n) /\ t + 1 <= Len(D.lines)
    BY <1>4, <1>5, <1>8, <1>9
  <2>2. Rejects(t + 1)
    BY <1>3, <2>1, Zenon DEF Rejects, LineAt
  <2> QED BY <1>1, <2>1, <2>2
<1>11. t + v <= m
  BY <1>4, <1>10
<1>12. handle' + 1 = next
  BY <1>1, <1>4, <1>5, <1>9, <1>10, <1>11 DEF Consumed
<1>13. ~D.cut => SnapRead(n) = k
  <2> SUFFICES ASSUME ~D.cut PROVE SnapRead(n) = k
    OBVIOUS
  <2>1. \A i \in t..(t + v) : D.lines[i].snap = k
    BY <1>8, <1>10
  <2>2. D.lines[t].snap = k
    BY <2>1
  <2>3. Top + n <= Len(D.lines)
    BY <1>4, <1>5, <1>9, <1>11
  <2> QED BY <1>5, <1>8, <1>9, <2>1, <2>2, <2>3 DEF SnapRead
<1> QED BY <1>1, <1>12, <1>13

(* The reader of the session's file stands before a record, so it reads it. *)
LEMMA NextRead ==
  ASSUME TypeOK, WriterTyped, OwnerReads, ~disturbed, ReadAsciiRecord,
         filename = made.file, ~M.cut, NEW at, Laid(M, made.snaps, at), Stands(at)
  PROVE  /\ currentSnap < Len(made.snaps)
         /\ Keep(currentSnap, [file |-> filename, snap |-> made.snaps[currentSnap + 1],
                               vars |-> <<>>])
         /\ handle' + 1 = at[currentSnap + 2]
<1>1. /\ handle \in Nat /\ handle # Closed /\ handle < Len(D.lines) /\ ret # "crash"
  BY DEF ReadAsciiRecord, AtRecord, ReadingAscii, Reading, Running, TypeOK
<1>2. M = D
  BY DEF M, D
<1>3. PICK c \in Nat : c = currentSnap
  BY DEF TypeOK
<1>4. PICK s \in Nat : s = Len(made.snaps)
  BY LenProperties DEF WriterTyped, Makings
<1>5. PICK m \in Nat : m = Len(D.lines)
  BY FileTyped, LenProperties DEF FileDesc
<1>6. /\ at \in [1..(s + 1) -> 1..(m + 1)] /\ at[s + 1] = m + 1
      /\ \A j \in 1..s : RecordAt(D, at[j], at[j + 1], made.snaps[j])
  BY <1>2, <1>4, <1>5 DEF Laid
<1>7. c <= s /\ handle + 1 = at[c + 1]
  BY <1>1, <1>3, <1>4 DEF Stands
<1>8. c # s
  BY <1>1, <1>5, <1>6, <1>7
<1>9. PICK j \in 1..s : j = c + 1
  BY <1>7, <1>8
<1>10. j \in 1..(s + 1) /\ j + 1 \in 1..(s + 1) /\ j + 1 = c + 2
  BY <1>9
<1>11. PICK next \in 1..(m + 1) : next = at[j + 1]
  BY <1>6, <1>10
<1>12. RecordAt(D, Top, next, made.snaps[j])
  BY <1>6, <1>7, <1>9, <1>11 DEF Top
<1>13. next \in Nat /\ next <= Len(D.lines) + 1
  BY <1>5
<1>14. /\ Keep(currentSnap, [file |-> filename, snap |-> made.snaps[j], vars |-> <<>>])
       /\ handle' + 1 = next
  BY <1>2, <1>12, <1>13, LaidRead
<1>15. c < s
  BY <1>7, <1>8
<1> QED BY <1>3, <1>4, <1>9, <1>10, <1>11, <1>14, <1>15

LEMMA StandsKept ==
  ASSUME TypeOK, WriterTyped, OwnerReads, [Call]_vars, UNCHANGED disk,
         made'.file = made.file, made'.snaps = made.snaps,
         made.file \in Files, M.format \in AsciiFormats \cup {"unknown"}, ~M.cut,
         NEW at, Laid(M, made.snaps, at), Stands(at)
  PROVE  Stands(at)'
<1>1. SUFFICES ASSUME ~disturbed', ret' # "crash", handle' # Closed, filename' = made.file
               PROVE  /\ currentSnap' <= Len(made.snaps)
                      /\ handle' + 1 = at[currentSnap' + 1]
  BY DEF Stands
<1>2. PICK s \in Nat : s = Len(made.snaps)
  BY LenProperties DEF WriterTyped, Makings
<1>3. CASE Quiet
  BY <1>1, <1>3 DEF Quiet, cursor, header, Stands
<1>4. CASE Failed
  BY <1>1, <1>4 DEF Failed
<1>5. CASE Renamed
  BY <1>1, <1>5 DEF Renamed, OwnerReads
<1>6. CASE OpenUnknown
  BY <1>1, <1>6 DEF OpenUnknown, Throw
<1>7. CASE OpenAscii \/ OpenNetcdf
  <2>1. /\ ~open /\ handle' \in {Closed, 0} /\ currentSnap' = currentSnap
        /\ disturbed' = disturbed
    BY <1>1, <1>7 DEF OpenAscii, OpenNetcdf, OpenCommon, Throw, Return, Abort
  <2>2. currentSnap' = 0 /\ handle' = 0
    BY <1>1, <2>1 DEF OwnerReads
  <2>3. at[1] = 1
    BY DEF Laid
  <2> QED BY <1>2, <2>2, <2>3
<1>8. CASE CloseFile
  BY <1>1, <1>8 DEF CloseFile
<1>9. CASE ReadAsciiRecord
  <2>1. /\ ~disturbed /\ filename = made.file
        /\ currentSnap' = currentSnap + 1
    BY <1>1, <1>9 DEF ReadAsciiRecord, ReadingAscii, Reading, Keep, Return
  <2>2. /\ currentSnap < Len(made.snaps)
        /\ handle' + 1 = at[currentSnap + 2]
    BY <1>9, <2>1, NextRead
  <2>3. PICK c \in Nat : c = currentSnap
    BY DEF TypeOK
  <2>4. c + 1 <= s /\ (c + 1) + 1 = c + 2
    BY <1>2, <2>2, <2>3
  <2> QED BY <1>2, <2>1, <2>2, <2>3, <2>4
<1>10. CASE ReadAsciiCrash
  BY <1>1, <1>10 DEF ReadAsciiCrash, Abort
<1>11. ASSUME NEW q \in AnyRequest, ReadNetcdfRecord(q) PROVE FALSE
  <2>1. /\ handle # Closed /\ filetype \in NetcdfFormats /\ filename' = filename
    BY <1>11 DEF ReadNetcdfRecord, InFile, ReadingNetcdf, Reading
  <2>2. D.format \in NetcdfFormats /\ M = D
    BY <1>1, <2>1 DEF OwnerReads, M, D
  <2> QED BY <2>2 DEF AsciiFormats, NetcdfFormats
<1>12. ASSUME NEW q \in AnyRequest, ReadNetcdfCrash(q) PROVE FALSE
  BY <1>1, <1>12 DEF ReadNetcdfCrash, Abort
<1>13. CASE \E k \in Cursors : SetCurrentSnap(k)
  BY <1>1, <1>13 DEF SetCurrentSnap
<1> QED BY <1>3, <1>4, <1>5, <1>6, <1>7, <1>8, <1>9, <1>10, <1>11, <1>12, <1>13, Calls

(* A netCDF record is the slab of its number. *)
LEMMA SlabRead ==
  ASSUME TypeOK, WriterTyped, OwnerReads, ~disturbed, MadeNetcdf,
         filename = made.file, made.sound, made.file \in NcTargets, ~M.max,
         NEW q \in AnyRequest, ReadNetcdfRecord(q)
  PROVE  \E k \in 0..(Len(made.snaps) - 1) :
           /\ k = Wanted(q)
           /\ Keep(k, [file |-> filename, vars |-> VarsRead, snap |-> made.snaps[k + 1]])
<1>1. PICK k \in Nat : k = Wanted(q)
  BY WantedTyped
<1>2. M = D
  BY DEF M, D
<1>3. PICK s \in Nat : s = Len(made.snaps)
  BY LenProperties DEF WriterTyped, Makings
<1>4. /\ D.format = "netcdf4" /\ Len(D.vars) = D.dim
      /\ D.snaps = Len(D.lines) /\ ~D.max /\ Len(D.lines) = s
      /\ \A i \in 1..s : D.lines[i].snap = made.snaps[i]
  BY <1>2, <1>3 DEF MadeNetcdf
<1>5. /\ handle # Closed /\ ret # "crash" /\ open
      /\ meta.max \/ k < D.snaps
  BY <1>1 DEF ReadNetcdfRecord, InFile, ReadingNetcdf, Reading, Running, OwnerReads
<1>6. /\ D.vars # <<>> /\ Len(D.vars) <= Len(varids)
      /\ times = D.snaps /\ meta.max = D.max
      /\ meta.dim = IF Len(D.vars) = 1 THEN 1 ELSE D.dim
  BY <1>4, <1>5 DEF OwnerReads, Describes, NetcdfFormats
<1>7. k < s /\ k < times
  BY <1>4, <1>5, <1>6
<1>8. PICK n \in Nat, ids \in Nat :
        n = Len(D.vars) /\ ids = Len(varids) /\ n = D.dim
  <2>1. D.vars \in Seq(Nat) /\ varids \in Seq(Nat)
    BY FileTyped DEF FileDesc, TypeOK
  <2> QED BY <1>4, <2>1, LenProperties
<1>9. n \in 1..3 /\ n <= ids
  <2>1. n \in 0..3
    BY <1>8, FileTyped DEF FileDesc
  <2>2. n # 0
    BY <1>6, <1>8, FileTyped, EmptySeq, LenProperties DEF FileDesc
  <2> QED BY <1>6, <1>8, <2>1, <2>2
<1>10. meta.dim = n /\ ~meta.max
  BY <1>4, <1>6, <1>8
<1>11. Present
  <2>1. CASE n = 1
    <3>1. Components = <<1>>
      BY <1>10, <2>1 DEF Components
    <3> QED BY <1>8, <1>9, <3>1 DEF Present
  <2>2. CASE n = 2
    <3>1. Components = <<1, 2>>
      BY <1>10, <2>2 DEF Components
    <3> QED BY <1>8, <1>9, <2>2, <3>1 DEF Present
  <2>3. CASE n = 3
    <3>1. Components = <<2, 2, 3>>
      BY <1>10, <2>3 DEF Components
    <3> QED BY <1>8, <1>9, <2>3, <3>1 DEF Present
  <2> QED BY <1>9, <2>1, <2>2, <2>3
<1>12. Slab(k) = made.snaps[k + 1]
  <2>1. D.lines \in Seq(Line)
    BY FileTyped DEF FileDesc
  <2>2. k + 1 \in 1..s /\ DOMAIN D.lines = 1..s
    BY <1>4, <1>7, <2>1, LenProperties
  <2> QED BY <1>4, <1>10, <2>2 DEF Slab
<1>13. Keep(k, [file |-> filename, vars |-> VarsRead, snap |-> Slab(k)])
  BY <1>1, <1>7, <1>11 DEF ReadNetcdfRecord
<1>14. k \in 0..(s - 1)
  BY <1>7
<1> QED BY <1>1, <1>3, <1>12, <1>13, <1>14

LEMMA ReaderReadsBack ==
  ASSUME RoundInvariant, [Call]_vars, disk' = disk,
         made'.file = made.file, made'.snaps = made.snaps, made'.sound => made.sound
  PROVE  ReadBack'
<1> USE DEF RoundInvariant
<1>1. disturbed => disturbed'
  BY Calls DEF Quiet, Failed, Renamed, OpenUnknown, OpenAscii, OpenNetcdf, CloseFile,
     ReadAsciiRecord, ReadAsciiCrash, ReadNetcdfRecord, ReadNetcdfCrash, Keep, Return,
     Throw, Abort, SetCurrentSnap
<1>2. SUFFICES ASSUME made.sound, ~disturbed, made.file # NoWriter, ~M.max,
                      NEW i \in DOMAIN records', records'[i].whole,
                      records'[i].holds.file = made.file
               PROVE  /\ records'[i].id < Len(made.snaps)
                      /\ records'[i].holds.snap = made.snaps[records'[i].id + 1]
  BY <1>1 DEF ReadBack, ReadBackOf, M
<1>3. made.file \in Targets /\ made.file \in Files
  BY <1>2, WriterAssumption DEF WriterTyped, Makings
<1>4. \A k \in 0..(Len(made.snaps) - 1) : made.snaps[k + 1] \in Nat \cup {Garbled}
  <2>1. made.snaps \in Seq(Nat \cup {Garbled})
    BY DEF WriterTyped, Makings
  <2> QED BY <2>1, LenProperties, ElementOfSeq
<1>5. CASE \E j \in DOMAIN records : records'[i] = records[j]
  BY <1>2, <1>5 DEF ReadBack, ReadBackOf, M
<1>6. CASE i = Len(records) + 1 /\ ReadAsciiRecord
  <2>1. /\ handle # Closed /\ filetype \in AsciiFormats
        /\ currentSnap \in Nat
    BY <1>6 DEF ReadAsciiRecord, AtRecord, ReadingAscii, TypeOK
  <2>2. PICK h \in Content : h.file = filename /\ Keep(currentSnap, h)
    BY <1>6, AsciiReadKeeps
  <2>3. filename = made.file
    BY <1>2, <1>6, <2>1, <2>2, KeptRecord
  <2>4. M = D /\ D.format \in AsciiFormats
    BY <2>1, <2>3 DEF M, D, OwnerReads
  <2>5. made.file \notin NcTargets
    BY <1>2, <2>4 DEF MadeNetcdf, AsciiFormats
  <2>6. ~M.cut /\ \E at : Laid(M, made.snaps, at) /\ Stands(at)
    BY <1>2, <1>3, <2>5 DEF MadeAscii
  <2>7. PICK at : Laid(M, made.snaps, at) /\ Stands(at)
    BY <2>6
  <2>8. PICK k \in Nat : k = currentSnap
    BY <2>1
  <2>9. /\ k < Len(made.snaps)
        /\ Keep(k, [file |-> filename, snap |-> made.snaps[k + 1], vars |-> <<>>])
    BY <1>2, <1>6, <2>3, <2>6, <2>7, <2>8, NextRead
  <2>10. PICK w \in Nat \cup {Garbled} : w = made.snaps[k + 1]
    <3>1. Len(made.snaps) \in Nat
      BY LenProperties DEF WriterTyped, Makings
    <3>2. k \in 0..(Len(made.snaps) - 1)
      BY <2>9, <3>1
    <3> QED BY <1>4, <3>2
  <2>11. PICK g \in Content : g = [file |-> filename, snap |-> w, vars |-> <<>>]
    <3>1. <<>> \in Seq(Nat) /\ filename \in Files
      BY EmptySeq DEF TypeOK
    <3> QED BY <3>1 DEF Content
  <2>12. records'[i].id = k /\ records'[i].holds = g
    BY <1>6, <2>9, <2>10, <2>11, KeptRecord
  <2> QED BY <2>9, <2>10, <2>11, <2>12
<1>7. ASSUME i = Len(records) + 1, NEW q \in AnyRequest, ReadNetcdfRecord(q)
      PROVE  /\ records'[i].id < Len(made.snaps)
             /\ records'[i].holds.snap = made.snaps[records'[i].id + 1]
  <2>1. handle # Closed /\ filetype \in NetcdfFormats
    BY <1>7 DEF ReadNetcdfRecord, InFile, ReadingNetcdf
  <2>2. PICK h \in Content : h.file = filename /\ Keep(Wanted(q), h)
    BY <1>7, NetcdfReadKeeps
  <2>3. Wanted(q) \in Nat
    BY WantedTyped
  <2>4. records'[i].id = Wanted(q) /\ records'[i].holds = h
    BY <1>7, <2>2, <2>3, KeptRecord
  <2>5. filename = made.file
    BY <1>2, <2>2, <2>4
  <2>6. M = D /\ D.format \in NetcdfFormats
    BY <2>1, <2>5 DEF M, D, OwnerReads
  <2>7. made.file \in NcTargets
    BY <1>2, <1>3, <2>6 DEF MadeAscii, AsciiFormats, NetcdfFormats
  <2>8. PICK k \in 0..(Len(made.snaps) - 1) :
          /\ k = Wanted(q)
          /\ Keep(k, [file |-> filename, vars |-> VarsRead, snap |-> made.snaps[k + 1]])
    BY <1>2, <1>7, <2>5, <2>7, SlabRead
  <2>9. records' = Append(records, NewRecord(k, h, TRUE))
    BY <2>2, <2>8 DEF Keep
  <2>10. records' = Append(records, NewRecord(k, [file |-> filename, vars |-> VarsRead,
                                                 snap |-> made.snaps[k + 1]], TRUE))
    BY <2>8 DEF Keep
  <2>11. records'[i].holds.snap = made.snaps[k + 1]
    <3>1. PICK p : p = NewRecord(k, [file |-> filename, vars |-> VarsRead,
                                     snap |-> made.snaps[k + 1]], TRUE)
      OBVIOUS
    <3>2. p.holds.snap = made.snaps[k + 1]
      BY <3>1 DEF NewRecord
    <3>3. NewRecord(k, h, TRUE) \in OutputRecord /\ k \in Nat
      BY <2>3, <2>8, NewRecordTyped
    <3>4. Append(records, NewRecord(k, h, TRUE)) = Append(records, p)
      BY <2>9, <2>10, <3>1
    <3>5. records \in Seq(OutputRecord) /\ Len(records) \in Nat
      BY LenProperties DEF TypeOK
    <3>6. Append(records, p)[Len(records) + 1] = p
      BY <3>5
    <3> QED BY <1>7, <2>10, <3>1, <3>2, <3>6
  <2>12. Len(made.snaps) \in Nat
    BY LenProperties DEF WriterTyped, Makings
  <2> QED BY <2>4, <2>8, <2>11, <2>12
<1> QED BY <1>2, <1>3, <1>5, <1>6, <1>7, RecordSteps

LEMMA ReaderKeeps ==
  ASSUME RoundInvariant, ReaderStep
  PROVE  RoundInvariant'
<1> USE DEF RoundInvariant
<1>1. /\ [Call]_vars /\ disk' = disk
      /\ UNCHANGED <<object, sparse, wopen, stream, varidsOut, numWritten>>
      /\ made' \in Makings
      /\ made'.file = made.file /\ made'.snaps = made.snaps
      /\ made'.sound => made.sound
      /\ made'.sound /\ wopen => meta' = meta
  BY ReaderStepIsCall
<1>2. UNCHANGED <<target, mesh, sparse, wopen, stream, varidsOut, numWritten>>
  BY <1>1 DEF object
<1>3. TypeOK'
  BY <1>1, TypeKept
<1>4. WriterTyped'
  BY <1>1, <1>2 DEF WriterTyped
<1>5. OwnerReads'
  BY <1>1, ReaderOwns
<1>6. OwnerWrites'
  <2>1. wopen' /\ open' => filename' # target'
    BY <1>2, OpensElsewhere DEF OwnerWrites
  <2> QED BY <1>1, <1>2, <2>1 DEF OwnerWrites
<1>7. M' = M /\ T' = T /\ IsNetcdf' = IsNetcdf
  BY <1>1, <1>2 DEF M, T, IsNetcdf
<1>8. Shaped'
  <2> SUFFICES ASSUME wopen', made'.sound PROVE Shaped'
    BY DEF Shaped
  <2>1. wopen /\ made.sound /\ meta' = meta
    BY <1>1, <1>2
  <2> QED BY <1>1, <1>2, <1>7, <2>1 DEF Shaped
<1>9. MadeNetcdf'
  BY <1>1, <1>7 DEF MadeNetcdf
<1>10. MadeAscii'
  <2> SUFFICES ASSUME made'.sound, made'.file \in Targets \ NcTargets PROVE MadeAscii'
    BY DEF MadeAscii
  <2>1. /\ M.format \in AsciiFormats \cup {"unknown"} /\ ~M.cut
        /\ \E at \in [1..(Len(made.snaps) + 1) -> 1..(Len(M.lines) + 1)] :
             Laid(M, made.snaps, at) /\ Stands(at)
    BY <1>1 DEF MadeAscii
  <2>2. PICK at \in [1..(Len(made.snaps) + 1) -> 1..(Len(M.lines) + 1)] :
          Laid(M, made.snaps, at) /\ Stands(at)
    BY <2>1
  <2>3. made.file \in Files
    BY <1>1, WriterAssumption
  <2>4. Stands(at)'
    BY <1>1, <2>1, <2>2, <2>3, StandsKept
  <2> QED BY <1>1, <1>7, <2>1, <2>2, <2>4 DEF MadeAscii
<1>11. ReadBack'
  BY <1>1, ReaderReadsBack
<1> QED BY <1>3, <1>4, <1>5, <1>6, <1>8, <1>9, <1>10, <1>11

-----------------------------------------------------------------------------
LEMMA RoundStart == InitWriter => RoundInvariant
<1> SUFFICES ASSUME InitWriter PROVE RoundInvariant
  OBVIOUS
<1> USE DEF InitWriter
<1>1. TypeOK
  BY TypeStarts
<1>2. <<>> \in Seq(Nat) /\ <<>> \in Seq(Nat \cup {Garbled}) /\ DOMAIN <<>> = {}
  BY EmptySeq
<1>3. WriterTyped
  BY <1>2 DEF WriterTyped, Makings
<1>4. OwnerReads /\ OwnerWrites
  BY DEF Init, Constructed, OwnerReads, OwnerWrites
<1>5. Shaped /\ MadeAscii /\ MadeNetcdf /\ ReadBack
  BY DEF Shaped, MadeAscii, MadeNetcdf, ReadBack
<1> QED BY <1>1, <1>3, <1>4, <1>5 DEF RoundInvariant

LEMMA RoundStep == RoundInvariant /\ [NextRound]_roundVars => RoundInvariant'
<1> SUFFICES ASSUME RoundInvariant, [NextRound]_roundVars PROVE RoundInvariant'
  OBVIOUS
<1>1. CASE UNCHANGED roundVars
  BY <1>1 DEF roundVars, reader, cursor, header, store, writer, RoundInvariant, TypeOK,
     WriterTyped, OwnerReads, Describes, D, OwnerWrites, Shaped, T, IsNetcdf, MadeAscii, Stands,
     M, MadeNetcdf, ReadBack, ReadBackOf
<1> QED BY <1>1, ReaderKeeps, NewReaderKeeps, WriterKeeps DEF NextRound

(* The invariant of a reader and a writer that share a program. *)
THEOREM RoundInvariantAlways == SpecRound => []RoundInvariant
BY RoundStart, RoundStep, PTL DEF SpecRound

(* What was written is what is read: the record a reader of a sound         *)
(* session's file numbers i, on its straight path, is the i-th record given *)
(* to write(), in both ASCII formats and in netCDF, whatever the files, the *)
(* shapes of the records, the mesh and the order of the owner's calls.      *)
THEOREM ReadBackAlways == SpecRound => []ReadBack
<1>1. RoundInvariant => ReadBack
  BY DEF RoundInvariant
<1> QED BY <1>1, RoundInvariantAlways, PTL
-----------------------------------------------------------------------------
(***************************************************************************)
(* resultsScope.  The program reads a file somebody else has written and   *)
(* fills another, so what the reader guarantees of a record holds all the  *)
(* way (Reads); the invariant adds where the program stands, and what the  *)
(* output is by then.                                                      *)
(***************************************************************************)

G == disk[Global]
O == disk[Output]

Reads == Session /\ Stream /\ FirstIds /\ NetcdfHeader /\ AsciiFaithful /\ NetcdfFaithful

(* The output with the first k snaps in it. *)
Filled(k) ==
  /\ O.format = "netcdf4" /\ O.header = "ok" /\ ~O.max /\ O.dim \in {1, 2}
  /\ O.vars = [i \in 1..O.dim |-> 5 + i]
  /\ O.fields = {5 + i : i \in 1..O.dim}
  /\ O.snaps = k /\ Len(O.lines) = k
  /\ \A i \in 1..k : O.lines[i].snap = i - 1

(* The writer is in the session that fills it. *)
Writing(k) ==
  /\ target = Output /\ wopen /\ stream = "good" /\ numWritten = k
  /\ varidsOut = O.vars /\ O.dim = meta.dim /\ O.nodes = nodeMap
  /\ Filled(k)

Untouched ==
  /\ ~open /\ handle = Closed /\ ~disturbed /\ currentSnap = 0
  /\ varids = <<>> /\ records = <<>> /\ opened = {} /\ ~meta.max

(* The reader has the global file open and has met no error. *)
Serving ==
  /\ filename = Global /\ open /\ ~disturbed /\ ret = "ok" /\ opened = {Global}
  /\ numSnaps = G.snaps
  /\ G.format \in AsciiFormats \/ Sound(G)
  /\ ~meta.max /\ meta.dim \in {1, 2} /\ (meta.dim = 2 => meta.vector)

(* The one record in memory is the snap the loop is at. *)
Taken ==
  /\ Len(records) = 1 /\ records[1].whole /\ records[1].id = trimmed
  /\ records[1].holds.file = Global /\ records[1].meta = meta

Right(i) == records[i].whole => /\ records[i].id = i - 1
                                /\ records[i].holds.snap = i - 1

(* The reader goes through the output. *)
Browsing ==
  /\ filename = Output /\ open /\ ~disturbed /\ ret = "ok" /\ opened = {Output}
  /\ handle # Closed /\ numSnaps = G.snaps
  /\ Len(records) = currentSnap /\ currentSnap <= G.snaps
  /\ \A i \in DOMAIN records : records[i].whole /\ Right(i)

Stopped ==
  /\ \A i \in 1..G.snaps : i \in DOMAIN records /\ records[i].whole
  /\ \A i \in DOMAIN records : Right(i)

Standing ==
  /\ stage = "openGlobal" => Untouched /\ filename = Global /\ trimmed = 0 /\ target = NoWriter
  /\ stage \in {"make", "openOutput", "read"} =>
       Serving /\ records = <<>> /\ currentSnap = trimmed /\ trimmed <= G.snaps
  /\ stage = "make" => trimmed = 0 /\ target = NoWriter
  /\ stage = "openOutput" =>
       /\ trimmed = 0 /\ target = Output /\ mesh = nodeMap
       /\ ~wopen /\ stream = "closed" /\ varidsOut = <<>> /\ numWritten = 0
  /\ stage \in {"write", "drop"} => Serving /\ Taken /\ trimmed < G.snaps /\ currentSnap = trimmed + 1
  /\ stage \in {"read", "write"} => Writing(trimmed)
  /\ stage = "drop" => Writing(trimmed + 1)
  /\ stage \in {"close", "written"} => filename = Global
  /\ stage = "close" => target = Output
  /\ stage \in {"close", "written", "name", "inspect", "browse"} => Filled(G.snaps)
  /\ stage \in {"name", "inspect"} => Untouched
  /\ stage = "name" => filename = Global
  /\ stage = "inspect" => filename = Output
  /\ stage = "browse" => Browsing
  /\ stage = "failed" => filename \in {Global, Output} /\ (filename = Output => Stopped)

ScopeTyped ==
  /\ stage \in {"openGlobal", "make", "openOutput", "read", "write", "drop", "close", "written",
             "name", "inspect", "browse", "failed"}
  /\ nodeMap \in Nat
  /\ trimmed \in Nat

(* The global file is one the program was given. *)
Given == \E d \in Disks : G = d[Global]


(* What holds wherever the program stands. *)
Sane ==
  /\ TypeOK /\ WriterTyped /\ ScopeTyped
  /\ Given /\ Whole(G) /\ Reads

(* The global file stays what it was, be it copied whole or not. *)
Spared ==
  /\ Given
  /\ DOMAIN disk = Files
  /\ target \in {NoWriter, Output}

ScopeInvariant == Spared /\ (Whole(G) => Sane /\ Standing)

-----------------------------------------------------------------------------
LEMMA GlobalWritten ==
  ASSUME ScopeGranted, TypeOK, Given
  PROVE  /\ G \in FileDesc /\ Written(G)
         /\ HeadersWhole(G)
         /\ G.format \in AsciiFormats => ~G.cut
<1>1. Global \in Files
  BY ScopeAssumption
<1> QED BY <1>1 DEF ScopeGranted, TypeOK, Given, G

LEMMA FilledWritten ==
  ASSUME TypeOK, NEW k \in Nat, Filled(k)
  PROVE  /\ O \in FileDesc /\ Written(O) /\ Sound(O) /\ O.dim < 3
         /\ Len(O.vars) = O.dim
<1>1. Output \in Files
  BY ScopeAssumption, WriterAssumption
<1>2. O \in FileDesc
  BY <1>1 DEF TypeOK, O
<1>3. O.lines \in Seq(Line) /\ DOMAIN O.lines = 1..k
  BY <1>2, LenProperties DEF FileDesc, Filled
<1>4. Len(O.vars) = O.dim
  <2>1. O.vars \in Seq(Nat) /\ DOMAIN O.vars = 1..O.dim
    BY <1>2 DEF FileDesc, Filled
  <2> QED BY <2>1, LenProperties DEF Filled
<1>5. O.vars # <<>>
  <2>1. Len(<<>>) = 0
    BY EmptySeq
  <2> QED BY <1>4, <2>1 DEF Filled
<1>6. O.format \notin AsciiFormats
  BY DEF Filled, AsciiFormats
<1>7. WrittenNetcdf(O)
  BY <1>3, <1>4 DEF Filled, WrittenNetcdf
<1> QED BY <1>2, <1>4, <1>5, <1>6, <1>7 DEF Written, Sound, Filled

(* What the reader guarantees survives its own calls, *)
LEMMA ReadsKept ==
  ASSUME TypeOK, Reads, Written(D), [Call]_vars
  PROVE  Reads' /\ TypeOK' /\ disk' = disk
<1>1. Session' /\ Stream' /\ FirstIds'
  BY SessionKept, StreamKept, FirstIdsKept DEF Reads
<1>2. NetcdfHeader'
  BY <1>1, NetcdfHeaderKept DEF Reads
<1>3. AsciiFaithful' /\ NetcdfFaithful'
  BY AsciiFaithfulKept, NetcdfFaithfulKept DEF Reads
<1> QED BY <1>1, <1>2, <1>3, TypeKept, OpenedGrows DEF Reads

(* and those of a writer that leaves the files read alone. *)
LEMMA ReadsElsewhere ==
  ASSUME TypeOK, Reads, UNCHANGED reader, ret # "crash", disk'[Global] = disk[Global],
         filename = Global, opened = {Global},
         \A i \in DOMAIN records : records[i].holds.file = Global
  PROVE  Reads'
<1>1. UNCHANGED <<filename, open, filetype, handle, currentSnap, numSnaps, numNodes, meta, times,
                  varids, records, disturbed, opened>>
  BY DEF reader, cursor, header, store
<1>2. D' = D
  BY <1>1 DEF D
<1>3. Session' /\ Stream'
  BY <1>1, <1>2 DEF Reads, Session, Stream, PassedStump
<1>4. FirstIds'
  BY <1>1 DEF Reads, FirstIds
<1>5. OneLayout
  BY DEF OneLayout
<1>6. NetcdfHeader'
  BY <1>1, <1>2, <1>5 DEF Reads, NetcdfHeader
<1>7. \A i \in DOMAIN records : disk'[records[i].holds.file] = disk[records[i].holds.file]
  OBVIOUS
<1>8. AsciiFaithful'
  BY <1>1, <1>7 DEF Reads, AsciiFaithful
<1>9. NetcdfFaithful'
  BY <1>1, <1>5, <1>7 DEF Reads, NetcdfFaithful
<1> QED BY <1>3, <1>4, <1>6, <1>8, <1>9 DEF Reads

(* A record that was read without an error is the snap it is numbered with. *)
LEMMA TakenRight ==
  ASSUME ScopeGranted, TypeOK, Given, Whole(G), Reads, Serving, Taken
  PROVE  records[1] \in OutputRecord /\ records[1].holds.snap = trimmed
<1>1. 1 \in DOMAIN records /\ records[1] \in OutputRecord
  <2>1. PICK s \in Seq(OutputRecord) : s = records
    BY DEF TypeOK
  <2>2. Len(s) = 1
    BY <2>1 DEF Taken
  <2> QED BY <2>1, <2>2, LenProperties, ElementOfSeq
<1>2. Global \in Files /\ ~G.max
  BY ScopeAssumption DEF Whole
<1>3. CASE G.format \in AsciiFormats
  <2>1. ~G.cut /\ HeadersWhole(G)
    BY <1>3, GlobalWritten
  <2> QED BY <1>1, <1>2, <1>3, <2>1 DEF Reads, AsciiFaithful, Serving, Taken, G
<1>4. CASE Sound(G)
  <2>1. OneLayout
    BY DEF OneLayout, Serving
  <2> QED BY <1>1, <1>2, <1>4, <2>1 DEF Reads, NetcdfFaithful, Taken, Whole, Sound, G
<1> QED BY <1>1, <1>3, <1>4 DEF Serving

LEMMA GlobalStays ==
  ASSUME Given, Whole(G), disk'[Global] = disk[Global]
  PROVE  Given' /\ Whole(G)' /\ G' = G
BY DEF Given, Whole, G

LEMMA ReaderSane ==
  ASSUME Sane, Written(D), [Call]_vars, UNCHANGED writer, ScopeTyped'
  PROVE  Sane' /\ disk' = disk /\ G' = G /\ O' = O
<1>1. TypeOK' /\ Reads' /\ disk' = disk
  BY ReadsKept DEF Sane
<1>2. WriterTyped'
  BY DEF Sane, WriterTyped, writer
<1>3. Given' /\ Whole(G)' /\ G' = G
  BY <1>1, GlobalStays DEF Sane
<1> QED BY <1>1, <1>2, <1>3 DEF Sane, O

LEMMA OpenGlobalStands ==
  ASSUME ScopeGranted, Sane, Standing, OpenGlobal
  PROVE  Sane' /\ Standing'
<1>1. /\ Untouched /\ filename = Global /\ trimmed = 0 /\ target = NoWriter
      /\ OpenCall /\ UNCHANGED writer /\ trimmed' = trimmed
      /\ stage' = IF ret' = "ok" THEN "make" ELSE "failed"
  BY DEF Standing, OpenGlobal, OrFail
<1>2. G \in FileDesc /\ Written(G) /\ Whole(G)
  BY GlobalWritten DEF Sane
<1>3. D = G
  BY <1>1 DEF D, G
<1>4. ScopeTyped'
  <2>1. G.nodes \in Nat /\ nodeMap' \in 1..G.nodes
    BY <1>2 DEF FileDesc, OpenGlobal, G
  <2> QED BY <1>1, <2>1 DEF Sane, ScopeTyped
<1>5. [Call]_vars
  BY <1>1 DEF Call
<1>6. Sane' /\ disk' = disk /\ G' = G
  BY <1>1, <1>2, <1>3, <1>4, <1>5, ReaderSane
<1>7. ASSUME ret' = "ok" PROVE Serving' /\ records' = <<>> /\ currentSnap' = 0
  <2>1. OpenAscii \/ OpenNetcdf
    BY <1>1, <1>7 DEF OpenCall, OpenRefused, OpenUnknown, Refuse, Throw
  <2>2. /\ filename' = Global /\ open' /\ opened' = {Global} /\ records' = <<>>
        /\ currentSnap' = 0 /\ UNCHANGED disk
    BY <1>1, <1>3, <2>1 DEF OpenAscii, OpenNetcdf, OpenCommon, Untouched, store, Running
  <2>3. CASE OpenAscii
    <3>1. /\ G.format \in AsciiFormats /\ numSnaps' = G.snaps /\ ~disturbed'
          /\ meta' = [meta EXCEPT !.vector = G.vector, !.dim = IF G.vector THEN 2 ELSE 1]
      BY <1>1, <1>3, <1>7, <2>3 DEF OpenAscii, Throw, Return, Untouched
    <3>2. /\ meta'.vector = G.vector /\ meta'.dim = (IF G.vector THEN 2 ELSE 1)
          /\ ~meta'.max
      BY <1>1, <3>1 DEF Untouched, Sane, TypeOK, Metadata
    <3> QED BY <1>6, <1>7, <2>2, <3>1, <3>2 DEF Serving
  <2>4. CASE OpenNetcdf
    <3>1. /\ Sound(G) /\ numSnaps' = G.snaps /\ ~disturbed'
          /\ meta' = [vector |-> G.vector, max |-> G.max,
                      dim |-> IF Len(G.vars) = 1 THEN 1 ELSE G.dim]
      BY <1>1, <1>3, <1>7, <2>4 DEF OpenNetcdf, Throw, Return, Abort, Untouched, Sound,
                                    NetcdfFormats
    <3>2. Len(G.vars) = G.dim
      BY <1>2, <3>1 DEF Written, WrittenNetcdf, Sound, NetcdfFormats, Whole
    <3>3. G.dim \in {1, 2}
      <4>1. G.vars \in Seq(Nat) /\ G.vars # <<>> /\ G.dim \in 0..3
        BY <1>2, <3>1 DEF FileDesc, Sound
      <4>2. Len(G.vars) # 0
        BY <4>1, EmptySeq
      <4> QED BY <1>2, <3>2, <4>1, <4>2 DEF Whole
    <3>4. ~meta'.max /\ meta'.dim = G.dim /\ meta'.vector = G.vector
      BY <1>2, <3>1, <3>2 DEF Whole
    <3> QED BY <1>2, <1>6, <1>7, <2>2, <3>1, <3>3, <3>4 DEF Serving, Whole
  <2> QED BY <2>1, <2>3, <2>4, <2>2
<1>8. filename' = Global
  BY <1>1 DEF OpenCall, OpenRefused, OpenUnknown, OpenAscii, OpenNetcdf, OpenCommon, cursor
<1>9. target' = NoWriter
  BY <1>1 DEF writer
<1>10. 0 <= G.snaps
  BY <1>2 DEF FileDesc
<1>11. CASE ret' = "ok"
  BY <1>1, <1>6, <1>7, <1>9, <1>10, <1>11 DEF Standing
<1>12. CASE ret' # "ok"
  <2>1. Global # Output
    BY ScopeAssumption
  <2> QED BY <1>1, <1>6, <1>8, <1>12, <2>1 DEF Standing
<1> QED BY <1>6, <1>11, <1>12

LEMMA MakeOutputStands ==
  ASSUME Sane, Standing, MakeOutput
  PROVE  Sane' /\ Standing'
<1>1. /\ Serving /\ records = <<>> /\ currentSnap = 0 /\ trimmed = 0 /\ 0 <= G.snaps
      /\ UNCHANGED reader /\ ret # "crash" /\ ret' = "ok" /\ UNCHANGED disk
      /\ target' = Output /\ mesh' = nodeMap /\ ~sparse' /\ ~wopen' /\ stream' = "closed"
      /\ varidsOut' = <<>> /\ numWritten' = 0 /\ made' = made
      /\ stage' = "openOutput" /\ nodeMap' = nodeMap /\ trimmed' = 0 /\ sparse' = FALSE
      /\ wopen' = FALSE
  BY DEF Standing, MakeOutput, MakeWriter, Succeed
<1>2. UNCHANGED <<filename, open, filetype, handle, currentSnap, numSnaps, numNodes, meta, times,
                  varids, records, recordMap, disturbed, opened>>
  BY <1>1 DEF reader, cursor, header, store
<1>3. TypeOK'
  BY <1>1, <1>2 DEF Sane, TypeOK
<1>4. WriterTyped'
  BY <1>1, ScopeAssumption, EmptySeq DEF Sane, WriterTyped, ScopeTyped
<1>5. ScopeTyped' /\ Given' /\ Whole(G)' /\ G' = G
  BY <1>1, GlobalStays DEF Sane, ScopeTyped
<1>6. Reads'
  BY <1>1, ReadsElsewhere DEF Sane, Serving
<1>7. Serving'
  BY <1>1, <1>2, <1>5 DEF Serving
<1> QED BY <1>1, <1>2, <1>3, <1>4, <1>5, <1>6, <1>7 DEF Sane, Standing

LEMMA OpenOutputStands ==
  ASSUME Output \in NcTargets, Sane, Standing, OpenOutput
  PROVE  Sane' /\ Standing'
<1>1. /\ Serving /\ records = <<>> /\ currentSnap = 0 /\ trimmed = 0 /\ 0 <= G.snaps
      /\ target = Output /\ mesh = nodeMap /\ nodeMap \in Nat
      /\ ~wopen /\ stream = "closed" /\ varidsOut = <<>> /\ numWritten = 0
      /\ OpenTarget /\ UNCHANGED <<nodeMap, trimmed>>
      /\ stage' = IF ret' = "ok" THEN "read" ELSE "failed"
  BY DEF Standing, OpenOutput, OrFail, Sane, ScopeTyped
<1>2. /\ wopen' = TRUE /\ stream' = "good" /\ varidsOut' = varidsOut \o NetcdfVars
      /\ Put(NetcdfFile) /\ Begin(TRUE)
      /\ UNCHANGED reader /\ ret # "crash" /\ ret' = "ok" /\ target # NoWriter
      /\ UNCHANGED <<target, mesh, sparse, numWritten>>
  BY <1>1 DEF OpenTarget, OpenTargetAscii, OpenTargetNetcdf, IsNetcdf, Succeed, object
<1>3. UNCHANGED <<filename, open, filetype, handle, currentSnap, numSnaps, numNodes, meta, times,
                  varids, records, recordMap, disturbed, opened>>
  BY <1>2 DEF reader, cursor, header, store
<1>4. TypeOK /\ WriterTyped /\ ScopeTyped /\ Reads
  BY DEF Sane
<1>5. PICK f \in FileDesc : f = NetcdfFile
  BY <1>4, NetcdfFileTyped
<1>6. Output \in Files /\ Global \in Files /\ Output # Global
  BY ScopeAssumption, WriterAssumption
<1>7. disk' \in [Files -> FileDesc] /\ disk'[Global] = disk[Global] /\ O' = f
  BY <1>1, <1>2, <1>4, <1>5, <1>6 DEF Put, TypeOK, O
<1>8. TypeOK'
  BY <1>2, <1>3, <1>4, <1>7 DEF TypeOK
<1>9. varidsOut' = NetcdfVars /\ NetcdfVars \in Seq(Nat) /\ Len(NetcdfVars) = meta.dim
  <2>1. NetcdfVars \in Seq(Nat) /\ Len(NetcdfVars) = meta.dim
    BY <1>4, NetcdfFileTyped
  <2>2. PICK v \in Seq(Nat) : v = NetcdfVars
    BY <2>1
  <2>3. <<>> \o v = v
    BY <2>2, ConcatEmptySeq
  <2> QED BY <1>1, <1>2, <2>1, <2>2, <2>3
<1>10. WriterTyped'
  <2>1. made' \in Makings
    BY <1>2, <1>4, MadeTyped
  <2> QED BY <1>2, <1>4, <1>9, <2>1 DEF WriterTyped
<1>11. ScopeTyped' /\ Given' /\ Whole(G)' /\ G' = G
  BY <1>1, <1>2, <1>4, <1>7, GlobalStays DEF Sane, ScopeTyped
<1>12. Reads'
  <2>1. \A i \in DOMAIN records : FALSE
    BY <1>1
  <2> QED BY <1>1, <1>2, <1>4, <1>7, <2>1, ReadsElsewhere DEF Serving
<1>13. Serving'
  BY <1>1, <1>2, <1>3, <1>11 DEF Serving
<1>14. Writing(0)'
  <2>1. /\ f.lines = <<>> /\ f.format = "netcdf4" /\ f.snaps = 0
        /\ f.vars = NetcdfVars /\ ~f.max /\ f.dim = meta.dim /\ f.header = "ok"
        /\ f.nodes = nodeMap
        /\ f.fields = {NetcdfVars[i] : i \in 1..meta.dim}
    BY <1>1, <1>4, <1>5, NetcdfFileTyped DEF Serving, NoMesh
  <2>2. meta.dim \in {1, 2}
    BY <1>1 DEF Serving
  <2>3. NetcdfVars = [i \in 1..meta.dim |-> 5 + i]
    BY DEF NetcdfVars
  <2>4. {NetcdfVars[i] : i \in 1..meta.dim} = {5 + i : i \in 1..meta.dim}
    BY <2>3
  <2>5. Len(f.lines) = 0
    BY <2>1, EmptySeq
  <2>6. Filled(0)'
    BY <1>7, <2>1, <2>2, <2>3, <2>4, <2>5 DEF Filled
  <2> QED BY <1>1, <1>2, <1>3, <1>7, <1>9, <2>1, <2>6 DEF Writing
<1>15. stage' = "read" /\ trimmed' = 0
  BY <1>1, <1>2
<1> QED BY <1>1, <1>3, <1>8, <1>10, <1>11, <1>12, <1>13, <1>14, <1>15 DEF Sane, Standing

(* A read that succeeds leaves one record more, and the session as it was. *)
LEMMA ReadLeaves ==
  ASSUME TypeOK, NEW s \in AnyRequest, ReadCall(s)
  PROVE  /\ UNCHANGED <<filename, opened>>
         /\ ret' = "ok" => ReadAsciiRecord \/ ReadNetcdfRecord(s)
         /\ \A k \in Nat : \A h \in Content : Keep(k, h) /\ records = <<>> =>
              /\ Len(records') = 1 /\ records'[1].whole /\ records'[1].id = k
              /\ records'[1].holds = h /\ records'[1].meta = meta
              /\ currentSnap' = currentSnap + 1 /\ disturbed' = disturbed
<1>1. UNCHANGED <<filename, opened>>
  BY DEF ReadCall, ReadUnknown, ReadAsciiPastLast, ReadAsciiRecord, ReadAsciiNoHeader,
         ReadAsciiBadValue, ReadAsciiCrash, ReadNetcdfPastLast, ReadNetcdfRecord,
         ReadNetcdfError, ReadNetcdfCrash, ReadingAscii, ReadingNetcdf, Reading, cursor
<1>2. ret' = "ok" => ReadAsciiRecord \/ ReadNetcdfRecord(s)
  BY DEF ReadCall, ReadUnknown, ReadAsciiPastLast, ReadAsciiNoHeader,
         ReadAsciiBadValue, ReadAsciiCrash, ReadNetcdfPastLast,
         ReadNetcdfError, ReadNetcdfCrash, Refuse, Throw, Abort, Orphan
<1>3. ASSUME NEW k \in Nat, NEW h \in Content, Keep(k, h), records = <<>>
      PROVE  /\ Len(records') = 1 /\ records'[1].whole /\ records'[1].id = k
             /\ records'[1].holds = h /\ records'[1].meta = meta
             /\ currentSnap' = currentSnap + 1 /\ disturbed' = disturbed
  <2>1. PICK r : r = NewRecord(k, h, TRUE)
    OBVIOUS
  <2>2. r.whole /\ r.id = k /\ r.holds = h /\ r.meta = meta
    BY <2>1 DEF NewRecord
  <2>3. records' = <<r>>
    BY <1>3, <2>1 DEF Keep
  <2>4. Len(records') = 1 /\ records'[1] = r
    BY <2>3
  <2>5. currentSnap' = currentSnap + 1 /\ disturbed' = disturbed
    BY <1>3 DEF Keep, Return
  <2> QED BY <2>2, <2>4, <2>5
<1> QED BY <1>1, <1>2, <1>3

LEMMA WritingStays ==
  ASSUME NEW k, Writing(k), UNCHANGED writer, O' = O, meta' = meta, nodeMap' = nodeMap
  PROVE  Writing(k)'
BY DEF Writing, Filled, writer

LEMMA ReadGlobalStands ==
  ASSUME ScopeGranted, Sane, Standing, ReadGlobal
  PROVE  Sane' /\ Standing'
<1>1. /\ Serving /\ records = <<>> /\ currentSnap = trimmed /\ trimmed < numSnaps /\ Writing(trimmed)
      /\ ReadCall(trimmed) /\ UNCHANGED <<writer, nodeMap, trimmed>>
      /\ stage' = IF ret' = "ok" THEN "write" ELSE "failed"
  BY DEF Standing, ReadGlobal, OrFail
<1>2. TypeOK /\ trimmed \in Nat /\ trimmed \in AnyRequest
  BY DEF Sane, ScopeTyped, AnyRequest
<1>3. D = G /\ Written(G)
  BY <1>1, GlobalWritten DEF Sane, Serving, D, G
<1>4. ScopeTyped'
  BY <1>1 DEF Sane, ScopeTyped
<1>5. Sane' /\ disk' = disk /\ G' = G /\ O' = O
  BY <1>1, <1>2, <1>3, <1>4, ReaderSane DEF Call
<1>6. filename' = Global /\ opened' = {Global} /\ Global # Output
  BY <1>1, <1>2, ReadLeaves, ScopeAssumption DEF Serving
<1>7. ASSUME ret' = "ok" PROVE Serving' /\ Taken' /\ currentSnap' = trimmed + 1 /\ Writing(trimmed)'
  <2>1. ReadAsciiRecord \/ ReadNetcdfRecord(trimmed)
    BY <1>1, <1>2, <1>7, ReadLeaves
  <2>2. PICK h \in Content : h.file = Global /\ Keep(trimmed, h)
    <3>1. Wanted(trimmed) = trimmed
      BY <1>2 DEF Wanted, NextSnap
    <3> QED BY <1>1, <1>2, <2>1, <3>1, AsciiReadKeeps, NetcdfReadKeeps DEF Serving
  <2>3. /\ Len(records') = 1 /\ records'[1].whole /\ records'[1].id = trimmed
        /\ records'[1].holds = h /\ records'[1].meta = meta
        /\ currentSnap' = currentSnap + 1 /\ disturbed' = disturbed
    BY <1>1, <1>2, <2>2, ReadLeaves
  <2>4. UNCHANGED <<open, numSnaps, meta>>
    BY <2>1 DEF ReadAsciiRecord, ReadNetcdfRecord, ReadingAscii, ReadingNetcdf, Reading, header
  <2>5. Serving'
    BY <1>1, <1>5, <1>6, <1>7, <2>3, <2>4 DEF Serving
  <2>6. Taken'
    BY <1>1, <2>2, <2>3, <2>4 DEF Taken
  <2>7. Writing(trimmed)'
    <3>1. PICK k : k = trimmed /\ k = trimmed'
      BY <1>1
    <3>2. Writing(k)'
      BY <1>1, <1>5, <2>4, <3>1, WritingStays
    <3> QED BY <3>1, <3>2
  <2> QED BY <1>1, <2>3, <2>5, <2>6, <2>7
<1>8. CASE ret' = "ok"
  <2>1. trimmed' = trimmed /\ trimmed' < G.snaps
    BY <1>1 DEF Serving
  <2> QED BY <1>1, <1>5, <1>7, <1>8, <2>1 DEF Standing
<1>9. CASE ret' # "ok"
  BY <1>1, <1>5, <1>6, <1>9 DEF Standing
<1> QED BY <1>8, <1>9

LEMMA WriteSubsetStands ==
  ASSUME ScopeGranted, Output \in NcTargets, Sane, Standing, WriteSubset
  PROVE  Sane' /\ Standing'
<1>1. PICK legible \in BOOLEAN : WriteCall(Subset(records[1]), legible)
  BY DEF WriteSubset
<1>2. /\ Serving /\ Taken /\ trimmed < G.snaps /\ currentSnap = trimmed + 1 /\ Writing(trimmed)
      /\ UNCHANGED <<nodeMap, trimmed>>
      /\ stage' = IF ret' = "ok" THEN "drop" ELSE "failed"
  BY DEF Standing, WriteSubset, OrFail
<1>3. /\ TypeOK /\ WriterTyped /\ ScopeTyped /\ Reads /\ trimmed \in Nat /\ nodeMap \in Nat
      /\ target = Output /\ target # NoWriter /\ IsNetcdf
  BY <1>2, WriterAssumption, ScopeAssumption DEF Sane, ScopeTyped, Writing, IsNetcdf
<1>4. records[1] \in OutputRecord /\ records[1].holds.snap = trimmed
  BY <1>2, TakenRight DEF Sane
<1>5. PICK r \in OutputRecord : /\ r = Subset(records[1]) /\ r.nodes = nodeMap
                                /\ r.holds.snap = trimmed /\ r.meta = meta
  <2>1. PICK q \in OutputRecord : q = records[1]
    BY <1>4
  <2>2. q.meta.dim <= Copied(q.meta)
    BY <1>2, <2>1 DEF Taken, Serving, Copied
  <2>3. q.holds \in Content /\ q.holds.snap = trimmed
    BY <1>4, <2>1 DEF OutputRecord
  <2>4. Subset(q) = [q EXCEPT !.nodes = nodeMap, !.holds.snap = q.holds.snap]
    BY <2>2 DEF Subset
  <2>5. Subset(q) = [q EXCEPT !.nodes = nodeMap]
    BY <2>3, <2>4 DEF OutputRecord, Content
  <2>6. /\ Subset(q) \in OutputRecord /\ Subset(q).nodes = nodeMap
        /\ Subset(q).holds = q.holds /\ Subset(q).meta = q.meta
    BY <1>3, <2>5 DEF OutputRecord
  <2>7. q.meta = meta
    BY <1>2, <2>1 DEF Taken
  <2> QED BY <2>1, <2>3, <2>6, <2>7
<1>6. WriteNetcdf(r) /\ ~Lacks(r)
  <2>1. Len(varidsOut) = meta.dim /\ wopen
    <3>1. Len(O.vars) = O.dim
      BY <1>2, <1>3, FilledWritten DEF Writing
    <3> QED BY <1>2, <3>1 DEF Writing
  <2>2. meta.dim \in Nat
    BY <1>3 DEF TypeOK, Metadata
  <2>3. ~Lacks(r)
    BY <1>5, <2>2 DEF Lacks
  <2> QED BY <1>1, <1>3, <1>5, <2>1, <2>2, <2>3
          DEF WriteCall, WriteRefused, WriteAscii, WriteNetcdfCrash
<1>7. /\ Puts(r) /\ disk'[target] = WithSlab(r) /\ numWritten' = numWritten + 1
      /\ UNCHANGED reader /\ ret # "crash" /\ ret' = "ok"
  BY <1>3, <1>6, NetcdfWritten DEF WriteNetcdf, Succeed
<1>8. UNCHANGED <<filename, open, filetype, handle, currentSnap, numSnaps, numNodes, meta, times,
                  varids, records, recordMap, disturbed, opened>>
  BY <1>7 DEF reader, cursor, header, store
<1>9. /\ disk' \in [Files -> FileDesc] /\ disk'[Global] = disk[Global]
      /\ Global # Output /\ O' = WithSlab(r) /\ O = T
  BY <1>3, <1>7, ScopeAssumption DEF Puts, O, T
<1>10. TypeOK'
  BY <1>3, <1>7, <1>8, <1>9 DEF TypeOK
<1>11. WriterTyped'
  BY <1>3, <1>7 DEF Puts, WriterTyped
<1>12. ScopeTyped' /\ Given' /\ Whole(G)' /\ G' = G
  BY <1>2, <1>3, <1>9, GlobalStays DEF Sane, ScopeTyped
<1>13. Reads'
  <2>1. \A i \in DOMAIN records : records[i].holds.file = Global
    <3>1. PICK s \in Seq(OutputRecord) : s = records
      BY <1>3 DEF TypeOK
    <3>2. Len(s) = 1 /\ s[1].holds.file = Global
      BY <1>2, <3>1 DEF Taken
    <3>3. \A i \in DOMAIN s : i = 1
      BY <3>2, LenProperties
    <3> QED BY <3>1, <3>2, <3>3
  <2> QED BY <1>2, <1>3, <1>7, <1>9, <2>1, ReadsElsewhere DEF Serving
<1>14. Serving' /\ Taken'
  BY <1>2, <1>7, <1>8, <1>12 DEF Serving, Taken
<1>15. Writing(trimmed + 1)'
  <2>1. PICK k \in Nat : k = trimmed
    BY <1>3
  <2>2. /\ Len(O.lines) = k /\ numWritten = k /\ ~O.max /\ O.nodes = nodeMap
        /\ \A i \in 1..k : O.lines[i].snap = i - 1
        /\ varidsOut = O.vars /\ Len(O.vars) = O.dim /\ O.dim = meta.dim
    BY <1>2, <1>3, <2>1, FilledWritten DEF Writing, Filled
  <2>3. SlabKept(r)
    BY <1>3, <1>5, <1>6, <1>9, <2>2, WholeListKept DEF SlabKept
  <2>4. /\ Len(Slabs(r)) = k + 1
        /\ \A i \in 1..k : Slabs(r)[i] = T.lines[i]
        /\ Slabs(r)[k + 1].snap = r.holds.snap
    BY <1>3, <1>9, <2>2, <2>3, SlabAdded
  <2>5. \A i \in 1..(k + 1) : Slabs(r)[i].snap = i - 1
    <3> TAKE i \in 1..(k + 1)
    <3>1. CASE i \in 1..k
      BY <1>9, <2>2, <2>4, <3>1
    <3>2. CASE i = k + 1
      BY <1>5, <2>1, <2>4, <3>2
    <3> QED BY <3>1, <3>2
  <2>6. /\ O'.lines = Slabs(r) /\ O'.snaps = Len(Slabs(r))
        /\ O'.format = O.format /\ O'.vars = O.vars
        /\ O'.dim = O.dim /\ O'.max = O.max
        /\ O'.header = O.header /\ O'.nodes = O.nodes /\ O'.fields = O.fields
    BY <1>3, <1>9, SlabsTyped
  <2>7. Filled(k) 
    BY <1>2, <2>1 DEF Writing
  <2>8. Filled(k + 1)'
    BY <2>4, <2>5, <2>6, <2>7 DEF Filled
  <2>9. k' = k /\ trimmed' = k
    BY <1>2, <2>1
  <2> QED BY <1>2, <1>3, <1>7, <1>8, <2>1, <2>2, <2>6, <2>8, <2>9 DEF Writing, Puts
<1>16. stage' = "drop" /\ trimmed' = trimmed
  BY <1>2, <1>7
<1> QED BY <1>2, <1>8, <1>10, <1>11, <1>12, <1>13, <1>14, <1>15, <1>16 DEF Sane, Standing

LEMMA DropGlobalStands ==
  ASSUME ScopeGranted, Sane, Standing, DropGlobal
  PROVE  Sane' /\ Standing'
<1>1. /\ Serving /\ Taken /\ trimmed < G.snaps /\ currentSnap = trimmed + 1 /\ Writing(trimmed + 1)
      /\ ClearAt(1) /\ trimmed' = trimmed + 1 /\ UNCHANGED <<writer, nodeMap>>
      /\ stage' = IF ret' = "ok" THEN "read" ELSE "failed"
  BY DEF Standing, DropGlobal, OrFail
<1>2. TypeOK /\ ScopeTyped /\ trimmed \in Nat
  BY DEF Sane, ScopeTyped
<1>3. Written(D)
  BY <1>1, GlobalWritten DEF Sane, Serving, D, G
<1>4. ScopeTyped'
  BY <1>1, <1>2 DEF ScopeTyped
<1>5. [Call]_vars
  BY <1>1 DEF Call
<1>6. Sane' /\ disk' = disk /\ G' = G /\ O' = O
  BY <1>1, <1>3, <1>4, <1>5, ReaderSane
<1>7. records' = <<>> /\ ret' = "ok" /\ disturbed' = disturbed
  <2>1. PICK s \in Seq(OutputRecord) : s = records
    BY <1>2 DEF TypeOK
  <2>2. Len(s) = 1
    BY <1>1, <2>1 DEF Taken
  <2>3. 1 \in DOMAIN s
    BY <2>2, LenProperties
  <2>4. RemoveAt(s, 1) \in Seq(OutputRecord) /\ Len(RemoveAt(s, 1)) = 0
    BY <2>2, <2>3, RemoveAtType
  <2>5. RemoveAt(s, 1) = <<>>
    BY <2>4, EmptySeq
  <2> QED BY <1>1, <2>1, <2>3, <2>5 DEF ClearAt, Return
<1>8. UNCHANGED <<filename, open, currentSnap, numSnaps, meta, opened>>
  BY <1>1 DEF ClearAt, cursor, header
<1>9. Serving'
  BY <1>1, <1>6, <1>7, <1>8 DEF Serving
<1>10. Writing(trimmed)'
  <2>1. PICK k : k = trimmed + 1 /\ k = trimmed'
    BY <1>1
  <2>2. Writing(k)'
    BY <1>1, <1>6, <1>8, <2>1, WritingStays
  <2>3. trimmed' = k
    BY <2>1
  <2> QED BY <2>2, <2>3
<1>11. trimmed' <= G.snaps
  BY <1>1, <1>2, GlobalWritten DEF Sane, FileDesc
<1> QED BY <1>1, <1>6, <1>7, <1>8, <1>9, <1>10, <1>11 DEF Standing

LEMMA CloseGlobalStands ==
  ASSUME ScopeGranted, Sane, Standing, CloseGlobal
  PROVE  Sane' /\ Standing'
<1>1. /\ Serving /\ trimmed = numSnaps /\ Writing(trimmed)
      /\ CloseCall /\ UNCHANGED <<writer, nodeMap, trimmed>>
      /\ stage' = IF ret' = "ok" THEN "close" ELSE "failed"
  BY DEF Standing, CloseGlobal, OrFail
<1>2. Written(D)
  BY <1>1, GlobalWritten DEF Sane, Serving, D, G
<1>3. ScopeTyped'
  BY <1>1 DEF Sane, ScopeTyped
<1>4. [Call]_vars
  BY <1>1 DEF Call
<1>5. Sane' /\ disk' = disk /\ G' = G /\ O' = O
  BY <1>1, <1>2, <1>3, <1>4, ReaderSane
<1>6. filename' = Global /\ Global # Output
  BY <1>1, ScopeAssumption DEF CloseCall, CloseRefused, CloseFile, cursor, Serving
<1>7. Filled(G.snaps)' /\ target' = Output
  <2>1. PICK k : k = trimmed /\ k = G.snaps
    BY <1>1 DEF Serving
  <2>2. G'.snaps = k
    BY <1>5, <2>1
  <2>3. Filled(k)' /\ target' = Output
    BY <1>1, <1>5, <2>1 DEF Writing, Filled, writer
  <2> QED BY <2>2, <2>3
<1> QED BY <1>1, <1>5, <1>6, <1>7 DEF Standing

LEMMA CloseOutputStands ==
  ASSUME Sane, Standing, CloseOutput
  PROVE  Sane' /\ Standing'
<1>1. /\ filename = Global /\ target = Output /\ Filled(G.snaps)
      /\ UNCHANGED reader /\ ret # "crash" /\ ret' = "ok" /\ UNCHANGED disk
      /\ target' = NoWriter /\ ~wopen' /\ wopen' = FALSE /\ stream' = "closed"
      /\ UNCHANGED <<mesh, sparse, varidsOut, numWritten, made, nodeMap, trimmed>>
      /\ stage' = "written"
  BY DEF Standing, CloseOutput, DropWriter, Succeed
<1>2. UNCHANGED <<filename, open, filetype, handle, currentSnap, numSnaps, numNodes, meta, times,
                  varids, records, recordMap, disturbed, opened>>
  BY <1>1 DEF reader, cursor, header, store
<1>3. TypeOK'
  BY <1>1, <1>2 DEF Sane, TypeOK
<1>4. WriterTyped'
  BY <1>1 DEF Sane, WriterTyped
<1>5. ScopeTyped' /\ Given' /\ Whole(G)' /\ G' = G /\ O' = O
  BY <1>1, GlobalStays DEF Sane, ScopeTyped, O
<1>6. Reads'
  BY <1>1, <1>2 DEF Sane, Reads, Session, Stream, PassedStump, FirstIds, NetcdfHeader,
                    AsciiFaithful, NetcdfFaithful, OneLayout, D
<1>7. Filled(G.snaps)'
  BY <1>1, <1>5 DEF Filled
<1> QED BY <1>1, <1>2, <1>3, <1>4, <1>5, <1>6, <1>7 DEF Sane, Standing

LEMMA TakeOutputStands ==
  ASSUME Sane, Standing, TakeOutput
  PROVE  Sane' /\ Standing'
<1>1. /\ filename = Global /\ Filled(G.snaps) /\ Replaced
      /\ UNCHANGED <<writer, nodeMap, trimmed>> /\ stage' = "name"
      /\ UNCHANGED <<disk, filename>>
  BY DEF Standing, TakeOutput, Replaced
<1>2. TypeOK'
  BY <1>1, ReplacedTyped DEF Sane
<1>3. WriterTyped'
  BY <1>1 DEF Sane, WriterTyped, writer
<1>4. ScopeTyped' /\ Given' /\ Whole(G)' /\ G' = G /\ O' = O
  BY <1>1, GlobalStays DEF Sane, ScopeTyped, O
<1>5. Untouched'
  BY <1>1 DEF Replaced, Untouched
<1>6. \A i \in DOMAIN records' : FALSE
  BY <1>1 DEF Replaced
<1>7. Reads'
  <2>1. Session' /\ Stream' /\ FirstIds' /\ NetcdfHeader'
    BY <1>1 DEF Replaced, Session, Stream, FirstIds, NetcdfHeader, NetcdfFormats
  <2> QED BY <1>6, <2>1 DEF Reads, AsciiFaithful, NetcdfFaithful
<1>8. Filled(G.snaps)'
  BY <1>1, <1>4 DEF Filled
<1> QED BY <1>1, <1>2, <1>3, <1>4, <1>5, <1>7, <1>8 DEF Sane, Standing

LEMMA NameStands ==
  ASSUME ScopeGranted, Sane, Standing, ReadOutputFile, stage = "name"
  PROVE  Sane' /\ Standing'
<1>1. /\ Untouched /\ filename = Global /\ Filled(G.snaps)
      /\ SetFilename(Output) /\ stage' = "inspect" /\ UNCHANGED <<writer, nodeMap, trimmed>>
  BY DEF Standing, ReadOutputFile
<1>2. Written(D)
  BY <1>1, GlobalWritten DEF Sane, D, G
<1>3. ScopeTyped'
  BY <1>1 DEF Sane, ScopeTyped
<1>4. [Call]_vars
  BY <1>1, ScopeAssumption, WriterAssumption DEF Call
<1>5. Sane' /\ disk' = disk /\ G' = G /\ O' = O
  BY <1>1, <1>2, <1>3, <1>4, ReaderSane
<1>6. Untouched' /\ filename' = Output
  BY <1>1 DEF SetFilename, Return, Untouched, header, store
<1>7. Filled(G.snaps)'
  BY <1>1, <1>5 DEF Filled
<1> QED BY <1>1, <1>5, <1>6, <1>7 DEF Standing

LEMMA InspectStands ==
  ASSUME Sane, Standing, ReadOutputFile, stage = "inspect"
  PROVE  Sane' /\ Standing'
<1>1. /\ Untouched /\ filename = Output /\ Filled(G.snaps)
      /\ OpenCall /\ UNCHANGED <<writer, nodeMap, trimmed>>
      /\ stage' = IF ret' = "ok" THEN "browse" ELSE "failed"
  BY DEF Standing, ReadOutputFile, OrFail
<1>2. D = O /\ G.snaps \in Nat
  <2>1. Global \in Files
    BY ScopeAssumption
  <2> QED BY <1>1, <2>1 DEF D, O, G, Sane, TypeOK, FileDesc
<1>3. O \in FileDesc /\ Written(O) /\ Sound(O) /\ Len(O.vars) = O.dim
  BY <1>1, <1>2, FilledWritten DEF Sane
<1>4. ScopeTyped'
  BY <1>1 DEF Sane, ScopeTyped
<1>5. [Call]_vars
  BY <1>1 DEF Call
<1>6. Sane' /\ disk' = disk /\ G' = G /\ O' = O
  BY <1>1, <1>2, <1>3, <1>4, <1>5, ReaderSane
<1>7. OpenNetcdf
  BY <1>1, <1>2, <1>3 DEF OpenCall, OpenRefused, OpenUnknown, OpenAscii, AsciiFormats, Sound,
                          Untouched
<1>8. /\ filename' = Output /\ open' /\ opened' = {Output} /\ records' = <<>> /\ handle' = 0
      /\ currentSnap' = 0 /\ numSnaps' = G.snaps
  BY <1>1, <1>2, <1>3, <1>7 DEF OpenNetcdf, OpenCommon, Untouched, store, Sound, Filled
<1>9. Filled(G.snaps)'
  BY <1>1, <1>6 DEF Filled
<1>10. CASE G.snaps = 0
  <2>1. ret' = "crash"
    BY <1>1, <1>2, <1>3, <1>7, <1>10 DEF OpenNetcdf, Abort, Sound, Filled
  <2>2. Stopped'
    BY <1>6, <1>8, <1>10 DEF Stopped
  <2> QED BY <1>1, <1>6, <1>8, <2>1, <2>2 DEF Standing
<1>11. CASE G.snaps # 0
  <2>1. PICK v \in Seq(Nat) : v = O.vars
    BY <1>3 DEF FileDesc
  <2>2. varids \o O.vars = v
    BY <1>1, <2>1, ConcatEmptySeq DEF Untouched
  <2>3. 1 \in 1..O.dim
    BY <1>1 DEF Filled
  <2>4. v[1] = 6 /\ 6 \in O.fields
    BY <1>1, <2>1, <2>3 DEF Filled
  <2>5. ret' = "ok" /\ ~disturbed'
    <3>1. /\ varids' = varids \o D.vars
          /\ IF \E w \in D.fields : varids'[1] <= w THEN Return ELSE Throw
      BY <1>1, <1>2, <1>3, <1>7, <1>11 DEF OpenNetcdf, Sound, Filled
    <3>2. \E w \in O.fields : v[1] <= w
      BY <2>4
    <3> QED BY <1>1, <1>2, <2>2, <3>1, <3>2 DEF Return, Untouched
  <2>6. Browsing'
    <3>1. Len(records') = 0 /\ \A i \in DOMAIN records' : FALSE
      BY <1>8, EmptySeq
    <3> QED BY <1>2, <1>6, <1>8, <2>5, <3>1 DEF Browsing, Closed
  <2> QED BY <1>1, <1>6, <1>9, <2>5, <2>6 DEF Standing
<1> QED BY <1>10, <1>11

LEMMA BrowseStands ==
  ASSUME Sane, Standing, ReadOutputFile, stage = "browse"
  PROVE  Sane' /\ Standing'
<1>1. /\ Browsing /\ Filled(G.snaps)
      /\ ReadCall(NextSnap) /\ UNCHANGED <<writer, nodeMap, trimmed>>
      /\ stage' = IF ret' = "ok" THEN "browse" ELSE "failed"
  BY DEF Standing, ReadOutputFile, OrFail
<1>2. D = O /\ G.snaps \in Nat
  <2>1. Global \in Files
    BY ScopeAssumption
  <2> QED BY <1>1, <2>1 DEF D, O, G, Sane, TypeOK, FileDesc, Browsing
<1>3. O \in FileDesc /\ Written(O) /\ Sound(O) /\ O.dim < 3 /\ Len(O.vars) = O.dim
  BY <1>1, <1>2, FilledWritten DEF Sane
<1>4. ScopeTyped'
  BY <1>1 DEF Sane, ScopeTyped
<1>5. NextSnap \in AnyRequest /\ TypeOK
  BY DEF AnyRequest, Sane
<1>6. Sane' /\ disk' = disk /\ G' = G /\ O' = O
  BY <1>1, <1>2, <1>3, <1>4, <1>5, ReaderSane DEF Call
<1>7. UNCHANGED <<filename, opened>>
  BY <1>1, <1>5, ReadLeaves
<1>8. Wanted(NextSnap) = currentSnap
  BY DEF Wanted
<1>9. /\ filetype \notin AsciiFormats /\ filetype # "unknown"
      /\ times = O.snaps /\ O.snaps = G.snaps /\ ~meta.max /\ meta.dim = O.dim
      /\ Begins(varids, O.vars) /\ OneLayout /\ times > 0 /\ varids # <<>>
  <2>1. filetype = "netcdf4" /\ times > 0 /\ varids # <<>>
    BY <1>1, <1>2, <1>3 DEF Sane, Reads, Session, Browsing, Sound, NetcdfFormats
  <2>2. OneLayout
    BY <1>1 DEF OneLayout, Browsing
  <2>3. NetcdfHeader
    BY DEF Sane, Reads
  <2>4. /\ times = O.snaps /\ meta.max = O.max /\ Begins(varids, O.vars)
        /\ meta.dim = IF Len(O.vars) = 1 THEN 1 ELSE O.dim
    BY <1>1, <1>2, <1>3, <2>2, <2>3 DEF NetcdfHeader, Browsing
  <2> QED BY <1>1, <1>3, <2>1, <2>2, <2>4 DEF Filled, AsciiFormats
<1>10. PICK s \in Seq(OutputRecord) : s = records
  BY <1>5 DEF TypeOK
<1>11. /\ Len(s) = currentSnap /\ currentSnap \in Nat /\ DOMAIN s = 1..currentSnap
       /\ \A i \in 1..currentSnap : s[i].whole /\ s[i].id = i - 1 /\ s[i].holds.snap = i - 1
  BY <1>1, <1>5, <1>10, LenProperties DEF Browsing, Right, TypeOK
<1>12. Filled(G.snaps)'
  BY <1>1, <1>6 DEF Filled
<1>13. CASE ReadNetcdfRecord(NextSnap)
  <2>1. PICK w \in Nat \cup {Garbled} :
          /\ Keep(currentSnap, [file |-> filename, vars |-> O.vars, snap |-> w])
          /\ w = currentSnap \/ (w = Garbled /\ O.max /\ currentSnap = O.snaps)
    BY <1>2, <1>3, <1>5, <1>8, <1>9, <1>13, NetcdfRead DEF Sane, Reads
  <2>2. w = currentSnap
    BY <1>1, <2>1 DEF Filled
  <2>3. PICK h \in Content : /\ h = [file |-> filename, vars |-> O.vars, snap |-> w]
                             /\ h.snap = currentSnap
    <3>1. PICK v \in Seq(Nat) : v = O.vars
      BY <1>3 DEF FileDesc
    <3>2. PICK f \in Files : f = filename
      BY <1>5 DEF TypeOK
    <3>3. [file |-> f, vars |-> v, snap |-> w] \in Content
      BY DEF Content
    <3> QED BY <2>2, <3>1, <3>2, <3>3
  <2>4. PICK r \in OutputRecord : /\ r = NewRecord(currentSnap, h, TRUE)
                                  /\ r.whole /\ r.id = currentSnap /\ r.holds = h
    BY <1>5, <1>11, NewRecordTyped
  <2>5. records' = Append(s, r) /\ currentSnap' = currentSnap + 1 /\ ret' = "ok"
        /\ disturbed' = disturbed
    BY <1>10, <2>1, <2>3, <2>4 DEF Keep, Return
  <2>6. /\ Len(records') = currentSnap + 1 /\ DOMAIN records' = 1..(currentSnap + 1)
        /\ \A i \in 1..currentSnap : records'[i] = s[i]
        /\ records'[currentSnap + 1] = r
    BY <1>11, <2>5, AppendTyped
  <2>7. ASSUME NEW i \in DOMAIN records'
        PROVE  records'[i].whole /\ records'[i].id = i - 1 /\ records'[i].holds.snap = i - 1
    <3>1. CASE i \in 1..currentSnap
      BY <1>11, <2>6, <3>1
    <3>2. CASE i = currentSnap + 1
      <4>1. i - 1 = currentSnap /\ records'[i] = r
        BY <1>11, <2>6, <3>2
      <4> QED BY <2>3, <2>4, <4>1
    <3> QED BY <1>11, <2>6, <3>1, <3>2
  <2>8. currentSnap < O.snaps
    BY <1>2, <1>8, <1>9, <1>13 DEF ReadNetcdfRecord, InFile
  <2>9. UNCHANGED <<open, handle, numSnaps>>
    BY <1>13 DEF ReadNetcdfRecord, ReadingNetcdf, Reading, header
  <2>10. Browsing'
    BY <1>1, <1>2, <1>6, <1>7, <1>9, <1>11, <2>5, <2>6, <2>7, <2>8, <2>9 DEF Browsing, Right
  <2> QED BY <1>1, <1>6, <1>12, <2>5, <2>10 DEF Standing
<1>14. CASE ReadNetcdfError(NextSnap) \/ ReadNetcdfCrash(NextSnap)
  <2>1. OwnFields
    <3>1. O.dim \in {1, 2} /\ \A i \in 1..O.dim : O.vars[i] \in O.fields
      BY <1>1 DEF Filled
    <3>2. Components = IF O.dim = 1 THEN <<1>> ELSE <<1, 2>>
      BY <1>9, <3>1 DEF Components
    <3>3. \A i \in DOMAIN Components : Components[i] \in 1..O.dim
      BY <3>1, <3>2
    <3>4. O.dim <= Len(varids) /\ \A i \in 1..O.dim : varids[i] = O.vars[i]
      BY <1>3, <1>9 DEF Begins
    <3>5. Len(varids) \in Nat
      BY <1>5, LenProperties DEF TypeOK
    <3>6. \A i \in DOMAIN Components : /\ Components[i] <= Len(varids)
                                       /\ varids[Components[i]] \in O.fields
      <4> TAKE i \in DOMAIN Components
      <4>1. PICK c \in 1..O.dim : c = Components[i]
        BY <3>3
      <4> QED BY <3>1, <3>4, <3>5, <4>1
    <3> QED BY <1>2, <3>6 DEF OwnFields, Present
  <2>2. currentSnap = G.snaps
    <3>1. currentSnap <= G.snaps /\ handle # Closed
      BY <1>1 DEF Browsing
    <3>2. CASE ReadNetcdfError(NextSnap)
      <4>1. ~(currentSnap < G.snaps)
        BY <1>2, <1>8, <1>9, <2>1, <3>1, <3>2 DEF ReadNetcdfError, InFile
      <4> QED BY <1>2, <1>11, <3>1, <4>1
    <3>3. CASE ReadNetcdfCrash(NextSnap)
      <4>1. currentSnap >= G.snaps
        BY <1>8, <1>9, <3>3 DEF ReadNetcdfCrash
      <4> QED BY <1>2, <1>11, <3>1, <4>1
    <3> QED BY <1>14, <3>2, <3>3
  <2>3. PICK r \in OutputRecord : /\ r = NewRecord(currentSnap, Nothing(filename), FALSE)
                                  /\ ~r.whole
    <3>1. filename \in Files \cup {Nobody}
      BY <1>5 DEF TypeOK
    <3> QED BY <1>5, <1>11, <3>1, NothingTyped, NewRecordTyped
  <2>4. records' = Append(s, r) /\ ret' \in {"error", "crash"}
    BY <1>8, <1>10, <1>14, <2>3 DEF ReadNetcdfError, ReadNetcdfCrash, Orphan, Throw, Abort
  <2>5. /\ DOMAIN records' = 1..(currentSnap + 1)
        /\ \A i \in 1..currentSnap : records'[i] = s[i]
        /\ records'[currentSnap + 1] = r
    BY <1>11, <2>4, AppendTyped
  <2>6. Stopped'
    <3>1. ASSUME NEW i \in 1..G.snaps PROVE i \in DOMAIN records' /\ records'[i].whole
      BY <1>11, <2>2, <2>5
    <3>2. ASSUME NEW i \in DOMAIN records' PROVE Right(i)'
      <4>1. CASE i \in 1..currentSnap
        BY <1>11, <2>5, <4>1 DEF Right
      <4>2. CASE i = currentSnap + 1
        BY <2>3, <2>5, <4>2 DEF Right
      <4> QED BY <1>11, <2>5, <4>1, <4>2
    <3> QED BY <1>6, <3>1, <3>2 DEF Stopped
  <2> QED BY <1>1, <1>6, <1>7, <2>4, <2>6 DEF Standing, Browsing
<1>15. \/ ReadNetcdfRecord(NextSnap)
       \/ ReadNetcdfError(NextSnap) \/ ReadNetcdfCrash(NextSnap)
  <2>1. ~ReadNetcdfPastLast(NextSnap)
    BY <1>1, <1>2, <1>8, <1>11 DEF ReadNetcdfPastLast, Browsing
  <2> QED BY <1>1, <1>9, <2>1
          DEF ReadCall, ReadUnknown, ReadAsciiPastLast, ReadAsciiRecord, ReadAsciiNoHeader,
              ReadAsciiBadValue, ReadAsciiCrash, ReadingAscii
<1> QED BY <1>13, <1>14, <1>15

-----------------------------------------------------------------------------
LEMMA ScopeStart == InitScope => ScopeInvariant
<1> SUFFICES ASSUME InitScope PROVE ScopeInvariant
  OBVIOUS
<1> USE DEF InitScope, InitWriter
<1>1. TypeOK
  BY TypeStarts
<1>2. WriterTyped
  <2>1. <<>> \in Seq(Nat) /\ <<>> \in Seq(Nat \cup {Garbled})
    BY EmptySeq
  <2> QED BY <2>1 DEF WriterTyped, Makings
<1>3. ScopeTyped
  BY DEF ScopeTyped
<1>4. Given /\ target = NoWriter
  BY DEF Init, Given, G
<1>5. DOMAIN disk = Files
  BY <1>1 DEF TypeOK
<1>6. Reads
  <2>1. \A i \in DOMAIN records : FALSE
    BY DEF Init, Constructed
  <2>2. Session /\ Stream /\ FirstIds /\ NetcdfHeader
    BY DEF Init, Constructed, Session, Stream, FirstIds, NetcdfHeader, NetcdfFormats
  <2> QED BY <2>1, <2>2 DEF Reads, AsciiFaithful, NetcdfFaithful
<1>7. Untouched
  BY DEF Init, Constructed, Untouched
<1>8. Standing
  BY <1>4, <1>7 DEF Standing
<1> QED BY <1>1, <1>2, <1>3, <1>4, <1>5, <1>6, <1>8 DEF ScopeInvariant, Spared, Sane

(* No call of the reader writes, and the writer writes the output. *)
LEMMA ScopeSpares ==
  ASSUME Spared, NextScope
  PROVE  Spared' /\ disk'[Global] = disk[Global]
<1>1. Global \in Files /\ Global # Output /\ NoWriter # Global
  BY ScopeAssumption, WriterAssumption
<1>2. ASSUME NEW f, target # NoWriter, disk' = [disk EXCEPT ![target] = f]
      PROVE  DOMAIN disk' = Files /\ disk'[Global] = disk[Global]
  BY <1>1, <1>2 DEF Spared
<1>3. /\ DOMAIN disk' = Files /\ disk'[Global] = disk[Global]
      /\ target' \in {NoWriter, Output}
  <2>1. CASE OpenGlobal
    BY <2>1 DEF OpenGlobal, OpenCall, OpenRefused, OpenUnknown, OpenAscii, OpenNetcdf, OpenCommon,
                Running, writer, Spared
  <2>2. CASE MakeOutput
    BY <2>2 DEF MakeOutput, MakeWriter, Spared
  <2>3. CASE OpenOutput
    BY <1>2, <2>3 DEF OpenOutput, OpenTarget, OpenTargetAscii, OpenTargetNetcdf, Put, object, Spared
  <2>4. CASE ReadGlobal
    BY <2>4 DEF ReadGlobal, ReadCall, ReadUnknown, ReadAsciiPastLast, ReadAsciiRecord,
                ReadAsciiNoHeader, ReadAsciiBadValue, ReadAsciiCrash, ReadNetcdfPastLast,
                ReadNetcdfRecord, ReadNetcdfError, ReadNetcdfCrash, ReadingAscii, ReadingNetcdf,
                Reading, cursor, Running, writer, Spared
  <2>5. CASE WriteSubset
    <3>1. PICK legible \in BOOLEAN : WriteCall(Subset(records[1]), legible)
      BY <2>5 DEF WriteSubset
    <3> QED BY <1>2, <3>1 DEF WriteCall, WriteRefused, WriteAscii, WriteNetcdf, WriteNetcdfCrash,
                              Put, object, writer, Spared
  <2>6. CASE DropGlobal
    BY <2>6 DEF DropGlobal, ClearAt, cursor, Running, writer, Spared
  <2>7. CASE CloseGlobal
    BY <2>7 DEF CloseGlobal, CloseCall, CloseRefused, CloseFile, cursor, Running, writer, Spared
  <2>8. CASE CloseOutput
    BY <2>8 DEF CloseOutput, DropWriter, Spared
  <2>9. CASE TakeOutput
    BY <2>9 DEF TakeOutput, Replaced, Running, writer, Spared
  <2>10. CASE ReadOutputFile
    <3>1. UNCHANGED writer /\ (SetFilename(Output) \/ OpenCall \/ ReadCall(NextSnap))
      BY <2>10 DEF ReadOutputFile
    <3> QED BY <3>1 DEF SetFilename, OpenCall, OpenRefused, OpenUnknown, OpenAscii, OpenNetcdf,
                OpenCommon, ReadCall, ReadUnknown, ReadAsciiPastLast, ReadAsciiRecord,
                ReadAsciiNoHeader, ReadAsciiBadValue, ReadAsciiCrash, ReadNetcdfPastLast,
                ReadNetcdfRecord, ReadNetcdfError, ReadNetcdfCrash, ReadingAscii, ReadingNetcdf,
                Reading, cursor, Running, writer, Spared
  <2> QED BY <2>1, <2>2, <2>3, <2>4, <2>5, <2>6, <2>7, <2>8, <2>9, <2>10 DEF NextScope, Program
<1> QED BY <1>3 DEF Spared, Given, G

LEMMA ScopeStands ==
  ASSUME ScopeGranted, Output \in NcTargets, Sane, Standing, NextScope
  PROVE  Sane' /\ Standing'
<1>1. CASE ReadOutputFile
  BY <1>1, NameStands, InspectStands, BrowseStands DEF ReadOutputFile
<1> QED BY <1>1, OpenGlobalStands, MakeOutputStands, OpenOutputStands, ReadGlobalStands,
           WriteSubsetStands, DropGlobalStands, CloseGlobalStands, CloseOutputStands,
           TakeOutputStands DEF NextScope, Program

LEMMA ScopeStep ==
  ASSUME ScopeGranted, Output \in NcTargets
  PROVE  ScopeInvariant /\ [NextScope]_scopeVars => ScopeInvariant'
<1> SUFFICES ASSUME ScopeInvariant, [NextScope]_scopeVars PROVE ScopeInvariant'
  OBVIOUS
<1>1. CASE UNCHANGED scopeVars
  <2>1. UNCHANGED <<disk, filename, open, filetype, handle, currentSnap, numSnaps, numNodes, meta,
                    times, varids, records, recordMap, ret, disturbed, opened>>
    BY <1>1 DEF scopeVars, reader, cursor, header, store
  <2>2. UNCHANGED <<target, sparse, wopen, stream, mesh, varidsOut, numWritten, made, stage, nodeMap,
                    trimmed>>
    BY <1>1 DEF scopeVars, writer, scope
  <2>3. D' = D /\ G' = G /\ O' = O
    BY <2>1 DEF D, G, O
  <2>4. Spared'
    BY <2>1, <2>2, <2>3 DEF ScopeInvariant, Spared, Given
  <2>5. ASSUME Sane PROVE TypeOK' /\ WriterTyped' /\ ScopeTyped'
    BY <2>1, <2>2, <2>5 DEF Sane, TypeOK, WriterTyped, ScopeTyped
  <2>6. ASSUME Sane PROVE Reads'
    BY <2>1, <2>3, <2>6 DEF Sane, Reads, Session, Stream, PassedStump, FirstIds, NetcdfHeader,
                            AsciiFaithful, NetcdfFaithful, OneLayout
  <2>7. ASSUME Standing PROVE Standing'
    <3>1. UNCHANGED <<Untouched, Serving, Taken, Browsing, Stopped>>
      BY <2>1, <2>2, <2>3 DEF Untouched, Serving, Taken, Browsing, Stopped, Right
    <3>2. Filled(G.snaps)' = Filled(G.snaps)
      BY <2>3 DEF Filled
    <3>3. ASSUME NEW k, Writing(k) PROVE Writing(k)'
      BY <2>1, <2>2, <2>3, <3>3 DEF Writing, Filled
    <3>4. (stage = "drop" => Writing(trimmed + 1)') /\ (stage \in {"read", "write"} => Writing(trimmed)')
      <4>1. PICK k : k = trimmed + 1 /\ k = trimmed' + 1
        BY <2>2
      <4>2. PICK l : l = trimmed /\ l = trimmed'
        BY <2>2
      <4> QED BY <2>2, <2>7, <3>3, <4>1, <4>2 DEF Standing
    <3> QED BY <2>1, <2>2, <2>3, <2>7, <3>1, <3>2, <3>4 DEF Standing
  <2> QED BY <2>3, <2>4, <2>5, <2>6, <2>7 DEF ScopeInvariant, Sane, Spared
<1>2. CASE NextScope
  <2>1. Spared' /\ disk'[Global] = disk[Global]
    BY <1>2, ScopeSpares DEF ScopeInvariant
  <2>2. ASSUME Whole(G)' PROVE Sane' /\ Standing'
    <3>1. Whole(G)
      BY <2>1, <2>2 DEF Whole, G
    <3> QED BY <1>2, <3>1, ScopeStands DEF ScopeInvariant
  <2> QED BY <2>1, <2>2 DEF ScopeInvariant
<1> QED BY <1>1, <1>2

LEMMA StandingTrims == ScopeInvariant => Trimmed
<1> SUFFICES ASSUME Sane, Standing
             PROVE  /\ filename = Output => \A i \in DOMAIN records : Right(i)
                    /\ InspectionDone =>
                         Cardinality({i \in DOMAIN records : records[i].whole}) >= G.snaps
  BY DEF ScopeInvariant, Trimmed, G, Right
<1>1. ASSUME filename = Output PROVE \A i \in DOMAIN records : Right(i)
  <2>1. Global # Output
    BY ScopeAssumption
  <2>2. stage \in {"inspect", "browse", "failed"}
    BY <1>1, <2>1 DEF Standing, Serving, Sane, ScopeTyped
  <2>3. stage = "inspect" => \A i \in DOMAIN records : FALSE
    BY DEF Standing, Untouched
  <2> QED BY <1>1, <2>2, <2>3 DEF Standing, Browsing, Stopped
<1>2. ASSUME InspectionDone
      PROVE  Cardinality({i \in DOMAIN records : records[i].whole}) >= G.snaps
  <2> DEFINE W == {i \in DOMAIN records : records[i].whole}
  <2>1. Stopped
    BY <1>2 DEF InspectionDone, Standing
  <2>2. G.snaps \in Nat
    BY ScopeAssumption DEF Sane, TypeOK, FileDesc, G
  <2>3. 1..G.snaps \subseteq W
    BY <2>1 DEF Stopped
  <2>4. DOMAIN records = 1..Len(records) /\ Len(records) \in Nat
    BY LenProperties DEF Sane, TypeOK
  <2>5. IsFiniteSet(DOMAIN records)
    BY <2>4, FS_Interval
  <2>6. IsFiniteSet(W)
    BY <2>5, FS_Subset
  <2>7. Cardinality(1..G.snaps) <= Cardinality(W)
    BY <2>3, <2>6, FS_Subset
  <2>8. Cardinality(1..G.snaps) = G.snaps
    <3>1. CASE G.snaps = 0
      <4>1. 1..G.snaps = {}
        BY <3>1
      <4> QED BY <3>1, <4>1, FS_EmptySet
    <3>2. CASE G.snaps > 0
      BY <2>2, <3>2, FS_Interval
    <3> QED BY <2>2, <3>1, <3>2
  <2>9. Cardinality(W) \in Nat
    BY <2>6, FS_CardinalityType
  <2> QED BY <2>2, <2>7, <2>8, <2>9
<1> QED BY <1>1, <1>2

(* Where resultsScope stands in its loop, what its reader and its writer   *)
(* hold, and what the output is by then: the first snaps of the input.     *)
THEOREM ScopeInvariantAlways ==
  ASSUME ScopeGranted, Output \in NcTargets
  PROVE  SpecScope => []ScopeInvariant
BY ScopeStart, ScopeStep, PTL DEF SpecScope

(* resultsScope leaves nothing out: of a global file in any format whose    *)
(* records subsetRecord() copies whole, the netCDF file it makes has every  *)
(* snap, in order, and a reader that goes through the output gets them all. *)
THEOREM TrimmedAlways ==
  ASSUME ScopeGranted, Output \in NcTargets
  PROVE  SpecScope => []Trimmed
BY ScopeInvariantAlways, StandingTrims, PTL

-----------------------------------------------------------------------------
(***************************************************************************)
(* interpolateAdcircStations.                                              *)
(*                                                                         *)
(* The program of StationInterpolation implements SnapWindow, for every    *)
(* file that was written by a model run, damaged or cut afterwards, and    *)
(* every command line the window takes for granted (FilesWritten,          *)
(* WindowGranted).  The reader's invariants of ReadOutputProofs are shown  *)
(* step by step, so they hold of the reader inside the program too: each   *)
(* step of the program is a call of the reader, or replaces it             *)
(* (ReaderSteps).                                                          *)
(***************************************************************************)
Steps == {"options", "probe", "probed", "construct", "open", "mesh", "weights",
          "read", "take", "drop", "written", "failed"}
Before == {"options", "probe", "probed"}   \* the window is being settled
Loop   == {"read", "take", "drop"}

ProgramTyped ==
  /\ pc \in Steps
  /\ opts \in Options
  /\ snap \in Nat
  /\ numSnaps \in Nat
  /\ pc \notin Before \cup {"failed"} => startsnap \in Nat

(* One snap in memory, from its read to its drop. *)
OneHeld ==
  /\ Len(records) <= 1
  /\ pc \notin {"take", "drop", "failed"} => records = <<>>
  /\ pc \in {"take", "drop"} => Len(records) = 1
  /\ pc = "take" /\ filetype \in NetcdfFormats /\ snap > 0 => records[1].id = snap - 1

LEMMA ReaderSteps ==
  ASSUME TypeOK, ProgramTyped, [NextStations]_allVars
  PROVE  [Call]_vars \/ Replaced
<1>1. CASE ReadSnap
  <2>1. Request(snap) \in AnyRequest
    BY DEF ProgramTyped, Request, AnyRequest, NextSnap
  <2> QED BY <1>1, <2>1 DEF ReadSnap, Call
<1>2. CASE DropSnap
  BY <1>2 DEF DropSnap, Call
<1>3. CASE Probe \/ OpenAgain \/ ResolveWindow
  BY <1>3 DEF Probe, OpenAgain, ResolveWindow, Call
<1>4. CASE ConstructReader
  BY <1>4 DEF ConstructReader
<1>5. CASE CheckMeshOption \/ ReadMesh \/ GenerateWeights \/ TakeSnap \/ WriteStations
  BY <1>5 DEF CheckMeshOption, ReadMesh, GenerateWeights, TakeSnap, WriteStations, vars
<1>6. CASE UNCHANGED allVars
  BY <1>6 DEF allVars, vars
<1> QED BY <1>1, <1>2, <1>3, <1>4, <1>5, <1>6 DEF NextStations

LEMMA ProgramTypedKept ==
  ASSUME TypeOK, TypeOK', ProgramTyped, [NextStations]_allVars
  PROVE  ProgramTyped'
<1>1. numSnaps' \in Nat
  BY DEF TypeOK
<1>2. \A o \in Options : o.start = Unset \/ o.start \in Nat
  BY StationAssumption DEF Options
<1>3. CASE ResolveWindow
  <2>1. startsnap' \in Nat
    BY <1>2, <1>3 DEF ResolveWindow, ProgramTyped
  <2>2. pc' \in Steps /\ opts' = opts /\ snap' = snap
    BY <1>3 DEF ResolveWindow, Steps
  <2> QED BY <1>1, <2>1, <2>2 DEF ProgramTyped
<1>4. CASE GenerateWeights
  <2>1. startsnap \in Nat
    BY <1>4 DEF GenerateWeights, ProgramTyped, Before
  <2>2. pc' \in Steps /\ opts' = opts /\ snap' = startsnap /\ startsnap' = startsnap
    BY <1>4 DEF GenerateWeights, Steps
  <2> QED BY <1>1, <2>1, <2>2 DEF ProgramTyped
<1>5. CASE DropSnap
  BY <1>1, <1>5 DEF DropSnap, ProgramTyped, Steps, Before
<1>6. CASE CheckMeshOption
  BY <1>1, <1>6 DEF CheckMeshOption, ProgramTyped, Steps, Before
<1>7. CASE \/ Probe \/ ConstructReader \/ OpenAgain \/ ReadMesh \/ ReadSnap
           \/ TakeSnap \/ WriteStations
  BY <1>1, <1>7 DEF Probe, ConstructReader, OpenAgain, ReadMesh, ReadSnap, TakeSnap,
                    WriteStations, ProgramTyped, Steps, Before
<1>8. CASE UNCHANGED allVars
  BY <1>1, <1>8 DEF allVars, program, ProgramTyped
<1> QED BY <1>3, <1>4, <1>5, <1>6, <1>7, <1>8 DEF NextStations

(* A read that returns pushed one record, and one that throws at most one. *)
LEMMA ReadPushes ==
  ASSUME TypeOK, NEW s \in AnyRequest, ReadCall(s)
  PROVE  /\ records' = records \/ \E r \in OutputRecord : records' = Append(records, r)
         /\ ret' = "ok" => ReadAsciiRecord \/ ReadNetcdfRecord(s)
         /\ ReadNetcdfRecord(s) =>
              /\ filetype' = filetype
              /\ \E r \in OutputRecord : r.id = Wanted(s) /\ records' = Append(records, r)
         /\ ReadAsciiRecord =>
              /\ filetype' = filetype /\ filetype \in AsciiFormats
              /\ \E r \in OutputRecord : records' = Append(records, r)
<1>1. UNCHANGED store \/ StoreKept \/ StoreOrphaned
  <2>1. [Call]_vars
    BY DEF Call
  <2>2. Wanted(s) \in Nat /\ currentSnap \in Nat
    BY WantedTyped DEF TypeOK
  <2>3. CASE ReadUnknown \/ ReadAsciiPastLast \/ ReadNetcdfPastLast(s)
    BY <2>3 DEF ReadUnknown, ReadAsciiPastLast, ReadNetcdfPastLast
  <2>4. CASE ReadAsciiRecord
    BY <2>2, <2>4, AsciiReadKeeps, KeepStep
  <2>5. CASE ReadAsciiNoHeader \/ ReadAsciiBadValue \/ ReadAsciiCrash
    BY <2>2, <2>5, OrphanStep DEF ReadAsciiNoHeader, ReadAsciiBadValue, ReadAsciiCrash,
                                  Orphan
  <2>6. CASE ReadNetcdfRecord(s)
    BY <2>2, <2>6, NetcdfReadKeeps, KeepStep
  <2>7. CASE ReadNetcdfError(s) \/ ReadNetcdfCrash(s)
    BY <2>2, <2>7, OrphanStep DEF ReadNetcdfError, ReadNetcdfCrash, Orphan
  <2> QED BY <2>3, <2>4, <2>5, <2>6, <2>7 DEF ReadCall
<1>2. records' = records \/ \E r \in OutputRecord : records' = Append(records, r)
  BY <1>1 DEF store, StoreKept, StoreOrphaned
<1>3. ret' = "ok" => ReadAsciiRecord \/ ReadNetcdfRecord(s)
  BY DEF ReadCall, ReadUnknown, ReadAsciiPastLast, ReadNetcdfPastLast, ReadAsciiNoHeader,
         ReadAsciiBadValue, ReadAsciiCrash, ReadNetcdfError, ReadNetcdfCrash, Orphan,
         Throw, Refuse, Abort
<1>4. ASSUME ReadNetcdfRecord(s)
      PROVE  /\ filetype' = filetype
             /\ \E r \in OutputRecord : r.id = Wanted(s) /\ records' = Append(records, r)
  <2>1. PICK h \in Content : Keep(Wanted(s), h)
    BY <1>4, NetcdfReadKeeps
  <2>2. NewRecord(Wanted(s), h, TRUE) \in OutputRecord /\ NewRecord(Wanted(s), h, TRUE).id = Wanted(s)
    BY NewRecordTyped, WantedTyped
  <2> QED BY <1>4, <2>1, <2>2 DEF Keep, ReadNetcdfRecord, ReadingNetcdf, Reading
<1>5. ASSUME ReadAsciiRecord
      PROVE  /\ filetype' = filetype /\ filetype \in AsciiFormats
             /\ \E r \in OutputRecord : records' = Append(records, r)
  <2>1. PICK h \in Content : Keep(currentSnap, h)
    BY <1>5, AsciiReadKeeps
  <2>2. NewRecord(currentSnap, h, TRUE) \in OutputRecord
    BY NewRecordTyped DEF TypeOK
  <2> QED BY <1>5, <2>1, <2>2 DEF Keep, ReadAsciiRecord, ReadingAscii, Reading
<1> QED BY <1>2, <1>3, <1>4, <1>5

LEMMA OneHeldKept ==
  ASSUME TypeOK, ProgramTyped, OneHeld, [NextStations]_allVars
  PROVE  OneHeld'
<1> USE DEF OneHeld
<1>1. CASE CheckMeshOption
  BY <1>1 DEF CheckMeshOption, vars, store, cursor
<1>2. CASE Probe
  BY <1>2 DEF Probe, OpenCall, OpenRefused, OpenUnknown, OpenAscii, OpenNetcdf, OpenCommon,
              store
<1>3. CASE ResolveWindow
  BY <1>3 DEF ResolveWindow, CloseCall, CloseRefused, CloseFile, store
<1>4. CASE ConstructReader
  BY <1>4, EmptySeq, LenProperties DEF ConstructReader, Replaced
<1>5. CASE OpenAgain
  BY <1>5 DEF OpenAgain, OpenCall, OpenRefused, OpenUnknown, OpenAscii, OpenNetcdf,
              OpenCommon, store
<1>6. CASE ReadMesh
  BY <1>6 DEF ReadMesh, vars, store, cursor
<1>7. CASE GenerateWeights
  BY <1>7 DEF GenerateWeights, vars, store, cursor
<1>8. CASE ReadSnap
  <2>1. Request(snap) \in AnyRequest
    BY DEF ProgramTyped, Request, AnyRequest, NextSnap
  <2>2. records = <<>> /\ Len(records) = 0 /\ snap' = snap /\ ReadCall(Request(snap))
        /\ pc' = (IF ret' = "ok" THEN "take" ELSE "failed")
    BY <1>8, EmptySeq DEF ReadSnap
  <2>3. Len(records') <= 1
    <3>1. records' = records \/ \E r \in OutputRecord : records' = Append(records, r)
      BY <2>1, <2>2, ReadPushes
    <3>2. ASSUME NEW r \in OutputRecord, records' = Append(records, r)
          PROVE  Len(records') = 1
      BY <2>2, <3>2, AppendTyped DEF TypeOK
    <3>3. CASE records' = records
      BY <2>2, <3>3
    <3> QED BY <3>1, <3>2, <3>3
  <2>4. CASE ret' = "ok"
    <3>1. CASE ReadNetcdfRecord(Request(snap))
      <4>1. PICK r \in OutputRecord : r.id = Wanted(Request(snap)) /\ records' = Append(records, r)
        BY <2>1, <2>2, <3>1, ReadPushes
      <4>2. Len(records') = 1 /\ records'[1] = r
        BY <2>2, <4>1, AppendTyped DEF TypeOK
      <4>3. snap > 0 => Wanted(Request(snap)) = snap - 1
        BY DEF ProgramTyped, Wanted, Request, NextSnap
      <4> QED BY <2>2, <2>4, <4>1, <4>2, <4>3
    <3>2. CASE ReadAsciiRecord
      <4>1. filetype' = filetype /\ filetype \in AsciiFormats
        BY <2>1, <2>2, <3>2, ReadPushes
      <4>2. PICK r \in OutputRecord : records' = Append(records, r)
        BY <2>1, <2>2, <3>2, ReadPushes
      <4>3. Len(records') = 1
        BY <2>2, <4>2, AppendTyped DEF TypeOK
      <4> QED BY <2>2, <2>4, <4>1, <4>3 DEF AsciiFormats, NetcdfFormats
    <3> QED BY <2>1, <2>2, <2>4, <3>1, <3>2, ReadPushes
  <2>5. CASE ret' # "ok"
    BY <2>2, <2>3, <2>5
  <2> QED BY <2>4, <2>5
<1>9. CASE TakeSnap
  BY <1>9 DEF TakeSnap, vars, store, cursor
<1>10. CASE DropSnap
  <2>1. Len(records) = 1 /\ 1 \in DOMAIN records
    BY <1>10, LenProperties DEF DropSnap, TypeOK
  <2>2. records' = RemoveAt(records, 1) /\ ret' = "ok" /\ pc' = "read"
    BY <1>10, <2>1 DEF DropSnap, ClearAt, Return
  <2>3. Len(records') = 0 /\ records' \in Seq(OutputRecord)
    BY <2>1, <2>2, RemoveAtType DEF TypeOK
  <2>4. records' = <<>>
    BY <2>3, EmptySeq
  <2> QED BY <2>2, <2>3, <2>4
<1>11. CASE WriteStations
  BY <1>11 DEF WriteStations, vars, store, cursor
<1>12. CASE UNCHANGED allVars
  BY <1>12 DEF allVars, program, vars, store, cursor
<1> QED BY <1>1, <1>2, <1>3, <1>4, <1>5, <1>6, <1>7, <1>8, <1>9, <1>10, <1>11, <1>12
        DEF NextStations

LEMMA ProgramStarts ==
  ASSUME InitStations
  PROVE  TypeOK /\ ProgramTyped /\ OneHeld
<1>1. TypeOK
  BY TypeStarts DEF InitStations
<1>2. ProgramTyped
  BY <1>1 DEF InitStations, ProgramTyped, TypeOK, Steps, Before
<1>3. records = <<>> /\ Len(records) = 0
  BY EmptySeq DEF InitStations, Init, Constructed
<1> QED BY <1>1, <1>2, <1>3 DEF InitStations, OneHeld

(* The program never holds two snaps at once, and dataAt(0) is the snap just  *)
(* read, for every file, option and order of failures.                        *)
THEOREM OneRecordAlways == SpecStations => []OneRecordAtATime
<1> DEFINE I == TypeOK /\ ProgramTyped /\ OneHeld
<1>1. InitStations => I
  BY ProgramStarts
<1>2. I /\ [NextStations]_allVars => I'
  <2> SUFFICES ASSUME I, [NextStations]_allVars PROVE I'
    OBVIOUS
  <2>1. TypeOK'
    BY ReaderSteps, TypeKept, ReplacedTyped
  <2> QED BY <2>1, ProgramTypedKept, OneHeldKept
<1>3. I => OneRecordAtATime
  BY DEF OneHeld, OneRecordAtATime
<1> QED BY <1>1, <1>2, <1>3, PTL DEF SpecStations

-----------------------------------------------------------------------------
(* Where the program stands in the file. *)

Settling ==
  /\ opened \subseteq {filename}
  /\ pc \in Before \cup {"construct", "open", "mesh", "weights"} => reach = 0 /\ series = <<>>
  /\ pc = "probed" => numSnaps = D.snaps

Aimed ==
  pc \in {"construct", "open", "mesh", "weights"} \cup Loop =>
    /\ startsnap > 0
    /\ endsnap \in Nat /\ endsnap <= D.snaps
    /\ D.format \in AsciiFormats => startsnap = 1

Ready ==
  /\ pc = "open" => ~open /\ ~disturbed
  /\ pc \in {"mesh", "weights"} \cup Loop =>
       open /\ ~disturbed /\ (D.format \in NetcdfFormats => Sound(D))
  /\ pc \in {"mesh", "weights"} => currentSnap = 0
  /\ pc \in {"weights"} \cup Loop => startsnap <= endsnap

Placed ==
  pc \in Loop =>
    /\ reach # 0
    /\ startsnap <= snap
    /\ snap <= IF pc = "read" THEN endsnap + 1 ELSE endsnap
    /\ series \in Seq(Content)
    /\ Len(series) = IF pc = "drop" THEN snap - startsnap + 1 ELSE snap - startsnap
    /\ currentSnap = IF pc = "read" THEN snap - startsnap ELSE snap - startsnap + 1

(* The record in memory is the snap the loop is at. *)
Fetched ==
  pc = "take" => \/ records[1].holds.snap = snap - 1
                 \/ records[1].holds.snap = Garbled /\ D.cut

LEMMA FileStays ==
  ASSUME [NextStations]_allVars
  PROVE  disk' = disk /\ filename' = filename /\ D' = D
<1>1. disk' = disk /\ filename' = filename
  <2>1. CASE Probe \/ OpenAgain \/ ResolveWindow
    BY <2>1 DEF Probe, OpenAgain, ResolveWindow, OpenCall, OpenRefused, OpenUnknown,
                OpenAscii, OpenNetcdf, OpenCommon, CloseCall, CloseRefused, CloseFile,
                Running, cursor
  <2>2. CASE ReadSnap
    BY <2>2 DEF ReadSnap, ReadCall, ReadUnknown, ReadAsciiPastLast, ReadAsciiRecord,
                ReadAsciiNoHeader, ReadAsciiBadValue, ReadAsciiCrash, ReadNetcdfPastLast,
                ReadNetcdfRecord, ReadNetcdfError, ReadNetcdfCrash, ReadingAscii,
                ReadingNetcdf, Reading, Running, cursor
  <2>3. CASE DropSnap \/ ConstructReader
    BY <2>3 DEF DropSnap, ClearAt, Running, cursor, ConstructReader, Replaced
  <2>4. CASE CheckMeshOption \/ ReadMesh \/ GenerateWeights \/ TakeSnap \/ WriteStations
    BY <2>4 DEF CheckMeshOption, ReadMesh, GenerateWeights, TakeSnap, WriteStations,
                vars, cursor
  <2>5. CASE UNCHANGED allVars
    BY <2>5 DEF allVars, vars, cursor
  <2> QED BY <2>1, <2>2, <2>3, <2>4, <2>5 DEF NextStations
<1> QED BY <1>1 DEF D

LEMMA ReplacedAgrees ==
  ASSUME Agree, Replaced
  PROVE  Agree'
BY DEF Agree, Replaced, Session, Stream, FirstIds, NetcdfHeader, NetcdfFormats

(* An open that returned has a readable header behind it. *)
LEMMA Opened ==
  ASSUME TypeOK, OpenCall, opened \subseteq {filename}
  PROVE  /\ opened' \subseteq {filename}
         /\ currentSnap' = currentSnap
         /\ ret' = "ok" =>
              /\ open' /\ numSnaps' = D.snaps
              /\ disturbed' = disturbed
              /\ D.format \in NetcdfFormats => Sound(D)
<1>1. CASE OpenRefused
  BY <1>1 DEF OpenRefused, Refuse, cursor
<1>2. CASE OpenUnknown
  BY <1>2 DEF OpenUnknown, Throw
<1>3. CASE OpenAscii
  BY <1>3 DEF OpenAscii, OpenCommon, Throw, Return, AsciiFormats, NetcdfFormats
<1>4. CASE OpenNetcdf
  BY <1>4 DEF OpenNetcdf, OpenCommon, Throw, Return, Abort, Sound, NetcdfFormats
<1> QED BY <1>1, <1>2, <1>3, <1>4 DEF OpenCall

LEMMA SettlingKept ==
  ASSUME TypeOK, ProgramTyped, Settling, [NextStations]_allVars
  PROVE  Settling'
<1> USE DEF Settling, Before
<1>0. D' = D /\ filename' = filename
  BY FileStays
<1>1. CASE Probe \/ OpenAgain
  BY <1>0, <1>1, Opened DEF Probe, OpenAgain
<1>2. CASE ResolveWindow
  BY <1>0, <1>2 DEF ResolveWindow, CloseCall, CloseRefused, CloseFile
<1>3. CASE ReadSnap
  <2>1. opened' = opened
    BY <1>3 DEF ReadSnap, ReadCall, ReadUnknown, ReadAsciiPastLast, ReadAsciiRecord,
                ReadAsciiNoHeader, ReadAsciiBadValue, ReadAsciiCrash, ReadNetcdfPastLast,
                ReadNetcdfRecord, ReadNetcdfError, ReadNetcdfCrash, ReadingAscii,
                ReadingNetcdf, Reading
  <2> QED BY <1>0, <1>3, <2>1 DEF ReadSnap
<1>4. CASE DropSnap
  BY <1>0, <1>4 DEF DropSnap, ClearAt
<1>5. CASE ConstructReader
  BY <1>0, <1>5 DEF ConstructReader, Replaced
<1>6. CASE CheckMeshOption \/ ReadMesh \/ GenerateWeights \/ TakeSnap \/ WriteStations
  BY <1>0, <1>6 DEF CheckMeshOption, ReadMesh, GenerateWeights, TakeSnap, WriteStations,
                    vars
<1>7. CASE UNCHANGED allVars
  BY <1>0, <1>7 DEF allVars, program, vars, header
<1> QED BY <1>1, <1>2, <1>3, <1>4, <1>5, <1>6, <1>7 DEF NextStations

LEMMA AimedKept ==
  ASSUME WindowGranted, TypeOK, ProgramTyped, Agree, Settling, Aimed, [NextStations]_allVars
  PROVE  Aimed'
<1> USE DEF Aimed, Loop
<1>0. D' = D /\ filename' = filename
  BY FileStays
<1>1. CASE ResolveWindow
  <2> SUFFICES ASSUME pc' = "construct" PROVE Aimed'
    BY <1>1 DEF ResolveWindow
  <2>1. ~StartRefused /\ ~EndRefused /\ numSnaps = D.snaps /\ D.snaps \in Nat
    BY <1>1, FileTyped DEF ResolveWindow, Settling, FileDesc
  <2>2. opts.start \in StartSnaps /\ opts.end \in EndSnaps
    BY DEF ProgramTyped, Options
  <2>3. startsnap' > 0
    BY <1>1, <2>2, StationAssumption DEF ResolveWindow, WindowGranted, Unset
  <2>4. endsnap' \in Nat /\ endsnap' <= D.snaps
    <3>1. CASE opts.end = Unset
      <4>1. endsnap' = numSnaps
        BY <1>1, <3>1 DEF ResolveWindow
      <4> QED BY <2>1, <4>1
    <3>2. CASE opts.end # Unset
      <4>1. endsnap' = opts.end /\ opts.end <= numSnaps
        BY <1>1, <2>1, <2>2, <3>2, StationAssumption DEF ResolveWindow, EndRefused, ProgramTyped
      <4>2. opts.end \in Nat
        BY <2>2, <3>2, StationAssumption
      <4> QED BY <2>1, <4>1, <4>2
    <3> QED BY <3>1, <3>2
  <2>5. D.format \in AsciiFormats => startsnap' = 1
    <3>1. D.format \in AsciiFormats => ~Named
      BY DEF WindowGranted, Agree, D, Named
    <3> QED BY <1>1, <2>1, <3>1 DEF ResolveWindow, StartRefused
  <2> QED BY <1>0, <2>3, <2>4, <2>5
<1>2. CASE CheckMeshOption \/ Probe
  BY <1>2 DEF CheckMeshOption, Probe
<1>3. CASE \/ ConstructReader \/ OpenAgain \/ ReadMesh \/ GenerateWeights \/ ReadSnap
           \/ TakeSnap \/ DropSnap \/ WriteStations
  BY <1>0, <1>3 DEF ConstructReader, OpenAgain, ReadMesh, GenerateWeights, ReadSnap,
                    TakeSnap, DropSnap, WriteStations
<1>4. CASE UNCHANGED allVars
  BY <1>0, <1>4 DEF allVars, program
<1> QED BY <1>1, <1>2, <1>3, <1>4 DEF NextStations

LEMMA ReadyKept ==
  ASSUME TypeOK, ProgramTyped, Agree, Settling, Aimed, Ready, [NextStations]_allVars
  PROVE  Ready'
<1> USE DEF Ready, Loop
<1>0. D' = D
  BY FileStays
<1>1. CASE OpenAgain
  <2>1. ~disturbed /\ currentSnap = 0
    BY <1>1 DEF OpenAgain, Agree, Session
  <2> QED BY <1>0, <1>1, <2>1, Opened DEF OpenAgain, Settling
<1>2. CASE ConstructReader
  BY <1>2 DEF ConstructReader, Replaced
<1>3. CASE ReadMesh
  <2>1. UNCHANGED <<open, disturbed, currentSnap, startsnap, endsnap>> /\ pc = "mesh"
    BY <1>3 DEF ReadMesh, vars, cursor
  <2>2. pc' = "weights" => ~(endsnap < startsnap)
    BY <1>3 DEF ReadMesh
  <2>3. startsnap \in Nat /\ endsnap \in Nat
    BY <2>1 DEF ProgramTyped, Before, Aimed
  <2>4. pc' \in {"weights", "failed"}
    BY <1>3 DEF ReadMesh
  <2> QED BY <1>0, <2>1, <2>2, <2>3, <2>4
<1>4. CASE ReadSnap
  <2> SUFFICES ASSUME ret' = "ok" PROVE Ready'
    BY <1>4 DEF ReadSnap
  <2>1. Request(snap) \in AnyRequest
    BY DEF ProgramTyped, Request, AnyRequest, NextSnap
  <2>2. ReadAsciiRecord \/ ReadNetcdfRecord(Request(snap))
    BY <1>4, <2>1, ReadPushes DEF ReadSnap
  <2>3. open' = open /\ disturbed' = disturbed
    BY <2>2 DEF ReadAsciiRecord, ReadingAscii, ReadNetcdfRecord, ReadingNetcdf, Reading,
                Keep, Return
  <2> QED BY <1>0, <1>4, <2>3 DEF ReadSnap
<1>5. CASE DropSnap
  BY <1>0, <1>5 DEF DropSnap, ClearAt, Return, Refuse, cursor
<1>6. CASE GenerateWeights \/ TakeSnap \/ WriteStations
  BY <1>0, <1>6 DEF GenerateWeights, TakeSnap, WriteStations, vars, cursor
<1>7. CASE CheckMeshOption \/ Probe \/ ResolveWindow
  BY <1>7 DEF CheckMeshOption, Probe, ResolveWindow
<1>8. CASE UNCHANGED allVars
  BY <1>0, <1>8 DEF allVars, program, vars, cursor
<1> QED BY <1>1, <1>2, <1>3, <1>4, <1>5, <1>6, <1>7, <1>8 DEF NextStations

LEMMA PlacedKept ==
  ASSUME TypeOK, ProgramTyped, OneHeld, Settling, Aimed, Ready, Placed,
         [NextStations]_allVars
  PROVE  Placed'
<1> USE DEF Placed, Loop
<1>1. CASE GenerateWeights
  <2> SUFFICES ASSUME pc' = "read" PROVE Placed'
    BY <1>1 DEF GenerateWeights
  <2>1. /\ series' = <<>> /\ reach' # 0 /\ snap' = startsnap /\ startsnap' = startsnap
        /\ endsnap' = endsnap /\ currentSnap' = 0 /\ startsnap <= endsnap
    BY <1>1 DEF GenerateWeights, Settling, Ready, vars, cursor
  <2>2. startsnap \in Nat /\ endsnap \in Nat
    BY <1>1 DEF GenerateWeights, ProgramTyped, Before, Aimed
  <2>3. <<>> \in Seq(Content) /\ Len(<<>>) = 0
    BY EmptySeq
  <2> QED BY <2>1, <2>2, <2>3
<1>2. CASE ReadSnap
  <2> SUFFICES ASSUME ret' = "ok" PROVE Placed'
    BY <1>2 DEF ReadSnap
  <2>1. Request(snap) \in AnyRequest
    BY DEF ProgramTyped, Request, AnyRequest, NextSnap
  <2>2. ReadAsciiRecord \/ ReadNetcdfRecord(Request(snap))
    BY <1>2, <2>1, ReadPushes DEF ReadSnap
  <2>3. currentSnap' = currentSnap + 1
    BY <2>2 DEF ReadAsciiRecord, ReadNetcdfRecord, Keep
  <2> QED BY <1>2, <2>3 DEF ReadSnap
<1>3. CASE TakeSnap
  <2> SUFFICES ASSUME pc' = "drop" PROVE Placed'
    BY <1>3 DEF TakeSnap
  <2>1. Len(records) = 1 /\ 1 \in DOMAIN records
    BY <1>3, LenProperties DEF TakeSnap, OneHeld, TypeOK
  <2>2. records[1].holds \in Content
    <3>1. records \in Seq(OutputRecord) /\ 1 \in 1..Len(records)
      BY <2>1 DEF TypeOK
    <3>2. records[1] \in OutputRecord
      BY <3>1, ElementOfSeq
    <3> QED BY <3>2 DEF OutputRecord
  <2>3. series' = Append(series, records[1].holds) /\ series \in Seq(Content)
    BY <1>3 DEF TakeSnap
  <2>4. series' \in Seq(Content) /\ Len(series') = Len(series) + 1
    BY <2>2, <2>3, AppendTyped
  <2> QED BY <1>3, <2>4 DEF TakeSnap, vars, cursor
<1>4. CASE DropSnap
  <2>1. pc' = "read" \/ pc' = "failed"
    BY <1>4 DEF DropSnap
  <2>2. startsnap \in Nat /\ endsnap \in Nat /\ snap \in Nat
    BY <1>4 DEF DropSnap, ProgramTyped, Before, Aimed
  <2> QED BY <1>4, <2>1, <2>2 DEF DropSnap, ClearAt, cursor
<1>5. CASE \/ CheckMeshOption \/ Probe \/ ResolveWindow \/ ConstructReader \/ OpenAgain
           \/ ReadMesh \/ WriteStations
  BY <1>5 DEF CheckMeshOption, Probe, ResolveWindow, ConstructReader, OpenAgain, ReadMesh,
              WriteStations
<1>6. CASE UNCHANGED allVars
  BY <1>6 DEF allVars, program, vars, cursor
<1> QED BY <1>1, <1>2, <1>3, <1>4, <1>5, <1>6 DEF NextStations

LEMMA FetchedKept ==
  ASSUME FilesWritten, WindowGranted, TypeOK, ProgramTyped, OneHeld, Agree, Settling, Aimed,
         Ready, Placed, Fetched, [NextStations]_allVars
  PROVE  Fetched'
<1>0. D' = D
  BY FileStays
<1>1. CASE ReadSnap
  <2> SUFFICES ASSUME ret' = "ok" PROVE Fetched'
    BY <1>1 DEF ReadSnap, Fetched
  <2> DEFINE s == Request(snap)
  <2>1. s \in AnyRequest
    BY DEF ProgramTyped, Request, AnyRequest, NextSnap
  <2>2. ReadAsciiRecord \/ ReadNetcdfRecord(s)
    BY <1>1, <2>1, ReadPushes DEF ReadSnap
  <2>3. Session /\ Stream /\ NetcdfHeader /\ disk \in Disks /\ Written(D)
    BY OpenWritten DEF Agree
  <2>4. Len(records) = 0 /\ snap' = snap
    BY <1>1, EmptySeq DEF ReadSnap, OneHeld
  <2>5. /\ startsnap \in Nat /\ startsnap > 0 /\ snap \in Nat /\ startsnap <= snap
        /\ snap <= endsnap /\ endsnap <= D.snaps /\ endsnap \in Nat
        /\ currentSnap = snap - startsnap /\ ~disturbed
        /\ D.format \in NetcdfFormats => Sound(D)
        /\ D.format \in AsciiFormats => startsnap = 1
    BY <1>1 DEF ReadSnap, ProgramTyped, Before, Aimed, Placed, Ready, Loop
  <2>6. CASE ReadAsciiRecord
    <3>1. D.format \in AsciiFormats
      BY <2>3, <2>6 DEF ReadAsciiRecord, ReadingAscii, AtRecord, Session
    <3>2. PICK k \in {currentSnap, Garbled} :
            /\ k = Garbled => D.cut
            /\ Keep(currentSnap, [file |-> filename, snap |-> k, vars |-> <<>>])
      <4>1. HeadersWhole(D)
        BY <2>3, Zenon DEF TypeOK, WindowGranted, D
      <4>2. D.lines[Top].kind # "stump" /\ ~PassedStump
        <5>1. Top \in DOMAIN D.lines
          BY <2>3, <2>6, StumpBehind
        <5> QED BY <4>1, <5>1 DEF HeadersWhole, PassedStump
      <4> QED BY <2>3, <2>5, <2>6, <4>2, StraightRead
    <3> DEFINE h == [file |-> filename, snap |-> k, vars |-> <<>>]
    <3>3. h \in Content /\ currentSnap \in Nat
      <4>1. <<>> \in Seq(Nat)
        BY EmptySeq
      <4> QED BY <4>1 DEF Content, TypeOK
    <3>4. records'[1].holds = h
      BY <2>4, <3>2, <3>3, KeptRecord
    <3>5. currentSnap = snap - 1
      BY <2>5, <3>1
    <3> QED BY <1>0, <2>4, <3>2, <3>4, <3>5 DEF Fetched
  <2>7. CASE ReadNetcdfRecord(s)
    <3>1. D.format \in NetcdfFormats
      BY <2>3, <2>7 DEF ReadNetcdfRecord, ReadingNetcdf, InFile, Session
    <3>2. D.dim < 3
      BY <2>3, <3>1 DEF WindowGranted, TypeOK, D
    <3>3. OneLayout
      BY DEF Settling, OneLayout
    <3>4. PICK k \in Nat \cup {Garbled} :
            /\ Keep(Wanted(s), [file |-> filename, vars |-> D.vars, snap |-> k])
            /\ k = Wanted(s) \/ (k = Garbled /\ D.max /\ Wanted(s) = D.snaps)
      BY <2>1, <2>3, <2>5, <2>7, <3>1, <3>2, <3>3, NetcdfRead
    <3> DEFINE h == [file |-> filename, vars |-> D.vars, snap |-> k]
    <3>5. h \in Content
      BY FileTyped DEF FileDesc, Content, TypeOK
    <3>6. Wanted(s) \in Nat
      BY <2>1, WantedTyped
    <3>7. records'[1].holds = h
      BY <2>4, <3>4, <3>5, <3>6, KeptRecord
    <3>8. Wanted(s) = snap - 1
      BY <2>5 DEF Wanted, Request, NextSnap
    <3>9. D.snaps \in Nat
      BY FileTyped DEF FileDesc
    <3>10. k = snap - 1
      BY <2>5, <3>4, <3>8, <3>9
    <3> QED BY <2>4, <3>7, <3>10 DEF Fetched
  <2> QED BY <2>2, <2>6, <2>7
<1>2. CASE \/ CheckMeshOption \/ Probe \/ ResolveWindow \/ ConstructReader \/ OpenAgain
           \/ ReadMesh \/ GenerateWeights \/ TakeSnap \/ DropSnap \/ WriteStations
  BY <1>2 DEF CheckMeshOption, Probe, ResolveWindow, ConstructReader, OpenAgain, ReadMesh,
              GenerateWeights, TakeSnap, DropSnap, WriteStations, Fetched
<1>3. CASE UNCHANGED allVars
  BY <1>0, <1>3 DEF allVars, program, vars, store, Fetched
<1> QED BY <1>1, <1>2, <1>3 DEF NextStations

-----------------------------------------------------------------------------
(* The window. *)

WindowInv ==
  TypeOK /\ ProgramTyped /\ OneHeld /\ Agree /\ Settling /\ Aimed /\ Ready /\ Placed /\ Fetched

LEMMA WindowStarts ==
  ASSUME InitStations
  PROVE  WindowInv /\ Window!Init
<1>1. TypeOK /\ ProgramTyped /\ OneHeld
  BY ProgramStarts
<1>2. Agree
  BY DEF InitStations, Init, Constructed, Agree, Session, Stream, FirstIds, NetcdfHeader,
         NetcdfFormats
<1>3. Settling /\ Aimed /\ Ready /\ Placed /\ Fetched
  BY DEF InitStations, Init, Constructed, Settling, Aimed, Ready, Placed, Fetched, Loop, Before
<1>4. Window!Init
  <2>1. [j \in DOMAIN series |-> Delivered(j)] = <<>>
    BY DEF InitStations
  <2> QED BY <2>1 DEF InitStations, Window!Init, Window!NoWindow
<1> QED BY <1>1, <1>2, <1>3, <1>4 DEF WindowInv

LEMMA WindowInvKept ==
  ASSUME FilesWritten, WindowGranted, WindowInv, [NextStations]_allVars
  PROVE  WindowInv'
<1> USE DEF WindowInv
<1>1. TypeOK'
  BY ReaderSteps, TypeKept, ReplacedTyped
<1>2. Agree'
  BY ReaderSteps, AgreeKept, ReplacedAgrees
<1>3. ProgramTyped' /\ OneHeld'
  BY <1>1, ProgramTypedKept, OneHeldKept
<1>4. Settling' /\ Aimed'
  BY SettlingKept, AimedKept DEF Agree
<1>5. Ready' /\ Placed' /\ Fetched'
  BY ReadyKept, PlacedKept, FetchedKept
<1> QED BY <1>1, <1>2, <1>3, <1>4, <1>5

(* What has been delivered stays delivered as long as the series does. *)
LEMMA DeliveriesStay ==
  ASSUME D' = D, series' = series, startsnap' = startsnap \/ series = <<>>
  PROVE  [j \in DOMAIN series |-> Delivered(j)]' = [j \in DOMAIN series |-> Delivered(j)]
<1>1. CASE startsnap' = startsnap
  BY <1>1 DEF Delivered
<1>2. CASE series = <<>>
  <2>1. DOMAIN series = {} /\ DOMAIN series' = {}
    BY <1>2
  <2> QED BY <2>1
<1> QED BY <1>1, <1>2

(* Taking a snap delivers the one that is due. *)
LEMMA TakeDelivers ==
  ASSUME WindowInv, TakeSnap, pc' = "drop"
  PROVE  Window!Deliver
<1>1. /\ pc = "take" /\ series' = Append(series, records[1].holds)
      /\ UNCHANGED <<startsnap, endsnap, reach>>
  BY DEF TakeSnap
<1>2. D' = D
  BY FileStays DEF NextStations
<1>3. /\ reach # 0 /\ snap <= endsnap /\ startsnap <= snap
      /\ series \in Seq(Content) /\ Len(series) = snap - startsnap
      /\ startsnap \in Nat /\ endsnap \in Nat /\ snap \in Nat /\ startsnap > 0
  BY <1>1 DEF WindowInv, Placed, Loop, ProgramTyped, Before, Aimed
<1>4. records[1].holds \in Content
  <2>1. records \in Seq(OutputRecord) /\ Len(records) = 1
    BY <1>1 DEF WindowInv, TypeOK, OneHeld
  <2>2. 1 \in 1..Len(records)
    BY <2>1
  <2>3. records[1] \in OutputRecord
    BY <2>1, <2>2, ElementOfSeq
  <2> QED BY <2>3 DEF OutputRecord
<1>5. /\ Len(series) \in Nat /\ DOMAIN series = 1..Len(series)
      /\ DOMAIN series' = 1..(Len(series) + 1)
      /\ \A i \in 1..Len(series) : series'[i] = series[i]
      /\ series'[Len(series) + 1] = records[1].holds
  BY <1>1, <1>3, <1>4, AppendTyped
<1> DEFINE V == [j \in DOMAIN series |-> Delivered(j)]
           due == startsnap - 1 + Len(series)
<1>6. V' = [j \in 1..(Len(series) + 1) |-> Delivered(j)']
  BY <1>5
<1>7. \A j \in 1..Len(series) : Delivered(j)' = Delivered(j)
  BY <1>1, <1>2, <1>5 DEF Delivered
<1>8. ASSUME NEW n, n = Len(series) + 1 PROVE Delivered(n)' = due
  <2>1. Fetched
    BY DEF WindowInv
  <2>2. records[1].holds.snap = snap - 1 \/ (records[1].holds.snap = Garbled /\ D.cut)
    BY <1>1, <2>1 DEF Fetched
  <2>3. snap - 1 = due /\ due # Garbled /\ startsnap + n - 2 = due
    BY <1>3, <1>8 DEF Garbled
  <2>4. series'[n].snap = records[1].holds.snap
    BY <1>5, <1>8
  <2>5. Delivered(n)' = IF series'[n].snap = Garbled /\ D.cut
                        THEN startsnap + n - 2 ELSE series'[n].snap
    BY <1>1, <1>2 DEF Delivered
  <2> QED BY <2>2, <2>3, <2>4, <2>5
<1>9. Len(V) = Len(series) /\ DOMAIN V = 1..Len(series)
  BY <1>5
<1>10. V' = Append(V, due)
  <2>1. ASSUME NEW j \in 1..(Len(series) + 1)
        PROVE  Delivered(j)' = IF j = Len(series) + 1 THEN due ELSE Delivered(j)
    BY <1>5, <1>7, <1>8
  <2>2. V' = [j \in 1..(Len(series) + 1) |->
                IF j = Len(series) + 1 THEN due ELSE Delivered(j)]
    BY <1>6, <2>1
  <2>3. \A j \in 1..Len(series) : V[j] = Delivered(j)
    BY <1>5
  <2>4. [j \in 1..(Len(series) + 1) |-> IF j = Len(series) + 1 THEN due ELSE Delivered(j)]
          = [j \in 1..(Len(series) + 1) |-> IF j = Len(series) + 1 THEN due ELSE V[j]]
    BY <1>5, <2>3
  <2> DEFINE All == {Delivered(j) : j \in 1..Len(series)} \cup {due}
  <2>6. V \in Seq(All) /\ due \in All
    BY <1>5, IsASeq
  <2> HIDE DEF V, due, All
  <2>5. Append(V, due) = [j \in 1..(Len(series) + 1) |->
                            IF j = Len(series) + 1 THEN due ELSE V[j]]
    <3>1. PICK a : a = Append(V, due)
      OBVIOUS
    <3>2. a \in Seq(All) /\ Len(a) = Len(series) + 1
      BY <1>9, <2>6, <3>1, AppendTyped
    <3>3. a \in [1..(Len(series) + 1) -> All]
      BY <3>2, LenProperties
    <3>4. \A j \in 1..(Len(series) + 1) : a[j] = IF j = Len(series) + 1 THEN due ELSE V[j]
      BY <1>5, <1>9, <2>6, <3>1, AppendTyped
    <3>5. a = [j \in 1..(Len(series) + 1) |-> IF j = Len(series) + 1 THEN due ELSE V[j]]
      BY <3>3, <3>4
    <3> QED BY <3>1, <3>5
  <2> QED BY <2>2, <2>4, <2>5
<1>11. Window!Due = due /\ due <= endsnap - 1
  BY <1>3, <1>9 DEF Window!Due
<1>12. V' = Append(V, Window!Due) /\ Window!Due <= endsnap - 1
  BY <1>10, <1>11
<1> QED BY <1>1, <1>3, <1>12 DEF Window!Deliver

LEMMA WindowStep ==
  ASSUME WindowInv, [NextStations]_allVars
  PROVE  [Window!Next]_(Window!vars)
<1>0. D' = D
  BY FileStays
<1>1. CASE GenerateWeights
  <2>1. /\ pc = "weights" /\ reach = 0 /\ series = <<>>
        /\ UNCHANGED <<startsnap, endsnap, series>>
        /\ pc' = (IF reach' = 0 THEN "failed" ELSE "read")
    BY <1>1 DEF GenerateWeights, WindowInv, Settling
  <2>2. [j \in DOMAIN series |-> Delivered(j)]' = [j \in DOMAIN series |-> Delivered(j)]
    BY <1>0, <2>1, DeliveriesStay
  <2>3. startsnap - 1 \in Nat /\ endsnap - 1 \in Nat
    BY <2>1 DEF WindowInv, ProgramTyped, Before, Aimed, Ready
  <2>4. CASE reach' = 0
    BY <2>1, <2>2, <2>4 DEF Window!Next, Window!Fail
  <2>5. CASE reach' # 0
    BY <2>1, <2>2, <2>3, <2>5 DEF Window!Next, Window!Settle, Window!NoWindow
  <2> QED BY <2>4, <2>5
<1>2. CASE TakeSnap
  <2>1. CASE pc' = "drop"
    BY <1>2, <2>1, TakeDelivers DEF Window!Next
  <2>2. CASE pc' # "drop"
    <3>1. pc = "take" /\ pc' = "failed" /\ UNCHANGED <<startsnap, endsnap, reach, series>>
      BY <1>2, <2>2 DEF TakeSnap
    <3>2. [j \in DOMAIN series |-> Delivered(j)]' = [j \in DOMAIN series |-> Delivered(j)]
      BY <1>0, <3>1, DeliveriesStay
    <3> QED BY <3>1, <3>2 DEF Window!Next, Window!Fail
  <2> QED BY <2>1, <2>2
<1>3. CASE WriteStations
  <2>1. /\ pc = "read" /\ pc' = "written" /\ snap > endsnap
        /\ UNCHANGED <<startsnap, endsnap, reach, series>>
    BY <1>3 DEF WriteStations
  <2>2. [j \in DOMAIN series |-> Delivered(j)]' = [j \in DOMAIN series |-> Delivered(j)]
    BY <1>0, <2>1, DeliveriesStay
  <2>3. /\ reach # 0 /\ snap <= endsnap + 1 /\ Len(series) = snap - startsnap
        /\ series \in Seq(Content)
        /\ startsnap \in Nat /\ endsnap \in Nat /\ snap \in Nat /\ startsnap > 0
        /\ startsnap <= endsnap
    BY <2>1 DEF WindowInv, Placed, Loop, ProgramTyped, Before, Aimed, Ready
  <2>4. Len([j \in DOMAIN series |-> Delivered(j)]) = Len(series)
    BY <2>3, LenProperties
  <2>5. startsnap - 1 + Len(series) = endsnap - 1 + 1
    BY <2>1, <2>3
  <2> QED BY <2>1, <2>2, <2>3, <2>4, <2>5
          DEF Window!Next, Window!Write, Window!Due, Window!NoWindow
<1>4. CASE CheckMeshOption \/ Probe \/ ResolveWindow \/ ConstructReader \/ OpenAgain
           \/ ReadMesh
  <2>1. /\ pc \in Before \cup {"construct", "open", "mesh"}
        /\ pc' = "failed" \/ pc' \in {"probe", "probed", "construct", "open", "mesh", "weights"}
        /\ reach' = reach /\ series' = series
    BY <1>4 DEF CheckMeshOption, Probe, ResolveWindow, ConstructReader, OpenAgain, ReadMesh,
                Before
  <2>2. reach = 0 /\ series = <<>>
    BY <2>1 DEF WindowInv, Settling
  <2>3. [j \in DOMAIN series |-> Delivered(j)]' = [j \in DOMAIN series |-> Delivered(j)]
    BY <1>0, <2>1, <2>2, DeliveriesStay
  <2>4. CASE pc' = "failed"
    BY <2>1, <2>2, <2>3, <2>4 DEF Window!Next, Window!Fail, Before
  <2>5. CASE pc' # "failed"
    BY <2>1, <2>2, <2>3, <2>5 DEF Window!vars, Before
  <2> QED BY <2>4, <2>5
<1>5. CASE ReadSnap \/ DropSnap
  <2>1. /\ pc \in Loop /\ pc' \in Loop \cup {"failed"}
        /\ UNCHANGED <<startsnap, endsnap, reach, series>>
    BY <1>5 DEF ReadSnap, DropSnap, Loop
  <2>2. [j \in DOMAIN series |-> Delivered(j)]' = [j \in DOMAIN series |-> Delivered(j)]
    BY <1>0, <2>1, DeliveriesStay
  <2>3. CASE pc' = "failed"
    BY <2>1, <2>2, <2>3 DEF Window!Next, Window!Fail, Loop
  <2>4. CASE pc' # "failed"
    BY <2>1, <2>2, <2>4 DEF Window!vars, Loop
  <2> QED BY <2>3, <2>4
<1>6. CASE UNCHANGED allVars
  <2>1. UNCHANGED <<pc, startsnap, endsnap, reach, series>>
    BY <1>6 DEF allVars, program
  <2>2. [j \in DOMAIN series |-> Delivered(j)]' = [j \in DOMAIN series |-> Delivered(j)]
    BY <1>0, <2>1, DeliveriesStay
  <2> QED BY <2>1, <2>2 DEF Window!vars
<1> QED BY <1>1, <1>2, <1>3, <1>4, <1>5, <1>6 DEF NextStations

(* The program delivers the window it was asked for: each snap once and in  *)
(* order, the station file only behind the last, nothing after a failure,   *)
(* whatever the file, the command line, and the damage.                     *)
THEOREM WindowDelivered ==
  ASSUME FilesWritten, WindowGranted PROVE SpecStations => DeliversWindow
<1>1. InitStations => WindowInv /\ Window!Init
  BY WindowStarts
<1>2. WindowInv /\ [NextStations]_allVars => WindowInv'
  BY WindowInvKept
<1>3. WindowInv /\ [NextStations]_allVars => [Window!Next]_(Window!vars)
  BY WindowStep
<1> QED BY <1>1, <1>2, <1>3, PTL DEF SpecStations, DeliversWindow, Window!Spec
=============================================================================
