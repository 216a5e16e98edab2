------------------------------ MODULE WriteOutput ------------------------------
(***************************************************************************)
(* The writer of ADCIRC global output files, class WriteOutput of          *)
(* src/src/writeoutput.cpp, beside the ReadOutput object it takes its      *)
(* headers and records from (m_dataContainer).                             *)
(*                                                                         *)
(* A writer keeps the name it was made with: setFilename() and the HDF5    *)
(* format are not modelled.  A name that ends in .nc makes a netCDF file.  *)
(***************************************************************************)
EXTENDS ReadOutput

CONSTANTS
  Targets,     \* the names a writer may be given
  NcTargets,   \* those that end in .nc
  Meshes,      \* nodes of the mesh handed to a writer, NoMesh for nullptr
  MaxWritten,  \* bound: records written by one writer
  MaxLines     \* bound: an ASCII file this long is not written to again

NoMesh   == -1
NoWriter == "none"

ASSUME WriterAssumption ==
  /\ Targets \subseteq Files
  /\ NcTargets \subseteq Targets
  /\ NoWriter \notin Files
  /\ Meshes \subseteq Nat \cup {NoMesh}
  /\ MaxWritten \in Nat
  /\ MaxLines \in Nat

VARIABLES
  target,      \* the writer's m_filename, NoWriter when there is no writer
  sparse,      \* m_format of an ASCII target is the sparse one
  wopen,       \* m_isOpen
  stream,      \* m_fid or m_ncid: "closed", "good", or "failed"
  mesh,        \* m_mesh
  varidsOut,   \* m_varid
  numWritten,  \* m_recordsWritten
  made         \* history: the file of the last session, what went in, and whether it was
               \* sound: one session of a new writer, its container and mesh of the same
               \* shape as every record, and no call refused

writer == <<target, sparse, wopen, stream, mesh, varidsOut, numWritten, made>>
object == <<target, mesh>>
reader == <<cursor, header, store, disturbed, opened>>

IsNetcdf == target \in NcTargets
T == disk[target]

InitWriter ==
  /\ Init
  /\ target = NoWriter
  /\ sparse = FALSE
  /\ wopen = FALSE
  /\ stream = "closed"
  /\ mesh = NoMesh
  /\ varidsOut = <<>>
  /\ numWritten = 0
  /\ made = [file |-> NoWriter, snaps |-> <<>>, sound |-> FALSE]

Succeed == ret # "crash" /\ ret' = "ok" /\ UNCHANGED reader
Reject  == ret # "crash" /\ ret' = "error" /\ UNCHANGED reader

Put(desc) == disk' = [disk EXCEPT ![target] = desc]

MakeWriter(f, m) ==
  /\ target = NoWriter
  /\ target' = f
  /\ mesh' = m
  /\ sparse' = FALSE
  /\ wopen' = FALSE
  /\ stream' = "closed"
  /\ varidsOut' = <<>>
  /\ numWritten' = 0
  /\ Succeed
  /\ UNCHANGED <<disk, made>>

-----------------------------------------------------------------------------
(* open(): the container says what the header holds. *)

Begin(sound) == made' = [file |-> target, snaps |-> <<>>, sound |-> sound]
Unsound == made' = [made EXCEPT !.sound = FALSE]

Missing ==
  [format |-> "missing", header |-> "ok", snaps |-> 0, nodes |-> 0, lines |-> <<>>,
   cut |-> FALSE, fields |-> {}, vars |-> <<>>, vector |-> FALSE, max |-> FALSE, dim |-> 1]

(* readAsciiHeader() does not take the third column. *)
AsciiFile ==
  [Missing EXCEPT !.format = "unknown",
                  !.header = IF meta.dim = 3 THEN "badField" ELSE "ok",
                  !.snaps = numSnaps, !.nodes = numNodes,
                  !.vector = (meta.dim = 2), !.dim = meta.dim]

(* std::fstream::open() truncates, and fails on a stream already open. *)
OpenTargetAscii ==
  /\ target # NoWriter /\ ~IsNetcdf
  /\ wopen' = TRUE
  /\ IF stream = "closed"
       THEN stream' = "good" /\ Put(AsciiFile) /\ Begin(TRUE)
       ELSE stream' = "failed" /\ UNCHANGED disk /\ Unsound
  /\ Succeed
  /\ UNCHANGED <<object, sparse, varidsOut, numWritten>>

(* The data variables follow the six of the mesh.  The nameless metadata of  *)
(* an ASCII container is first replaced by named metadata of the same shape. *)
NetcdfVars == [i \in 1..meta.dim |-> 5 + i]
NetcdfFile ==
  [Missing EXCEPT !.format = "netcdf4", !.nodes = IF mesh = NoMesh THEN numNodes ELSE mesh,
                  !.fields = {NetcdfVars[i] : i \in 1..meta.dim}, !.vars = NetcdfVars,
                  !.vector = meta.vector, !.max = meta.max, !.dim = meta.dim]

(* nc_create() clobbers; the library refuses a file it has open. *)
OpenTargetNetcdf ==
  /\ target # NoWriter /\ IsNetcdf
  /\ Len(varidsOut) + meta.dim <= MaxVarids
  /\ IF stream = "closed"
       THEN /\ wopen' = TRUE
            /\ stream' = "good"
            /\ varidsOut' = varidsOut \o NetcdfVars
            /\ Put(NetcdfFile)
            /\ Begin(numWritten = 0 /\ varidsOut = <<>>)
            /\ Succeed
       ELSE /\ UNCHANGED <<disk, wopen, stream, varidsOut>>
            /\ Unsound
            /\ Reject
  /\ UNCHANGED <<object, sparse, numWritten>>

CloseTarget ==
  /\ target # NoWriter
  /\ wopen' = FALSE
  /\ stream' = "closed"
  /\ Succeed
  /\ UNCHANGED <<disk, object, sparse, varidsOut, numWritten, made>>

(* writeSparseAscii(), which may come between two records. *)
ChooseSparse(s) ==
  /\ target # NoWriter /\ ~IsNetcdf
  /\ sparse' = s
  /\ Succeed
  /\ UNCHANGED <<disk, object, wopen, stream, varidsOut, numWritten, made>>

(* The destructor closes the file. *)
DropWriter ==
  /\ target # NoWriter
  /\ target' = NoWriter
  /\ wopen' = FALSE
  /\ stream' = "closed"
  /\ Succeed
  /\ UNCHANGED <<disk, mesh, sparse, varidsOut, numWritten, made>>

-----------------------------------------------------------------------------
(* write(): the shape of the record is the container's, its numbers are the  *)
(* record's own.                                                             *)

Enter(r) == made' = [made EXCEPT !.snaps = Append(@, r.holds.snap),
                                 !.sound = @ /\ r.nodes = T.nodes /\ r.meta = meta]

WriteRefused ==
  /\ target # NoWriter
  /\ ~wopen
  /\ Reject
  /\ UNCHANGED <<disk, writer>>

(* One line for each of the n nodes written, and a second block of lines for *)
(* a maximum file with two values.  u(), v() and w() throw unless the record *)
(* is a vector.                                                              *)
Vectors  == meta.dim > 1 /\ ~meta.max
TwoBlock == meta.dim = 2 /\ meta.max
Throws(r, n) == n > 0 /\ ~r.meta.vector /\ (Vectors \/ TwoBlock)

Values(kind, k, n) == [i \in 1..n |-> [kind |-> kind, snap |-> k, count |-> 0]]

RecordHead(r, legible, n) ==
  [kind  |-> IF ~legible THEN "bad" ELSE IF sparse THEN "sparse" ELSE "full",
   snap  |-> r.holds.snap,
   count |-> IF sparse THEN n ELSE 0]

Block(r, legible, n) ==
  LET k == r.holds.snap IN
  <<RecordHead(r, legible, n)>>
    \o (IF ~Vectors THEN Values("scalar", k, n)
        ELSE IF Throws(r, n) THEN <<>> ELSE Values("vector", k, n))
    \o (IF TwoBlock /\ ~Throws(r, n) THEN Values("scalar", k, n) ELSE <<>>)

(* The format a reader will recognise is that of the first record. *)
Extended(lines) ==
  [T EXCEPT !.lines = @ \o lines,
            !.format = IF T.lines # <<>> THEN @
                       ELSE IF sparse THEN "asciiSparse" ELSE "asciiFull"]

(* A full record has a line for every node, a sparse one for those that are  *)
(* not dry, any number of them.  A failed stream swallows what it is given.  *)
(* The header line of a record whose iteration was never set may hold a      *)
(* number no reader converts: it is not "legible".                           *)
WriteAscii(r, legible) ==
  /\ target # NoWriter /\ ~IsNetcdf
  /\ wopen /\ numWritten < MaxWritten /\ Len(T.lines) < MaxLines
  /\ \E n \in IF sparse THEN 0..r.nodes ELSE {r.nodes} :
       /\ IF stream = "good" THEN Put(Extended(Block(r, legible, n))) ELSE UNCHANGED disk
       /\ IF Throws(r, n)
            THEN Reject /\ Unsound /\ UNCHANGED numWritten
            ELSE Succeed /\ Enter(r) /\ numWritten' = numWritten + 1
  /\ UNCHANGED <<object, sparse, wopen, stream, varidsOut>>

(* A record without a component the container has: the library is handed     *)
(* data() of an empty vector, which it refuses or reads through.             *)
Lacks(r) == r.meta.dim < meta.dim /\ r.nodes > 0

(* The slab goes to index numWritten; the indices skipped hold fill values.  *)
(* Errors of the library are ignored: a slab larger than the file's nodes is *)
(* not written, and a maximum variable, which has no time dimension, takes   *)
(* the first node of it.                                                     *)
SlabKept(r) ==
  /\ r.nodes = T.nodes
  /\ ~Lacks(r)
  /\ ~T.max
  /\ SubSeq(varidsOut, 1, meta.dim) = T.vars

(* Mutant of SlabIndex: the counter is incremented before it is used. *)
SlabIndexNext == numWritten + 2
SlabIndex == numWritten + 1

Slabs(r) ==
  [i \in 1..(IF SlabIndex <= Len(T.lines) THEN Len(T.lines) ELSE SlabIndex) |->
     IF i = SlabIndex
       THEN [kind |-> "slab", count |-> 0,
             snap |-> IF SlabKept(r) THEN r.holds.snap ELSE Garbled]
       ELSE IF i <= Len(T.lines) THEN T.lines[i]
       ELSE [kind |-> "slab", count |-> 0, snap |-> Garbled]]

WriteNetcdf(r) ==
  /\ target # NoWriter /\ IsNetcdf
  /\ wopen /\ numWritten < MaxWritten
  /\ meta.dim <= Len(varidsOut)
  /\ Put([T EXCEPT !.lines = Slabs(r), !.snaps = Len(Slabs(r))])
  /\ numWritten' = numWritten + 1
  /\ Enter(r)
  /\ Succeed
  /\ UNCHANGED <<object, sparse, wopen, stream, varidsOut>>

(* m_varid[1] or m_varid[2] past the end, when the container has turned to   *)
(* a file with more components, or a record that lacks one of them and fits  *)
(* into the file.                                                            *)
WriteNetcdfCrash(r) ==
  /\ target # NoWriter /\ IsNetcdf
  /\ wopen
  /\ meta.dim > Len(varidsOut) \/ (Lacks(r) /\ r.nodes <= T.nodes)
  /\ ret # "crash" /\ ret' = "crash"
  /\ UNCHANGED <<reader, disk, writer>>

WriteCall(r, legible) ==
  \/ WriteRefused
  \/ WriteAscii(r, legible)
  \/ WriteNetcdf(r)
  \/ WriteNetcdfCrash(r)
OpenTarget   == OpenTargetAscii \/ OpenTargetNetcdf
=============================================================================
