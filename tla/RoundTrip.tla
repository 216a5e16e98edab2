------------------------------- MODULE RoundTrip -------------------------------
(***************************************************************************)
(* A reader and a writer in one program, the writer fed from the reader,   *)
(* as the tests of testing/cxx_tests do it (cxx_writeasciifull.cpp,        *)
(* cxx_writenetcdf.cpp): read a file, write its records elsewhere, read    *)
(* the result with another reader.  The owner calls them in any order, but *)
(* does not read a file the writer has open, nor have the writer replace   *)
(* one it is reading or holds records of.                                  *)
(***************************************************************************)
EXTENDS WriteOutput

roundVars == <<disk, reader, ret, writer>>

Held(f) == \E i \in DOMAIN records : records[i].holds.file = f

(* A container that turns to another file while the writer has its own open  *)
(* changes the shape of what is written.                                     *)
ReaderStep ==
  /\ \/ (wopen => filename # target) /\ OpenCall
     \/ CloseCall
     \/ \E s \in Requests : ReadCall(s)
     \/ \E f \in Files : SetFilename(f)
  /\ UNCHANGED <<object, sparse, wopen, stream, varidsOut, numWritten>>
  /\ made' = [made EXCEPT !.sound =
                @ /\ (wopen => <<meta, numSnaps, numNodes>>' = <<meta, numSnaps, numNodes>>)]

NewReader ==
  /\ target = NoWriter
  /\ Replaced
  /\ UNCHANGED writer

WriterStep ==
  \/ \E f \in Targets, m \in Meshes : MakeWriter(f, m)
  \/ ~(open /\ filename = target) /\ ~Held(target) /\ OpenTarget
  \/ \E i \in DOMAIN records : records[i].whole /\ WriteCall(records[i], TRUE)
  \/ \E s \in BOOLEAN : ChooseSparse(s)
  \/ CloseTarget
  \/ DropWriter

NextRound == ReaderStep \/ NewReader \/ WriterStep

SpecRound == InitWriter /\ [][NextRound]_roundVars

-----------------------------------------------------------------------------
(***************************************************************************)
(* Properties.                                                             *)
(***************************************************************************)

ReadBackOf(r) ==
  (r.whole /\ r.holds.file = made.file) =>
    /\ r.id < Len(made.snaps)
    /\ r.holds.snap = made.snaps[r.id + 1]

(* What was written is what is read: the record a fresh reader numbers i,    *)
(* on its straight path, is the i-th record given to write(), for both ASCII *)
(* formats, mixed in one file or not, and for netCDF, whatever else the      *)
(* owner did before, between and after, if the session itself was sound.     *)
(* Maximum files are set apart: the writer puts a record of one at a start  *)
(* and with a count of two dimensions into a variable of one.               *)
ReadBack ==
  (made.sound /\ ~disturbed /\ made.file # NoWriter /\ ~disk[made.file].max) =>
    \A i \in DOMAIN records : ReadBackOf(records[i])
=============================================================================
