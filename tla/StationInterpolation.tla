------------------------- MODULE StationInterpolation -------------------------
(***************************************************************************)
(* The interpolateAdcircStations program: option checks of                 *)
(* src/utilities/interpolateAdcircStations/main.cpp, then run() of         *)
(* src/src/stationinterpolation.cpp, over the reader of ReadOutput.        *)
(*                                                                         *)
(* The reader variables are those of the one ReadOutput object alive: the  *)
(* option checks use an object of their own, destroyed before run() makes  *)
(* another.  An exception, a crash and exit(1) all end the program without *)
(* output: pc = "failed".  A station's value is abstracted to the snap it  *)
(* was interpolated from; all stations take one value per snap.            *)
(***************************************************************************)
EXTENDS ReadOutput

CONSTANTS
  NcNames,    \* the files whose name ends in .nc
  StartSnaps, \* values of --start_snap, Unset included
  EndSnaps,   \* values of --end_snap, Unset included
  Reaches     \* how many nodes of the mesh the found stations may need

Unset == -1

ASSUME StationAssumption ==
  /\ NcNames \subseteq Files
  /\ StartSnaps \subseteq Nat \cup {Unset}
  /\ EndSnaps \subseteq Nat \cup {Unset}
  /\ Reaches \subseteq Nat

VARIABLES
  pc,         \* the step of the program that comes next
  opts,       \* the command line, --mesh, --readAsciiMesh and the output format
  startsnap,  \* m_startsnap
  endsnap,    \* m_endsnap
  snap,       \* i of the loop in run()
  reach,      \* 1 + the largest node index of m_weights, 0 before it is known
  series      \* what the stations hold, one entry per snap taken

program == <<pc, opts, startsnap, endsnap, snap, reach, series>>
allVars == <<vars, program>>

Options ==
  [start : StartSnaps, end : EndSnaps,
   mesh : BOOLEAN, asciiMesh : BOOLEAN, scalarOnly : BOOLEAN]

InitStations ==
  /\ Init
  /\ pc = "options"
  /\ opts \in Options
  /\ startsnap = opts.start
  /\ endsnap = opts.end
  /\ snap = 0
  /\ reach = 0
  /\ series = <<>>

Named == filename \in NcNames

-----------------------------------------------------------------------------
(* validateOptionsList() *)

CheckMeshOption ==
  /\ pc = "options"
  /\ pc' = IF ~opts.mesh /\ (opts.asciiMesh \/ ~Named) THEN "failed" ELSE "probe"
  /\ UNCHANGED <<vars, opts, startsnap, endsnap, snap, reach, series>>

Probe ==
  /\ pc = "probe"
  /\ OpenCall
  /\ pc' = IF ret' = "ok" THEN "probed" ELSE "failed"
  /\ UNCHANGED <<opts, startsnap, endsnap, snap, reach, series>>

StartRefused == opts.start # Unset /\ ~Named
EndRefused   == opts.end # Unset /\ opts.end > numSnaps
DataRefused  == opts.scalarOnly /\ meta.vector

ResolveWindow ==
  /\ pc = "probed"
  /\ CloseCall
  /\ startsnap' = IF opts.start = Unset THEN 1 ELSE opts.start
  /\ endsnap' = IF opts.end = Unset THEN numSnaps ELSE opts.end
  /\ pc' = IF StartRefused \/ EndRefused \/ DataRefused THEN "failed" ELSE "construct"
  /\ UNCHANGED <<opts, snap, reach, series>>

-----------------------------------------------------------------------------
(* run() *)

ConstructReader ==
  /\ pc = "construct"
  /\ Replaced
  /\ pc' = "open"
  /\ UNCHANGED <<opts, startsnap, endsnap, snap, reach, series>>

OpenAgain ==
  /\ pc = "open"
  /\ OpenCall
  /\ pc' = IF ret' = "ok" THEN "mesh" ELSE "failed"
  /\ UNCHANGED <<opts, startsnap, endsnap, snap, reach, series>>

(* readMesh(), then allocateStationArrays(): reserve(end - start) wraps and  *)
(* throws when the window is empty.                                          *)
ReadMesh ==
  /\ pc = "mesh"
  /\ pc' \in {"failed"} \cup (IF endsnap < startsnap THEN {} ELSE {"weights"})
  /\ UNCHANGED <<vars, opts, startsnap, endsnap, snap, reach, series>>

(* generateInterpolationWeights(): exit(1) when no station is in the mesh. *)
GenerateWeights ==
  /\ pc = "weights"
  /\ reach' \in Reaches
  /\ snap' = startsnap
  /\ pc' = IF reach' = 0 THEN "failed" ELSE "read"
  /\ UNCHANGED <<vars, opts, startsnap, endsnap, series>>

(* Mutant of Request: the snap is passed on as the user counts it. *)
RequestUnshifted(i) == i

(* The argument snap - 1 of read(); for snap 0 it wraps to nextOutputSnap(). *)
Request(i) == IF i = 0 THEN NextSnap ELSE i - 1

ReadSnap ==
  /\ pc = "read"
  /\ snap <= endsnap
  /\ ReadCall(Request(snap))
  /\ pc' = IF ret' = "ok" THEN "take" ELSE "failed"
  /\ UNCHANGED <<opts, startsnap, endsnap, snap, reach, series>>

(* Every station takes its value from dataAt(0); a weight that names a node  *)
(* the record does not have throws.                                          *)
TakeSnap ==
  /\ pc = "take"
  /\ IF reach <= numNodes
       THEN /\ series' = Append(series, records[1].holds)
            /\ pc' = "drop"
       ELSE pc' = "failed" /\ UNCHANGED series
  /\ UNCHANGED <<vars, opts, startsnap, endsnap, snap, reach>>

(* Mutants of DropSnap: the record stays in memory; the loop stands still. *)
DropSnapKept ==
  /\ pc = "drop"
  /\ ret' = "ok"
  /\ UNCHANGED <<disk, cursor, header, store, disturbed, opened>>
  /\ snap' = snap + 1
  /\ pc' = "read"
  /\ UNCHANGED <<opts, startsnap, endsnap, reach, series>>
DropSnapStill ==
  /\ pc = "drop"
  /\ ClearAt(1)
  /\ pc' = IF ret' = "ok" THEN "read" ELSE "failed"
  /\ UNCHANGED <<opts, startsnap, endsnap, snap, reach, series>>

DropSnap ==
  /\ pc = "drop"
  /\ ClearAt(1)
  /\ snap' = snap + 1
  /\ pc' = IF ret' = "ok" THEN "read" ELSE "failed"
  /\ UNCHANGED <<opts, startsnap, endsnap, reach, series>>

(* reprojectStationOutput(), then write() of the station file. *)
WriteStations ==
  /\ pc = "read"
  /\ snap > endsnap
  /\ pc' = "written"
  /\ UNCHANGED <<vars, opts, startsnap, endsnap, snap, reach, series>>

NextStations ==
  \/ CheckMeshOption
  \/ Probe
  \/ ResolveWindow
  \/ ConstructReader
  \/ OpenAgain
  \/ ReadMesh
  \/ GenerateWeights
  \/ ReadSnap
  \/ TakeSnap
  \/ DropSnap
  \/ WriteStations

SpecStations == InitStations /\ [][NextStations]_allVars

(* One thread runs the program, so a step it can take is taken. *)
FairStations == SpecStations /\ WF_allVars(NextStations)

-----------------------------------------------------------------------------
(***************************************************************************)
(* Properties.                                                             *)
(***************************************************************************)

(* The stations' series is the requested window: each snap from --start_snap *)
(* to --end_snap once and in order, and the station file is written only     *)
(* after the last one.  The last snap of an ASCII file cut inside its last   *)
(* line counts as delivered: the reader takes it for data.                   *)
Delivered(j) ==
  IF series[j].snap = Garbled /\ D.cut THEN startsnap + j - 2 ELSE series[j].snap

Window == INSTANCE SnapWindow WITH
  Windows   <- [first : Nat, last : Nat],
  window    <- IF reach = 0 THEN [first |-> 0, last |-> -1]
                            ELSE [first |-> startsnap - 1, last |-> endsnap - 1],
  delivered <- [j \in DOMAIN series |-> Delivered(j)],
  outcome   <- IF pc \in {"written", "failed"} THEN pc ELSE "running"

DeliversWindow == Window!Spec

(* What the window takes for granted: --start_snap counts from one, a file   *)
(* named .nc is no ASCII file, no netCDF file has three components, and no   *)
(* record header of an ASCII file lost tokens.                               *)
WindowGranted ==
  /\ 0 \notin StartSnaps
  /\ \A d \in Disks, f \in NcNames : d[f].format \notin AsciiFormats
  /\ \A d \in Disks, f \in Files : d[f].format \in NetcdfFormats => d[f].dim < 3
  /\ \A d \in Disks, f \in Files : HeadersWhole(d[f])

(* The program never holds two snaps at once: whatever the window, a record *)
(* is dropped before the next is read, and dataAt(0) is the snap just read. *)
OneRecordAtATime ==
  /\ Len(records) <= 1
  /\ (pc = "take" /\ filetype \in NetcdfFormats /\ snap > 0) => records[1].id = snap - 1

(* Every run ends, with the station file or with an error. *)
Ends == <>(pc \in {"written", "failed"})
=============================================================================
