------------------------------ MODULE ResultsScope ------------------------------
(***************************************************************************)
(* The resultsScope program, src/utilities/resultsScope/main.cpp: read     *)
(* every snap of a global output file, keep the nodes of a subdomain,      *)
(* write what is left.  The subdomain is the number of its nodes, one at   *)
(* least.  After the program has ended, somebody opens its output with a   *)
(* reader.                                                                 *)
(*                                                                         *)
(* An exception ends the program: stage = "failed".                        *)
(***************************************************************************)
EXTENDS WriteOutput

CONSTANTS
  Global,    \* the global file
  Output     \* the file to be created

ASSUME ScopeAssumption == Global \in Files \ Targets /\ Output \in Targets

VARIABLES
  stage,     \* the step of the program that comes next
  nodeMap,   \* size of the translation table
  trimmed    \* i of the loop over the snaps

scope == <<stage, nodeMap, trimmed>>
scopeVars == <<disk, reader, ret, writer, scope>>

InitScope ==
  /\ InitWriter
  /\ filename = Global
  /\ stage = "openGlobal"
  /\ nodeMap = 0
  /\ trimmed = 0

OrFail(next) == stage' = IF ret' = "ok" THEN next ELSE "failed"

(* generateSubdomain() has found the nodes; ReadOutput::open(). *)
OpenGlobal ==
  /\ stage = "openGlobal"
  /\ OpenCall
  /\ nodeMap' \in 1..disk[Global].nodes
  /\ OrFail("make")
  /\ UNCHANGED <<writer, trimmed>>

MakeOutput ==
  /\ stage = "make"
  /\ MakeWriter(Output, nodeMap)
  /\ stage' = "openOutput"
  /\ UNCHANGED <<nodeMap, trimmed>>

OpenOutput ==
  /\ stage = "openOutput"
  /\ OpenTarget
  /\ OrFail("read")
  /\ UNCHANGED <<nodeMap, trimmed>>

ReadGlobal ==
  /\ stage = "read"
  /\ trimmed < numSnaps
  /\ ReadCall(trimmed)
  /\ OrFail("write")
  /\ UNCHANGED <<writer, nodeMap, trimmed>>

(* subsetRecord(): two components of a vector record and one of any other    *)
(* are copied, the rest stays zero.  The constructor it calls sets neither   *)
(* the iteration nor the default value.                                      *)
Copied(m) == IF m.vector THEN 2 ELSE 1
Subset(r) ==
  [r EXCEPT !.nodes = nodeMap,
            !.holds.snap = IF r.meta.dim <= Copied(r.meta) THEN @ ELSE Garbled]

WriteSubset ==
  /\ stage = "write"
  /\ \E legible \in BOOLEAN : WriteCall(Subset(records[1]), legible)
  /\ OrFail("drop")
  /\ UNCHANGED <<nodeMap, trimmed>>

(* Mutants of DropGlobal: the record stays in memory; the loop stands still. *)
DropGlobalKept ==
  /\ stage = "drop"
  /\ Succeed
  /\ trimmed' = trimmed + 1
  /\ stage' = "read"
  /\ UNCHANGED <<disk, writer, nodeMap>>
DropGlobalStill ==
  /\ stage = "drop"
  /\ ClearAt(1)
  /\ OrFail("read")
  /\ UNCHANGED <<writer, nodeMap, trimmed>>

DropGlobal ==
  /\ stage = "drop"
  /\ ClearAt(1)
  /\ trimmed' = trimmed + 1
  /\ OrFail("read")
  /\ UNCHANGED <<writer, nodeMap>>

CloseGlobal ==
  /\ stage = "read"
  /\ trimmed = numSnaps
  /\ CloseCall
  /\ OrFail("close")
  /\ UNCHANGED <<writer, nodeMap, trimmed>>

(* out.close(), and the destructors of both objects. *)
CloseOutput ==
  /\ stage = "close"
  /\ DropWriter
  /\ stage' = "written"
  /\ UNCHANGED <<nodeMap, trimmed>>

Program ==
  \/ OpenGlobal
  \/ MakeOutput
  \/ OpenOutput
  \/ ReadGlobal
  \/ WriteSubset
  \/ DropGlobal
  \/ CloseGlobal
  \/ CloseOutput

(* Afterwards: a reader for the output. *)
TakeOutput ==
  /\ stage = "written"
  /\ Replaced
  /\ stage' = "name"
  /\ UNCHANGED <<writer, nodeMap, trimmed>>

ReadOutputFile ==
  /\ \/ stage = "name" /\ SetFilename(Output) /\ stage' = "inspect"
     \/ stage = "inspect" /\ OpenCall /\ OrFail("browse")
     \/ stage = "browse" /\ ReadCall(NextSnap) /\ OrFail("browse")
  /\ UNCHANGED <<writer, nodeMap, trimmed>>

NextScope == Program \/ TakeOutput \/ ReadOutputFile

SpecScope == InitScope /\ [][NextScope]_scopeVars
FairScope == SpecScope /\ WF_scopeVars(Program)

-----------------------------------------------------------------------------
(***************************************************************************)
(* Properties.                                                             *)
(***************************************************************************)

(* The global file was written record after record.  One cut inside its last  *)
(* line would be copied with that line for whole, and a header that lost      *)
(* tokens may pass for another.                                               *)
ScopeGranted ==
  \A d \in Disks : /\ Written(d[Global]) /\ HeadersWhole(d[Global])
                   /\ d[Global].format \in AsciiFormats => ~d[Global].cut

InspectionDone == stage = "failed" /\ filename = Output

(* The files subsetRecord() copies whole.  It drops values of maximum and     *)
(* three-component files, and the second component where the table of the     *)
(* known variables speaks of two but of no vector (swan_windx, inun_time,     *)
(* inun_max, everdried).                                                      *)
Whole(f) == ~f.max /\ f.dim < 3 /\ (f.dim = 2 => f.vector)

(* The output holds every snap of the global file, in order: a reader that   *)
(* goes through it gets snap i as its record i, and stops, at the end of the *)
(* file or on its first failure, only after the last of them.                *)
Trimmed ==
  Whole(disk[Global]) =>
    /\ filename = Output =>
         \A i \in DOMAIN records :
           records[i].whole => /\ records[i].id = i - 1
                               /\ records[i].holds.snap = i - 1
    /\ InspectionDone =>
         Cardinality({i \in DOMAIN records : records[i].whole}) >= disk[Global].snaps

(* The program ends, whatever the global file is worth. *)
ScopeEnds == <>(stage \in {"written", "failed"})
=============================================================================
