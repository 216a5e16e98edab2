------------------------------ MODULE MeshFiles ------------------------------
(***************************************************************************)
(* A mesh and the file it is written to: MeshPrivate::write() of           *)
(* src/src/mesh_private.cpp with the three formats it has a writer for,    *)
(* and the readers of Mesh, in the object that wrote or in another one.    *)
(*                                                                         *)
(* The boundary sections of the ASCII format are those of Boundary.        *)
(***************************************************************************)
EXTENDS Mesh

VARIABLE
  disk   \* the file written last, if any; history: the mesh it was made from

filesVars == <<vars, disk>>

InitFiles == Init /\ disk = {}

(***************************************************************************)
(* What a file says of nodes and elements.  The ASCII formats give every   *)
(* number; D-Flow has arrays, numbered by position, and yet its elements   *)
(* name their nodes by number.                                             *)
(***************************************************************************)
Named(ns, e) == {ns[v] : v \in e.verts}

(* Mutant of Written: every format numbers by position. *)
WrittenInOrder(format, ns, es) ==
  [format   |-> format,
   nodes    |-> [k \in DOMAIN ns |-> k],
   elements |-> [i \in DOMAIN es |-> [id |-> i, verts |-> Named(ns, es[i])]],
   odd      |-> {},
   good     |-> 2 + Len(ns) + Len(es)]

Written(format, ns, es) ==
  LET byPlace == format = "DFlow" IN
  [format   |-> format,
   nodes    |-> [k \in DOMAIN ns |-> IF byPlace THEN k ELSE ns[k]],
   elements |-> [i \in DOMAIN es |-> [id    |-> IF byPlace THEN i ELSE es[i].id,
                                      verts |-> Named(ns, es[i])]],
   odd      |-> {},
   good     |-> IF byPlace /\ es = <<>> THEN 0 ELSE 2 + Len(ns) + Len(es)]

OnlyFile == UNCHANGED <<stores, numbers, around, since>>

(* Every writer follows the vertices of every element.  Without elements   *)
(* D-Flow asks for two dimensions of size 0, which netCDF takes for        *)
(* unlimited ones and refuses: the file stays without a header.            *)
Write(format) ==
  /\ Running /\ OnlyFile
  /\ edits < MaxEdits
  /\ IF AllSound
       THEN /\ disk' = {[file |-> Written(format, nodes, elements),
                         nodes |-> nodes, elements |-> elements]}
            /\ ret' = IF format = "DFlow" /\ elements = <<>> THEN "error" ELSE "written"
       ELSE ret' = "dead" /\ UNCHANGED disk

WriteUnknown == Reject /\ UNCHANGED disk

(* The file is read over what the object holds. *)
ReadBack ==
  /\ \E d \in disk : ReadAdcirc(d.file) \/ Read2dm(d.file) \/ ReadDFlow(d.file)
  /\ UNCHANGED disk

(* The caller goes on with another object, as the constructors leave it. *)
Anew ==
  /\ Running /\ disk # {}
  /\ nodes' = <<>> /\ elements' = <<>>
  /\ nodeOrderingLogical' = TRUE /\ elementOrderingLogical' = TRUE
  /\ nodeLookup' = <<>> /\ elementLookup' = <<>>
  /\ elementTable' = <<>> /\ initialized' = FALSE /\ table' = "unbuilt"
  /\ ret' = "none"
  /\ source' = {} /\ held' = {} /\ taken' = FALSE
  /\ UNCHANGED <<edits, disk>>

(* Bound: where a file was written, the last change is to read it back. *)
Change == (disk # {} => edits + 1 < MaxEdits) /\ (Read \/ Edit)

FilesNext ==
  \/ Change /\ UNCHANGED disk
  \/ Ask /\ UNCHANGED disk
  \/ \E format \in {"Adcirc", "2DM", "DFlow"} : Write(format)
  \/ WriteUnknown
  \/ ReadBack
  \/ Anew

FilesSpec == InitFiles /\ [][FilesNext]_filesVars

(* What was written reads back as the mesh it was written from, element by *)
(* element on the same nodes, in the same object after whatever else it    *)
(* read, or in a new one, if no number is given twice; for D-Flow, which   *)
(* numbers by position, if nodes and elements are in order.                *)
TripRestores ==
  \A d \in disk :
    /\ source = {d.file}
    /\ \A j, k \in DOMAIN d.nodes : d.nodes[j] = d.nodes[k] => j = k
    /\ d.file.format = "DFlow" => /\ \A k \in DOMAIN d.nodes : d.nodes[k] = k
                                  /\ InOrder(d.elements)
    => nodes = d.nodes /\ elements = d.elements
=============================================================================
