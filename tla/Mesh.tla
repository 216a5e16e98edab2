--------------------------------- MODULE Mesh ---------------------------------
(***************************************************************************)
(* The unstructured mesh: class MeshPrivate of src/src/mesh_private.cpp    *)
(* with its nodes, elements, number lookups and the table of elements      *)
(* around a node (src/src/elementtable.cpp), and the structural checks of  *)
(* src/src/meshchecker.cpp.  MeshSearch adds the search trees.             *)
(*                                                                         *)
(* Nodes and elements live in two vectors; an element holds pointers into  *)
(* the first and the table holds pointers into both.  A pointer is the     *)
(* position it points at, counted from 1.  A vector that grows may move,   *)
(* and pointers into it then point Nowhere; one that shrinks leaves        *)
(* pointers past its end.  Following such a pointer is undefined and is    *)
(* taken to end the process ("dead").  A node is its number, an element    *)
(* its number and its vertices (triangles: any two vertices are an edge).  *)
(* Coordinates, boundaries and hashes are left out.                        *)
(***************************************************************************)
EXTENDS Integers, FiniteSets, Sequences

CONSTANTS
  Meshes,       \* the files a mesh may be read from
  Numbers,      \* numbers a caller gives to nodes and elements, or asks for
  Positions,    \* positions a caller names
  Sizes,        \* sizes a caller gives to resizeMesh()
  Corners,      \* positions of the vertices of an element a caller makes
  MaxNodes,     \* bound: nodes held
  MaxElements,  \* bound: elements held
  MaxListed,    \* bound: entries in the table for one node
  MaxEdits      \* bound: calls that change nodes or elements

VARIABLES
  nodes,                  \* m_nodes, by number
  elements,               \* m_elements
  nodeOrderingLogical,    \* m_nodeOrderingLogical
  elementOrderingLogical, \* m_elementOrderingLogical
  nodeLookup,             \* m_nodeLookup, positions counted from 1
  elementLookup,          \* m_elementLookup, likewise
  elementTable,           \* m_elementTable: pointers to elements by node
  initialized,            \* m_elementTable.initialized()
  ret,                    \* how the last call ended
  source,                 \* history: the file the mesh still equals, if any
  held,                   \* history: the elements whose vertices are current
  taken,                  \* history: nodes or elements removed since read()
  table,                  \* history: what the element table is worth
  edits                   \* history: number of changes

stores  == <<nodes, elements>>
numbers == <<nodeOrderingLogical, elementOrderingLogical, nodeLookup, elementLookup>>
around  == <<elementTable, initialized, table>>
since   == <<source, held, taken, edits>>
vars    == <<stores, numbers, around, ret, since>>

Nowhere == 0

(***************************************************************************)
(* Files.  "good" counts what converts before the first line that does     *)
(* not: the two sizes of the header, the nodes, the elements.  "odd" are   *)
(* the element lines that give other than three or four vertices, which    *)
(* only the ASCII format lets pass.  netCDF formats number nodes and       *)
(* elements by position.                                                   *)
(***************************************************************************)
Formats == {"Adcirc", "AdcircNetcdf", "2DM", "DFlow", "Unknown"}
Element == [id : Nat, verts : SUBSET Nat]
MeshFile == [format : Formats, nodes : Seq(Nat), elements : Seq(Element),
             odd : SUBSET Nat, good : Nat]

Legible == {f \in MeshFile : /\ f.format \in {"AdcircNetcdf", "DFlow"} =>
                                  \A k \in DOMAIN f.nodes : f.nodes[k] = k
                             /\ f.format # "Adcirc" => f.odd = {}}

ASSUME MeshAssumption ==
  /\ Meshes \subseteq Legible
  /\ Numbers \subseteq Nat \ {0}
  /\ Positions \subseteq Nat \ {0}
  /\ Sizes \subseteq Nat
  /\ Corners \subseteq SUBSET (Nat \ {0})
  /\ MaxNodes \in Nat
  /\ MaxElements \in Nat
  /\ MaxListed \in Nat
  /\ MaxEdits \in Nat

Least(a, b) == IF a < b THEN a ELSE b
NodesGood(f)    == Least(Len(f.nodes), f.good - 2)
ElementsGood(f) == Least(Len(f.elements), f.good - 2 - Len(f.nodes))
AllNodesGood(f) == f.good >= 2 + Len(f.nodes)
AllGood(f)      == f.good >= 2 + Len(f.nodes) + Len(f.elements)

(* Every vertex the file names is one of its nodes. *)
Closed(f) == \A i \in DOMAIN f.elements :
               f.elements[i].verts \subseteq {f.nodes[k] : k \in DOMAIN f.nodes}

Fatal == {"dead", "overflow", "copied", "cut", "unmeshed"}

(* The object as the constructors leave it, after _init(). *)
Init ==
  /\ nodes = <<>>
  /\ elements = <<>>
  /\ nodeOrderingLogical = TRUE
  /\ elementOrderingLogical = TRUE
  /\ nodeLookup = <<>>
  /\ elementLookup = <<>>
  /\ elementTable = <<>>
  /\ initialized = FALSE
  /\ ret = "none"
  /\ source = {}
  /\ held = {}
  /\ taken = FALSE
  /\ table = "unbuilt"
  /\ edits = 0

Running == ret \notin Fatal

(***************************************************************************)
(* Vectors, pointers and lookups.                                          *)
(***************************************************************************)
Moves(old, new)    == IF new > old THEN BOOLEAN ELSE {FALSE}
Resized(s, n, new) == [i \in 1..n |-> IF i <= Len(s) THEN s[i] ELSE new]
Erased(s, i)       == [k \in 1..(Len(s) - 1) |-> IF k < i THEN s[k] ELSE s[k + 1]]
DefaultNode        == 0

(* No vertices; the number of a default element is one no file uses. *)
DefaultElement     == [id |-> 0, verts |-> {Nowhere}]

(* What pointers into a vector are after it moved. *)
Repointed(es, moved) ==
  IF moved THEN [i \in DOMAIN es |-> [es[i] EXCEPT !.verts = {Nowhere}]] ELSE es

(* A node that moved is no longer found under its old address. *)
Relisted(movedNodes, movedElements) ==
  IF movedNodes THEN <<>>
  ELSE IF movedElements
    THEN [n \in DOMAIN elementTable |-> [k \in DOMAIN elementTable[n] |-> Nowhere]]
    ELSE elementTable

Placed(ids, n)  == {i \in DOMAIN ids : ids[i] = n}
LastPlace(ids, n) == CHOOSE i \in Placed(ids, n) : \A k \in Placed(ids, n) : k <= i

(* Mutant of Indexed: insert() in place of operator[]; old entries stay. *)
IndexedKept(lookup, ids) ==
  [n \in DOMAIN lookup \cup {ids[i] : i \in DOMAIN ids} |->
     IF n \in DOMAIN lookup THEN lookup[n] ELSE LastPlace(ids, n)]

(* Mutant of Indexed: positions counted from one. *)
IndexedFromOne(lookup, ids) ==
  [n \in DOMAIN lookup \cup {ids[i] : i \in DOMAIN ids} |->
     IF Placed(ids, n) # {} THEN LastPlace(ids, n) + 1 ELSE lookup[n]]

(* lookup[id] = i for every entry in turn, over what the table held. *)
Indexed(lookup, ids) ==
  [n \in DOMAIN lookup \cup {ids[i] : i \in DOMAIN ids} |->
     IF Placed(ids, n) # {} THEN LastPlace(ids, n) ELSE lookup[n]]

(* operator[] enters an unknown number with the position 0, here 1. *)
Touched(lookup, asked) ==
  [n \in DOMAIN lookup \cup asked |-> IF n \in DOMAIN lookup THEN lookup[n] ELSE 1]

Sound(i) == elements[i].verts \subseteq 1..Len(nodes)
AllSound == \A i \in DOMAIN elements : Sound(i)

(***************************************************************************)
(* Every call that changes nodes or elements, and what it does to the      *)
(* history: whether the mesh equals a file, which elements are current.    *)
(***************************************************************************)
Fits(n, m) == Running /\ n <= MaxNodes /\ m <= MaxElements /\ edits < MaxEdits
Age(stale) == table' = IF stale /\ table # "unbuilt" THEN "stale" ELSE table
Changed(from, current, removed) ==
  /\ source' = from
  /\ held' = current
  /\ taken' = removed
  /\ edits' = edits + 1

Reject == Running /\ ret' = "error"
            /\ UNCHANGED <<stores, numbers, around, since>>

(***************************************************************************)
(* read().  _init() takes the numbering to be in order; vectors and        *)
(* lookups keep what they hold.                                            *)
(***************************************************************************)
ClosedElements(f) == {i \in DOMAIN f.elements \ f.odd :
                        f.elements[i].verts \subseteq {f.nodes[k] : k \in DOMAIN f.nodes}}

Loaded(f, equal, current) ==
  Changed(IF AllGood(f) /\ equal THEN {f} ELSE {},
          IF AllGood(f) THEN current ELSE {}, FALSE)
Outcome(f) == IF AllGood(f) THEN "ok" ELSE "error"

Relocated(movedNodes, movedElements) ==
  /\ elementTable' = Relisted(movedNodes, movedElements)
  /\ Age(TRUE)
  /\ UNCHANGED initialized

(* The vectors are resized and overwritten, section by section; an odd line *)
(* leaves the element that was there.  The second size is the second token  *)
(* of its line: of a line of one token, what lies behind the token list,    *)
(* which is no number or ends the process.                                  *)
ReadAdcirc(f) ==
  LET n == IF f.good >= 2 THEN Len(f.nodes) ELSE Len(nodes)
      m == IF f.good >= 1 THEN Len(f.elements) ELSE Len(elements)
      inOrder  == \A i \in 1..NodesGood(f) : f.nodes[i] = i
      numbered == inOrder \/ \A i \in 1..ElementsGood(f) : f.elements[i].id = i
      spelled  == 1..ElementsGood(f) \ f.odd
      asked    == UNION {f.elements[i].verts : i \in spelled}
      lookup   == IF AllNodesGood(f) /\ ~inOrder
                    THEN Touched(Indexed(nodeLookup, f.nodes), asked) ELSE nodeLookup
      Vertex(v) == IF inOrder THEN v ELSE lookup[v]
      Parsed(e) == [id |-> e.id, verts |-> {Vertex(v) : v \in e.verts}]
  IN /\ f.format = "Adcirc"
     /\ Fits(n, m)
     /\ \E mn \in Moves(Len(nodes), n), me \in Moves(Len(elements), m) :
          LET kept == Resized(Repointed(elements, mn), m, DefaultElement) IN
          /\ nodes' = [i \in 1..n |-> IF i <= NodesGood(f) THEN f.nodes[i]
                                        ELSE Resized(nodes, n, DefaultNode)[i]]
          /\ elements' = [i \in 1..m |-> IF i \in spelled
                                           THEN Parsed(f.elements[i]) ELSE kept[i]]
          /\ Relocated(mn, me)
     /\ nodeOrderingLogical' = inOrder
     /\ elementOrderingLogical' = numbered
     /\ nodeLookup' = lookup
     /\ elementLookup' = IF AllGood(f) /\ ~numbered
          THEN Indexed(elementLookup, [i \in 1..m |-> elements'[i].id]) ELSE elementLookup
     /\ Loaded(f, f.odd = {}, ClosedElements(f))
     /\ ret' \in {Outcome(f)} \cup (IF f.good = 1 THEN {"cut"} ELSE {})

(* Cards are appended; a node card that does not parse is not modelled. *)
Read2dm(f) ==
  LET all == IF f.good >= 2 THEN nodes \o f.nodes ELSE nodes
      inOrder == f.good >= 2 => \A k \in DOMAIN f.nodes : f.nodes[k] = Len(nodes) + k
      asked   == UNION {f.elements[i].verts : i \in 1..ElementsGood(f)}
      lookup  == IF inOrder THEN nodeLookup ELSE Touched(Indexed(nodeLookup, all), asked)
      Vertex(v) == IF inOrder THEN v ELSE lookup[v]
      new == [i \in 1..ElementsGood(f) |->
                [id |-> f.elements[i].id, verts |-> {Vertex(v) : v \in f.elements[i].verts}]]
  IN /\ f.format = "2DM"
     /\ Fits(Len(all), Len(elements) + Len(new))
     /\ \E mn \in Moves(Len(nodes), Len(all)),
           me \in Moves(Len(elements), Len(elements) + Len(new)) :
          /\ elements' = Repointed(elements, mn) \o new
          /\ Relocated(mn, me)
     /\ nodes' = all
     /\ nodeOrderingLogical' = inOrder
     /\ elementOrderingLogical' = TRUE
     /\ nodeLookup' = lookup
     /\ Loaded(f, nodes = <<>> /\ elements = <<>>,
               {Len(elements) + i : i \in ClosedElements(f)})
     /\ ret' = Outcome(f)
     /\ UNCHANGED elementLookup

(* The arrays come in one piece each, and are appended. *)
ReadAdcircNetcdf(f) ==
  LET all == IF AllNodesGood(f) THEN nodes \o f.nodes ELSE nodes
      new == IF AllGood(f) THEN f.elements ELSE <<>>
  IN /\ f.format = "AdcircNetcdf"
     /\ Fits(Len(all), Len(elements) + Len(new))
     /\ \E mn \in Moves(Len(nodes), Len(all)),
           me \in Moves(Len(elements), Len(elements) + Len(new)) :
          /\ elements' = Repointed(elements, mn) \o new
          /\ Relocated(mn, me)
     /\ nodes' = all
     /\ nodeOrderingLogical' = TRUE
     /\ elementOrderingLogical' = TRUE
     /\ Loaded(f, nodes = <<>> /\ elements = <<>>,
               {Len(elements) + i : i \in ClosedElements(f)})
     /\ ret' = Outcome(f)
     /\ UNCHANGED <<nodeLookup, elementLookup>>

(* The arrays come first; the elements are resized at the first good one.   *)
(* Each is sorted about its centre as it is read, through its vertices.     *)
ReadDFlow(f) ==
  LET n == IF AllNodesGood(f) THEN Len(f.nodes) ELSE Len(nodes)
      m == IF ElementsGood(f) >= 1 THEN Len(f.elements) ELSE Len(elements)
      outside == \E i \in 1..ElementsGood(f) : ~(f.elements[i].verts \subseteq 1..n)
  IN /\ f.format = "DFlow"
     /\ Fits(n, m)
     /\ \E mn \in Moves(Len(nodes), n), me \in Moves(Len(elements), m) :
          LET kept == Resized(Repointed(elements, mn), m, DefaultElement) IN
          /\ nodes' = IF AllNodesGood(f) THEN f.nodes ELSE nodes
          /\ elements' = [i \in 1..m |-> IF i <= ElementsGood(f)
                                           THEN f.elements[i] ELSE kept[i]]
          /\ Relocated(mn, me)
     /\ nodeOrderingLogical' = TRUE
     /\ elementOrderingLogical' = TRUE
     /\ Loaded(f, f.elements # <<>> \/ elements = <<>>, ClosedElements(f))
     /\ ret' \in {Outcome(f)} \cup (IF outside THEN {"dead"} ELSE {})
     /\ UNCHANGED <<nodeLookup, elementLookup>>

(* The format is found to be unknown after _init(). *)
ReadUnknown(f) ==
  /\ f.format = "Unknown"
  /\ Fits(Len(nodes), Len(elements))
  /\ nodeOrderingLogical' = TRUE
  /\ elementOrderingLogical' = TRUE
  /\ ret' = "error"
  /\ Changed({}, held, FALSE)
  /\ UNCHANGED <<stores, nodeLookup, elementLookup, around>>

Read == \E f \in Meshes : \/ ReadAdcirc(f) \/ Read2dm(f) \/ ReadAdcircNetcdf(f)
                          \/ ReadDFlow(f) \/ ReadUnknown(f)

(***************************************************************************)
(* Calls that change nodes or elements.  "at" counts from 1.  None of them *)
(* touches the numbering or the lookups.                                   *)
(***************************************************************************)
Edited(from, current, removed) ==
  /\ ret' = "ok"
  /\ Changed(from, current, removed)
  /\ UNCHANGED numbers

AddNode(at, n) ==
  IF at > Len(nodes) + 1 THEN Reject
  ELSE IF at <= Len(nodes)
    THEN /\ Fits(Len(nodes), Len(elements))
         /\ nodes' = [nodes EXCEPT ![at] = n]
         /\ Edited({}, held, taken)
         /\ UNCHANGED <<elements, around>>
    ELSE /\ Fits(Len(nodes) + 1, Len(elements))
         /\ nodes' = Append(nodes, n)
         /\ \E mn \in BOOLEAN :
              /\ elements' = Repointed(elements, mn)
              /\ elementTable' = Relisted(mn, FALSE)
              /\ Age(mn)
              /\ Edited({}, IF mn THEN {} ELSE held, taken)
         /\ UNCHANGED initialized

DeleteNode(at) ==
  IF at > Len(nodes) THEN Reject
  ELSE /\ Fits(Len(nodes) - 1, Len(elements))
       /\ nodes' = Erased(nodes, at)
       /\ Edited({}, {}, TRUE)
       /\ UNCHANGED <<elements, around>>

(* The caller's element takes its vertices from node(). *)
AddElement(at, n, verts) ==
  LET e == [id |-> n, verts |-> verts] IN
  IF at > Len(elements) + 1 THEN Reject
  ELSE IF at <= Len(elements)
    THEN /\ Fits(Len(nodes), Len(elements))
         /\ elements' = [elements EXCEPT ![at] = e]
         /\ Relocated(FALSE, FALSE)
         /\ Edited({}, held \cup {at}, taken)
         /\ UNCHANGED nodes
    ELSE /\ Fits(Len(nodes), Len(elements) + 1)
         /\ elements' = Append(elements, e)
         /\ \E me \in BOOLEAN : Relocated(FALSE, me)
         /\ Edited({}, held \cup {at}, taken)
         /\ UNCHANGED nodes

DeleteElement(at) ==
  IF at > Len(elements) THEN Reject
  ELSE /\ Fits(Len(nodes), Len(elements) - 1)
       /\ elements' = Erased(elements, at)
       /\ Relocated(FALSE, FALSE)
       /\ Edited({}, {k \in held : k < at} \cup {k - 1 : k \in {h \in held : h > at}}, TRUE)
       /\ UNCHANGED nodes

(* resizeMesh(), setNumNodes() and setNumElements(). *)
ResizeMesh(n, m) ==
  /\ Fits(n, m)
  /\ \E mn \in Moves(Len(nodes), n), me \in Moves(Len(elements), m) :
       /\ elements' = Resized(Repointed(elements, mn), m, DefaultElement)
       /\ elementTable' = Relisted(mn, me)
       /\ Age(mn \/ me \/ m # Len(elements))
       /\ Edited({}, IF mn \/ n < Len(nodes) THEN {} ELSE held \cap 1..m,
                 taken \/ n < Len(nodes) \/ m < Len(elements))
  /\ nodes' = Resized(nodes, n, DefaultNode)
  /\ UNCHANGED initialized

Edit ==
  \/ \E at \in Positions :
       \/ DeleteNode(at) \/ DeleteElement(at)
       \/ \E n \in Numbers : AddNode(at, n)
       \/ \E n \in Numbers, v \in Corners : v \subseteq 1..Len(nodes) /\ AddElement(at, n, v)
  \/ \E n, m \in Sizes : ResizeMesh(n, m)

(***************************************************************************)
(* Nodes and elements by their numbers.                                    *)
(***************************************************************************)
NodePlace(n)    == IF nodeOrderingLogical THEN n
                     ELSE IF n \in DOMAIN nodeLookup THEN nodeLookup[n] ELSE 1
ElementPlace(n) == IF elementOrderingLogical THEN n
                     ELSE IF n \in DOMAIN elementLookup THEN elementLookup[n] ELSE 1

(* nodeById() and nodeIndexById() enter an unknown number in the lookup. *)
NodeById(n) ==
  /\ Running
  /\ nodeLookup' = IF nodeOrderingLogical THEN nodeLookup ELSE Touched(nodeLookup, {n})
  /\ ret' = IF nodeOrderingLogical /\ n \notin 1..Len(nodes) THEN "error" ELSE "ok"
  /\ UNCHANGED <<stores, nodeOrderingLogical, elementOrderingLogical, elementLookup>>
  /\ UNCHANGED <<around, since>>

ElementById(n) ==
  /\ Running
  /\ elementLookup' = IF elementOrderingLogical THEN elementLookup
                        ELSE Touched(elementLookup, {n})
  /\ ret' = IF elementOrderingLogical /\ n \notin 1..Len(elements) THEN "error" ELSE "ok"
  /\ UNCHANGED <<stores, nodeOrderingLogical, elementOrderingLogical, nodeLookup>>
  /\ UNCHANGED <<around, since>>

(***************************************************************************)
(* The table of elements around a node, and the checks that use it.        *)
(***************************************************************************)
(* Positions in their order: the k-th is the one with k up to it.           *)
Ranked(S) == [k \in 1..Cardinality(S) |-> CHOOSE i \in S : Cardinality({j \in S : j <= i}) = k]

(* Mutant of Around: the loop stops before the last element. *)
AroundShort(n) == Ranked({i \in 1..(Len(elements) - 1) : n \in elements[i].verts})

Around(n) == Ranked({i \in DOMAIN elements : n \in elements[i].verts})

(* build() goes through the elements and adds to whatever the table holds. *)
TableBuilt ==
  [n \in DOMAIN elementTable \cup UNION {elements[i].verts \ {Nowhere} : i \in DOMAIN elements} |->
     (IF n \in DOMAIN elementTable THEN elementTable[n] ELSE <<>>) \o Around(n)]

Worth == CASE table = "unbuilt"          -> "once"
           [] table \in {"once", "again"} -> "again"
           [] OTHER                       -> "patched"

OnlyTable == Running /\ UNCHANGED <<stores, since>>
Build ==
  /\ elementTable' = TableBuilt
  /\ \A n \in DOMAIN elementTable' : Len(elementTable'[n]) <= MaxListed
  /\ initialized' = TRUE
  /\ table' = Worth

BuildElementTable ==
  /\ OnlyTable
  /\ Build
  /\ ret' = "ok"
  /\ UNCHANGED numbers

Listed(tab, n) == IF n \in DOMAIN tab THEN {tab[n][k] : k \in DOMAIN tab[n]} ELSE {}
Dangling(tab)  == \E n \in DOMAIN tab \cap 1..Len(nodes) :
                    ~(Listed(tab, n) \subseteq 1..Len(elements))

(* By position: the table has no mesh before it was first built; an        *)
(* unknown node is entered with an empty list.                             *)
NumElementsAroundNode(at) ==
  /\ OnlyTable
  /\ ret' = IF ~initialized THEN "unmeshed"
            ELSE IF at > Len(nodes) THEN "error" ELSE "ok"
  /\ elementTable' = IF initialized /\ at <= Len(nodes) /\ at \notin DOMAIN elementTable
       THEN [n \in DOMAIN elementTable \cup {at} |->
               IF n = at THEN <<>> ELSE elementTable[n]]
       ELSE elementTable
  /\ UNCHANGED <<numbers, initialized, table>>

(* computeMeshSize() builds the table when nobody has. *)
ComputeMeshSize ==
  /\ OnlyTable
  /\ IF initialized THEN UNCHANGED around ELSE Build
  /\ LET missing == ~(1..Len(nodes) \subseteq DOMAIN elementTable') IN
     ret' \in (IF missing THEN {"error"} ELSE {"ok"})
                \cup (IF Dangling(elementTable') \/ ~AllSound THEN {"dead"} ELSE {})
  /\ UNCHANGED numbers

(* checkNodeNumbering(), checkElementNumbering() *)
WellNumbered == /\ \A i \in DOMAIN nodes : nodes[i] = i
                /\ \A i \in DOMAIN elements : elements[i].id = i

Vertices == UNION {elements[i].verts : i \in DOMAIN elements}

(* Mutant of Marks: a node number is taken for an index. *)
MarksUnshifted(lookup) ==
  {IF nodeOrderingLogical THEN nodes[v] + 1 ELSE lookup[nodes[v]] : v \in Vertices}

(* checkDisjointNodes() marks a node where the lookup says it is. *)
Marks(lookup) == {IF nodeOrderingLogical THEN nodes[v] ELSE lookup[nodes[v]] : v \in Vertices}

(* checkOverlappingElements() counts the entries under one end of an edge  *)
(* whose element is also under the other end.                              *)
Common(tab, a, b) ==
  Cardinality({k \in DOMAIN tab[a] : \E l \in DOMAIN tab[b] :
                 elements[tab[a][k]].id = elements[tab[b][l]].id})

(* Mutant of ReportsOverlap: one more element is allowed. *)
ReportsOverlapLate(tab) ==
  \E i \in DOMAIN elements : \E a, b \in elements[i].verts : a # b /\ Common(tab, a, b) > 3

ReportsOverlap(tab) ==
  \E i \in DOMAIN elements : \E a, b \in elements[i].verts : a # b /\ Common(tab, a, b) > 2

(* checkMesh(): the checks that compare values only decide between         *)
(* outcomes that are one here, "checked".                                  *)
CheckMesh ==
  /\ OnlyTable
  /\ UNCHANGED <<nodeOrderingLogical, elementOrderingLogical, elementLookup>>
  /\ IF ~WellNumbered
       THEN ret' = "misnumbered" /\ UNCHANGED <<nodeLookup, around>>
     ELSE IF ~AllSound
       THEN ret' = "dead" /\ UNCHANGED <<nodeLookup, around>>
       ELSE /\ nodeLookup' = IF nodeOrderingLogical THEN nodeLookup
                               ELSE Touched(nodeLookup, {nodes[v] : v \in Vertices})
            /\ IF ~(Marks(nodeLookup') \subseteq 1..Len(nodes))
                 THEN ret' = "dead" /\ UNCHANGED around
                 ELSE /\ Build
                      /\ IF Dangling(elementTable') THEN ret' = "dead"
                         ELSE ret' = IF ReportsOverlap(elementTable')
                                       THEN "overlapping" ELSE "checked"

(* The public Mesh copies through clone(), which fills a null pointer. *)
CopyMesh ==
  /\ Running
  /\ ret' = "copied"
  /\ UNCHANGED <<stores, numbers, around, since>>

Ask ==
  \/ \E n \in Numbers : NodeById(n) \/ ElementById(n)
  \/ BuildElementTable
  \/ \E at \in Positions : NumElementsAroundNode(at)
  \/ ComputeMeshSize
  \/ CheckMesh
  \/ CopyMesh

Next == Read \/ Edit \/ Ask

Spec == Init /\ [][Next]_vars

(***************************************************************************)
(* Properties.                                                             *)
(***************************************************************************)

(* Whatever was read, edited or searched in between, an element whose      *)
(* vertices were taken from this mesh since nodes last moved or went has   *)
(* live vertices: the only calls that may leave an element pointing        *)
(* outside the node vector are those that shrink or move that vector.      *)
VerticesLive == \A i \in held : i \in DOMAIN elements /\ Sound(i)

(* A mesh that was read into an empty object, or in a format that          *)
(* overwrites, and not edited since, is the file: the same elements on     *)
(* nodes of the same numbers, however the file numbers its nodes and       *)
(* whatever lookups earlier reads have left behind.                        *)
Equals(f) ==
  /\ nodes = f.nodes
  /\ Len(elements) = Len(f.elements)
  /\ \A i \in DOMAIN elements :
       /\ elements[i].id = f.elements[i].id
       /\ {nodes[v] : v \in elements[i].verts} = f.elements[i].verts
ReadFaithful == \A f \in source : Closed(f) => Equals(f)

(* In such a mesh, if the file gives no number twice, a node is found by   *)
(* its number.  So is an element, but not always where elements are out of *)
(* order: the ASCII reader compares an element's number with its place     *)
(* only where the nodes are out of order, the 2DM reader never.            *)
NoNumberTwice(f) ==
  /\ \A i, k \in DOMAIN f.nodes : f.nodes[i] = f.nodes[k] => i = k
  /\ \A i, k \in DOMAIN f.elements : f.elements[i].id = f.elements[k].id => i = k
InOrder(es) == \A i \in DOMAIN es : es[i].id = i
FoundByNumber ==
  \A f \in source : NoNumberTwice(f) =>
    /\ \A i \in DOMAIN nodes : NodePlace(nodes[i]) = i
    /\ InOrder(elements) \/ (f.format = "Adcirc" /\ ~nodeOrderingLogical) =>
         \A i \in DOMAIN elements : ElementPlace(elements[i].id) = i

(* Built once on a mesh that has not changed since, the table lists under  *)
(* each node the elements around it, each once and in order.               *)
TableExact ==
  table = "once" => \A n \in 1..Len(nodes) :
    LET list == IF n \in DOMAIN elementTable THEN elementTable[n] ELSE <<>> IN
    /\ {list[k] : k \in DOMAIN list} = {i \in DOMAIN elements : n \in elements[i].verts}
    /\ \A j, k \in DOMAIN list : j < k => list[j] < list[k]

(* After any build, and until the mesh changes, no element is missing from *)
(* the list of a vertex of its own: checkOverlappingElements() may report  *)
(* too much but overlooks nothing.                                         *)
TrueOverlap == \E i \in DOMAIN elements : \E a, b \in elements[i].verts :
                 a # b /\ Cardinality({k \in DOMAIN elements : {a, b} \subseteq elements[k].verts}) > 2
OverlapsFound == ret = "checked" => ~TrueOverlap

(* Some deaths say themselves what they are of: the copy of a mesh, the    *)
(* elements around a node asked for before a table was ever built, a size  *)
(* line of one token.  Of all else the process dies only with an element   *)
(* that has lost its vertices or was read with ones the mesh does not      *)
(* have, a table that kept elements through a change, or a lookup that     *)
(* kept numbers through one.                                               *)
DeathExplained ==
  ret = "dead" => \/ ~AllSound
                  \/ table \in {"stale", "patched"}
                  \/ ~nodeOrderingLogical /\ source = {}
=============================================================================
