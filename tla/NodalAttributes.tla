--------------------------- MODULE NodalAttributes ---------------------------
(***************************************************************************)
(* The nodal attributes of a mesh, a fort.13 file in memory: class         *)
(* NodalAttributesPrivate of src/src/nodalattributes_private.cpp, with     *)
(* attribute.cpp and attributemetadata.cpp.  One object, the calls its     *)
(* owner makes on it in any order, and the exceptions the owner may catch. *)
(*                                                                         *)
(* The mesh is what nodeById() and nodeIndexById() of a mesh read from a   *)
(* file know of it: its node numbers by position, in order or not.  A      *)
(* value is a member of a small set, positions count from 1.  setNumNodes()*)
(* and setNumParameters(), which only overwrite a count, are left out, and *)
(* so are the asserts, as in the release build.                            *)
(***************************************************************************)
EXTENDS Integers, FiniteSets, Sequences

CONSTANTS
  Names,      \* names of attributes
  Values,     \* what a number in a file may be
  Fort13,     \* the files an object may read
  Meshes,     \* the meshes an object may be given
  RowLengths, \* how many attributes a caller hands to addAttribute()
  New,        \* the metadata a caller hands to addAttribute()
  Junk,       \* what an uninitialized count may be
  MaxParams,  \* bound: attributes held
  MaxCalls    \* bound: calls that change the object

VARIABLES
  mesh,          \* m_mesh, NoMesh for nullptr
  numNodes,      \* m_numNodes
  numParameters, \* m_numParameters
  params,        \* m_nodalParameters
  data,          \* m_nodalData: a row of Attribute for each parameter
  locations,     \* m_attributeLocations
  written,       \* the file write() made, NoFile before
  ret,           \* how the last call ended
  loaded,        \* history: the file the object still equals, if any
  lapses,        \* history: what the owner did that the code takes on trust
  calls          \* history: number of changes

counts  == <<numNodes, numParameters>>
tables  == <<params, data, locations>>
history == <<loaded, lapses, calls>>
vars    == <<mesh, counts, tables, written, ret, history>>

NoMesh  == <<>>
NoFile  == [nodes |-> 0, count |-> 0, header |-> <<>>, body |-> <<>>, bad |-> "counts"]
Unnamed == "defaultName"

(***************************************************************************)
(* A file: the numbers of nodes and attributes it announces, the defaults  *)
(* of each attribute, then for each the nodes that differ.  "values" are   *)
(* the numbers on a line, none when it does not parse.  "bad" names what   *)
(* does not convert above the body; of the defaults it is the last, and    *)
(* the last may also have fewer numbers than the attribute.                *)
(***************************************************************************)
Metadata == [name : Names \cup {Unnamed}, size : Nat, default : Seq(Values)]
Section  == [name : Names \cup {Unnamed}, count : Nat, entries : Seq([node : Nat, values : Seq(Values)])]
File     == [nodes : Nat, count : Nat, header : Seq(Metadata), body : Seq(Section),
             bad : {"nothing", "counts", "default"}]
Attribute == [id : Nat, values : Seq(Values), node : Nat]

ASSUME AttributesAssumption ==
  /\ Fort13 \subseteq File
  /\ \A f \in Fort13 :
       /\ Len(f.header) = f.count /\ Len(f.body) = f.count /\ f.count <= MaxParams
       /\ \A i \in 1..f.count : /\ f.header[i].size > 0
                               /\ Len(f.header[i].default) <= f.header[i].size
                               /\ (i < f.count => Len(f.header[i].default) = f.header[i].size)
                               /\ Len(f.body[i].entries) <= f.body[i].count
  /\ New \subseteq Metadata
  /\ Meshes \subseteq Seq(Nat) \ {NoMesh}
  /\ Unnamed \notin Names
  /\ 0 \in Values
  /\ RowLengths \subseteq Nat
  /\ Junk \subseteq Nat
  /\ MaxParams \in Nat
  /\ MaxCalls \in Nat

TypeOKAttributes ==
  /\ mesh \in Meshes \cup {NoMesh}
  /\ numNodes \in Nat
  /\ numParameters \in Nat
  /\ params \in Seq(Metadata)
  /\ data \in Seq(Seq(Attribute))
  /\ DOMAIN locations \subseteq Names \cup {Unnamed}
  /\ \A n \in DOMAIN locations : locations[n] \in Nat \ {0}
  /\ written \in File
  /\ ret \in {"none", "ok", "error", "written", "dead"}
  /\ loaded \subseteq Fort13
  /\ lapses \subseteq {"remeshed", "failed", "uneven", "foreign", "short"}
  /\ calls \in 0..MaxCalls

(* Both constructors; the second leaves m_numNodes unset without a mesh. *)
Init ==
  /\ mesh \in Meshes \cup {NoMesh}
  /\ numNodes \in IF mesh = NoMesh THEN Junk ELSE {Len(mesh)}
  /\ numParameters = 0
  /\ params = <<>>
  /\ data = <<>>
  /\ locations = <<>>
  /\ written = NoFile
  /\ ret = "none"
  /\ loaded = {}
  /\ lapses = {}
  /\ calls = 0

Running == ret # "dead"
Change  == Running /\ calls < MaxCalls /\ calls' = calls + 1

(***************************************************************************)
(* The mesh.                                                               *)
(***************************************************************************)
Ordered      == \A j \in DOMAIN mesh : mesh[j] = j
PlacesOf(n)  == {j \in DOMAIN mesh : mesh[j] = n}
IndexById(n) == IF Ordered THEN n
                ELSE IF PlacesOf(n) = {} THEN 1
                ELSE CHOOSE j \in PlacesOf(n) : \A k \in PlacesOf(n) : k <= j

(* Where the body puts a value given for node n. *)
Place(n) == IF mesh = NoMesh THEN n ELSE IndexById(n)

SetMesh(m) ==
  /\ Change
  /\ mesh' = m
  /\ loaded' = {}
  /\ lapses' = IF Len(m) = numNodes THEN lapses \ {"remeshed"} ELSE lapses \cup {"remeshed"}
  /\ ret' = "ok"
  /\ UNCHANGED <<counts, tables, written>>

(***************************************************************************)
(* read(), section by section.                                             *)
(***************************************************************************)
Blank    == [name |-> Unnamed, size |-> 1, default |-> <<0>>]
NumberAt(j) == IF mesh = NoMesh THEN j ELSE mesh[j]

ReadError ==
  /\ Change
  /\ ret' = "error"
  /\ loaded' = {}
  /\ lapses' = lapses \cup {"failed"}
  /\ UNCHANGED <<mesh, written>>

(* The count of attributes is taken before the count of nodes is compared. *)
ReadBadCounts(f) ==
  /\ f.bad = "counts"
  /\ ReadError
  /\ UNCHANGED <<counts, tables>>

ReadOtherMesh(f) ==
  /\ f.bad # "counts"
  /\ mesh # NoMesh /\ Len(mesh) # f.nodes
  /\ ReadError
  /\ numParameters' = f.count
  /\ UNCHANGED <<numNodes, tables>>

(* Mutant of RowsOf: the count of a file read without a mesh is not kept. *)
RowsOfMesh(f) == numNodes

Accepted(f) == f.bad # "counts" /\ (mesh = NoMesh \/ Len(mesh) = f.nodes)
RowsOf(f)   == IF mesh = NoMesh THEN f.nodes ELSE numNodes

(* Row i resized and numbered as far as the mesh goes, with its old values. *)
Resized(f, i) ==
  [j \in 1..RowsOf(f) |->
     LET old == IF i <= Len(data) /\ j <= Len(data[i]) THEN data[i][j]
                ELSE [id |-> 0, values |-> <<0>>, node |-> 0]
     IN  IF mesh = NoMesh \/ j <= Len(mesh) THEN [old EXCEPT !.id = NumberAt(j)] ELSE old]

(* m_numNodes of another mesh asks node() for more nodes than there are. *)
ReadTooManyRows(f) ==
  /\ Accepted(f)
  /\ mesh # NoMesh /\ RowsOf(f) > Len(mesh) /\ f.count > 0
  /\ ReadError
  /\ numParameters' = f.count
  /\ params' = [i \in 1..f.count |-> IF i <= Len(params) THEN params[i] ELSE Blank]
  /\ data' = [i \in 1..f.count |-> IF i = 1 THEN Resized(f, i)
                                    ELSE IF i <= Len(data) THEN data[i] ELSE <<>>]
  /\ UNCHANGED <<numNodes, locations>>

(* Mutant of Filled: rows of an earlier reading keep their values. *)
FilledOnce(f, i) == Resized(f, i)

(* What the header section and _fillDefaultValues() leave in a row. *)
Filled(f, i) == [j \in 1..RowsOf(f) |->
                   [Resized(f, i)[j] EXCEPT !.values = f.header[i].default]]
Located(f) ==
  [n \in DOMAIN locations \cup {f.header[i].name : i \in 1..f.count} |->
     IF \E i \in 1..f.count : f.header[i].name = n
       THEN CHOOSE i \in 1..f.count :
              /\ f.header[i].name = n
              /\ \A k \in 1..f.count : f.header[k].name = n => k <= i
       ELSE locations[n]]

Headed(f) ==
  /\ Accepted(f)
  /\ RowsOf(f) <= Len(mesh) \/ mesh = NoMesh \/ f.count = 0

ShortDefault(f) ==
  f.count > 0 /\ Len(f.header[f.count].default) < f.header[f.count].size

(* Several defaults are taken from the tokens of their line unchecked. *)
DefaultOverrun(f) ==
  f.bad = "nothing" /\ ShortDefault(f) /\ f.header[f.count].size # 1

(* The values of the rows are those of before. *)
ReadBadDefault(f) ==
  /\ Headed(f)
  /\ f.bad = "default" \/ ShortDefault(f)
  /\ Change
  /\ ret' \in IF DefaultOverrun(f) THEN {"error", "dead"} ELSE {"error"}
  /\ lapses' = lapses \cup {IF ret' = "dead" THEN "short" ELSE "failed"}
  /\ loaded' = {}
  /\ UNCHANGED <<mesh, written>>
  /\ numParameters' = f.count
  /\ numNodes' = RowsOf(f)
  /\ params' = [i \in 1..f.count |-> IF i < f.count THEN f.header[i]
                                      ELSE IF i <= Len(params) THEN params[i] ELSE Blank]
  /\ data' = [i \in 1..f.count |-> Resized(f, i)]
  /\ locations' = Located([f EXCEPT !.count = f.count - 1])

(***************************************************************************)
(* The body.  Section i fills row i; its name only decides, through the    *)
(* table of names, how many values a line must have.  A name the table     *)
(* lacks is entered at the first position.                                 *)
(***************************************************************************)
Named(f, i) == LET n == f.body[i].name
               IN  IF n \in DOMAIN Located(f) THEN Located(f)[n] ELSE 1
Entries(f, i)  == f.body[i].entries
Rows(f)        == 1..RowsOf(f)

LineEnds(f, i, k) ==
  IF k > Len(Entries(f, i)) \/ Entries(f, i)[k].values = <<>> THEN "error"
  ELSE IF Place(Entries(f, i)[k].node) \notin Rows(f) THEN "dead"
  ELSE IF /\ f.header[Named(f, i)].size # 1
          /\ Len(Entries(f, i)[k].values) # f.header[i].size THEN "error"
  ELSE "ok"

(* The lines at which reading may stop, line 0 being the head of a section. *)
StopsIn(f, i) ==
  IF Named(f, i) > f.count THEN {0}
  ELSE {k \in 1..f.body[i].count : LineEnds(f, i, k) # "ok"}
Stops(f) == UNION {{i} \X StopsIn(f, i) : i \in 1..f.count}
Before(a, b) == a[1] < b[1] \/ (a[1] = b[1] /\ a[2] <= b[2])
Stop(f) == CHOOSE a \in Stops(f) : \A b \in Stops(f) : Before(a, b)

(* What a line leaves in the row of section i. *)
Entered(f, i, values) ==
  IF f.header[Named(f, i)].size = 1
    THEN [x \in 1..f.header[i].size |-> values[1]]
    ELSE values

(* Row i after the first n lines of its section. *)
RowAfter(f, i, n) ==
  [j \in Rows(f) |->
     LET for == {k \in 1..n : Place(Entries(f, i)[k].node) = j}
     IN  IF for = {} THEN Filled(f, i)[j]
         ELSE LET last == CHOOSE k \in for : \A l \in for : l <= k
              IN  [Filled(f, i)[j] EXCEPT
                     !.id = Entries(f, i)[last].node,
                     !.values = Entered(f, i, Entries(f, i)[last].values)]]

NamesMet(f, last) ==
  [n \in DOMAIN Located(f) \cup {f.body[i].name : i \in 1..last} |->
     IF n \in DOMAIN Located(f) THEN Located(f)[n] ELSE 1]

(* The body names a node or an attribute that the file does not have. *)
Foreign(f) ==
  \E i \in 1..f.count :
    \/ f.body[i].name \notin {f.header[h].name : h \in 1..f.count}
    \/ \E k \in DOMAIN Entries(f, i) :
         Entries(f, i)[k].node \notin {NumberAt(j) : j \in 1..f.nodes}

Read13(f) ==
  /\ Headed(f)
  /\ f.bad = "nothing" /\ ~ShortDefault(f)
  /\ numParameters' = f.count
  /\ numNodes' = RowsOf(f)
  /\ params' = f.header

ReadCutBody(f) ==
  /\ Read13(f)
  /\ Stops(f) # {}
  /\ Change
  /\ LET s == Stop(f) IN
       /\ ret' = IF s[2] = 0 THEN "dead" ELSE LineEnds(f, s[1], s[2])
       /\ data' = [i \in 1..f.count |->
                     IF i < s[1] THEN RowAfter(f, i, Len(Entries(f, i)))
                     ELSE IF i = s[1] /\ s[2] > 0 THEN RowAfter(f, i, s[2] - 1)
                     ELSE Filled(f, i)]
       /\ locations' = NamesMet(f, s[1])
  /\ loaded' = {}
  /\ lapses' = lapses \cup (IF ret' = "error" THEN {"failed"} ELSE {})
                      \cup (IF Foreign(f) THEN {"foreign"} ELSE {})
  /\ UNCHANGED <<mesh, written>>

(* Mutant of MapNodes: the number is taken for the position. *)
MapNodesUnmapped(row) ==
  IF mesh = NoMesh THEN row
  ELSE [j \in DOMAIN row |-> [row[j] EXCEPT !.node = row[j].id]]

(* nodeById() finds every number a row can have by now. *)
MapNodes(row) ==
  IF mesh = NoMesh THEN row
  ELSE [j \in DOMAIN row |-> [row[j] EXCEPT !.node = IndexById(row[j].id)]]

ReadWhole(f) ==
  /\ Read13(f)
  /\ Stops(f) = {}
  /\ Change
  /\ ret' = "ok"
  /\ data' = [i \in 1..f.count |-> MapNodes(RowAfter(f, i, f.body[i].count))]
  /\ locations' = NamesMet(f, f.count)
  /\ loaded' = {f}
  /\ lapses' = lapses \cap {"remeshed"}
  /\ UNCHANGED <<mesh, written>>

Read ==
  \E f \in Fort13 :
    \/ ReadBadCounts(f)
    \/ ReadOtherMesh(f)
    \/ ReadTooManyRows(f)
    \/ ReadBadDefault(f)
    \/ ReadCutBody(f)
    \/ ReadWhole(f)

(***************************************************************************)
(* Editing: addAttribute() takes rows of any length, attribute() and       *)
(* metadata() hand out what the owner then sets.                           *)
(***************************************************************************)
AddAttribute(md, length, v) ==
  /\ Change
  /\ Len(params) < MaxParams
  /\ params' = Append(params, md)
  /\ data' = Append(data, [j \in 1..length |->
               [id |-> j, values |-> [x \in 1..md.size |-> v], node |-> 0]])
  /\ locations' = [n \in DOMAIN locations \cup {md.name} |->
                     IF n = md.name THEN Len(params) + 1 ELSE locations[n]]
  /\ numParameters' = Len(params) + 1
  /\ ret' = "ok"
  /\ loaded' = {}
  /\ lapses' = lapses \cup (IF length = numNodes THEN {} ELSE {"uneven"})
  /\ UNCHANGED <<mesh, numNodes, written>>

Refused ==
  /\ Running
  /\ ret' = "error"
  /\ UNCHANGED <<mesh, counts, tables, written, history>>

Dies ==
  /\ Running
  /\ ret' = "dead"
  /\ UNCHANGED <<mesh, counts, tables, written, history>>

(* The owner sets what attribute(p, n) points at. *)
SetValue(p, n, v) ==
  \/ /\ p > numParameters \/ n > numNodes
     /\ Refused
  \/ /\ p <= numParameters /\ n <= numNodes
     /\ p > Len(data) \/ (p <= Len(data) /\ n > Len(data[p]))
     /\ Dies
  \/ /\ p <= numParameters /\ n <= numNodes
     /\ p <= Len(data) /\ (p <= Len(data) => n <= Len(data[p]))
     /\ Change
     /\ data' = [data EXCEPT ![p][n].values = [x \in DOMAIN data[p][n].values |-> v]]
     /\ ret' = "ok"
     /\ loaded' = {}
     /\ UNCHANGED <<mesh, counts, params, locations, written, lapses>>

(* The same through a name; one that is not known is refused. *)
SetNamed(name, n, v) ==
  IF name \in DOMAIN locations THEN SetValue(locations[name], n, v) ELSE Refused

(* Likewise metadata(p)->setDefaultValue(). *)
SetDefault(p, v) ==
  \/ /\ p > numParameters
     /\ Refused
  \/ /\ p <= numParameters
     /\ p > Len(params)
     /\ Dies
  \/ /\ p <= numParameters
     /\ p <= Len(params)
     /\ Change
     /\ params' = [params EXCEPT ![p].default = [x \in DOMAIN params[p].default |-> v]]
     /\ ret' = "ok"
     /\ loaded' = {}
     /\ UNCHANGED <<mesh, counts, data, locations, written, lapses>>

(***************************************************************************)
(* write(): the header of every attribute held, then the rows counted.     *)
(***************************************************************************)
(* Mutant of IsDefault: only the first value is compared. *)
IsDefaultFirst(p, a) == a.values[1] = params[p].default[1]

IsDefault(p, a) == a.values = params[p].default
NonDefaults(p)  == {j \in DOMAIN data[p] : ~IsDefault(p, data[p][j])}
Line(a)         == [node |-> a.id, values |-> a.values]
Lines(p) ==
  LET due    == {j \in NonDefaults(p) : j <= numNodes}
      Rank(j) == Cardinality({k \in due : k <= j})
  IN  [r \in 1..Cardinality(due) |-> Line(data[p][CHOOSE j \in due : Rank(j) = r])]
SectionOf(p) == [name |-> params[p].name, count |-> Cardinality(NonDefaults(p)),
                 entries |-> Lines(p)]

Covered == /\ numParameters <= Len(params)
           /\ \A p \in 1..numParameters : numNodes <= Len(data[p])

Write ==
  \/ /\ ~Covered
     /\ Dies
  \/ /\ Covered
     /\ Running
     /\ written' = [nodes |-> numNodes, count |-> numParameters, header |-> params,
                    body |-> [p \in 1..numParameters |-> SectionOf(p)],
                    bad |-> "nothing"]
     /\ ret' = "written"
     /\ UNCHANGED <<mesh, counts, tables, history>>

Next ==
  \/ \E m \in Meshes : SetMesh(m)
  \/ Read
  \/ \E md \in New, length \in RowLengths, v \in Values : AddAttribute(md, length, v)
  \/ \E p \in 1..(MaxParams + 1), n \in RowLengths \ {0}, v \in Values : SetValue(p, n, v)
  \/ \E name \in Names, n \in RowLengths \ {0}, v \in Values : SetNamed(name, n, v)
  \/ \E p \in 1..(MaxParams + 1), v \in Values : SetDefault(p, v)
  \/ Write

Spec == Init /\ [][Next]_vars

(***************************************************************************)
(* What a file says of an attribute at a node.                             *)
(***************************************************************************)
Means(f, name, node) ==
  LET h == CHOOSE i \in DOMAIN f.header : f.header[i].name = name
      for == UNION {{i} \X {k \in DOMAIN Entries(f, i) : Entries(f, i)[k].node = node} :
                      i \in {i \in 1..f.count : f.body[i].name = name}}
  IN  IF for = {} THEN f.header[h].default
      ELSE LET e == CHOOSE a \in for : \A b \in for : Before(b, a)
           IN  Entries(f, e[1])[e[2]].values

Distinct(s) == \A i, k \in DOMAIN s : s[i] = s[k] => i = k
NamesOf(metadata) == [i \in DOMAIN metadata |-> metadata[i].name]

(* A file whose sections come in the order of its header, name its own     *)
(* nodes and give no more values than the attribute has: of a line for an  *)
(* attribute of one value the rest is not read.                            *)
Orderly(f) ==
  /\ Distinct(NamesOf(f.header))
  /\ \A i \in 1..f.count :
       /\ f.body[i].name = f.header[i].name
       /\ \A k \in DOMAIN Entries(f, i) : Len(Entries(f, i)[k].values) <= f.header[i].size
  /\ ~Foreign(f)

(* After read() returns, on an object whose mesh is the one it was made    *)
(* with and gives no number twice, an orderly file is in memory: every     *)
(* attribute by its name has at every node the values the file gives it, a *)
(* later line over an earlier, the default elsewhere; whatever was read,   *)
(* added or half read before.                                              *)
FileHonoured ==
  \A f \in loaded :
    "remeshed" \notin lapses /\ Distinct(mesh) /\ Orderly(f) =>
      \A i \in 1..f.count :
        LET n == f.header[i].name IN
          /\ n \in DOMAIN locations
          /\ params[locations[n]] = f.header[i]
          /\ Len(data[locations[n]]) = f.nodes
          /\ \A j \in 1..f.nodes :
               data[locations[n]][j].values = Means(f, n, NumberAt(j))

(* After read() with a mesh whose numbers differ, the attribute in row j   *)
(* is that of the node at position j: same number, pointer to that node.   *)
(* _mapNodes() goes by the number, the rows by the position.               *)
NodesAttached ==
  \A f \in loaded :
    mesh # NoMesh /\ Distinct(mesh) /\ ~Foreign(f) =>
      \A i \in DOMAIN data : \A j \in DOMAIN data[i] :
        data[i][j].id = mesh[j] /\ data[i][j].node = j

(* The file write() makes says what the object holds, if its counts fit    *)
(* its vectors: each section counts its lines, and attribute and node have *)
(* the values of the row, those equal to the default left to the header.   *)
WriteFaithful ==
  (/\ ret = "written"
   /\ numParameters = Len(params)
   /\ Distinct(NamesOf(params))
   /\ \A p \in DOMAIN data : /\ Len(data[p]) = numNodes
                             /\ Distinct([j \in DOMAIN data[p] |-> data[p][j].id]))
  => \A p \in DOMAIN params :
       /\ written.body[p].count = Len(written.body[p].entries)
       /\ \A j \in 1..numNodes :
            data[p][j].values = Means(written, params[p].name, data[p][j].id)

(* The process reads past its vectors only after one of five lapses: a     *)
(* mesh of another size set later (setMesh() leaves m_numNodes), a read()  *)
(* that threw, rows of another length, a body naming a node or an          *)
(* attribute the file has not, or, in read() itself, a line of several     *)
(* defaults with fewer numbers than the attribute has values.              *)
(* A read() that returns mends all but the first.                          *)
DeathExplained13 == ret = "dead" => lapses # {}
=============================================================================
