----------------------------- MODULE Fingerprint -----------------------------
(***************************************************************************)
(* The hashes of a mesh: Node::hash() and positionHash() of                *)
(* src/src/node.cpp, Element::hash() of element.cpp, Boundary::hash() of   *)
(* boundary.cpp and MeshPrivate::hash() of mesh_private.cpp.  Each is made *)
(* when first asked for, or by force, and kept; that of a mesh is made of  *)
(* those of its parts, those of elements and boundaries of the position    *)
(* hashes of their nodes.  What else a boundary digests is in Boundary.    *)
(*                                                                         *)
(* A digest is what was digested.  The mesh has been read, and is read     *)
(* again from files of as many nodes, so that every pointer has its target *)
(* (module Mesh has the others); boundaries are all of one length, and     *)
(* the list stands for the open and the land boundaries.                   *)
(***************************************************************************)
EXTENDS Integers, Sequences

CONSTANTS
  NumNodes,       \* nodes of the mesh
  Places,         \* positions, as a digest tells them apart
  Depths,         \* elevations
  Types,          \* hash types
  Default,        \* AdcircDefaultHash
  Project(_),     \* reproject(): where a position goes
  Files,          \* meshes there are to read
  BoundaryLength, \* nodes of a boundary
  MaxElements,    \* bound: elements of the mesh
  MaxCalls        \* bound: calls

VARIABLES
  node,     \* m_nodes
  element,  \* m_elements
  boundary, \* m_openBoundaries, m_landBoundaries
  mesh,     \* m_hash and m_hashType
  causes,   \* history: what may have left a cached hash behind
  calls     \* history: number of calls

vars == <<node, element, boundary, mesh, causes, calls>>

Nodes == 1..NumNodes
NoHash == <<>>   \* null; a digest is the one-element sequence of what was digested

Triangles == {t \in [1..3 -> Nodes] : t[1] # t[2] /\ t[2] # t[3] /\ t[1] # t[3]}
Chains    == [1..BoundaryLength -> Nodes]

ASSUME FingerprintAssumption ==
  /\ NumNodes \in Nat /\ BoundaryLength \in Nat \ {0} /\ MaxElements \in Nat /\ MaxCalls \in Nat
  /\ Default \in Types
  /\ \A p \in Places : Project(p) \in Places
  /\ \A f \in Files : /\ f.place \in [Nodes -> Places] /\ f.depth \in [Nodes -> Depths]
                      /\ f.elements \in Seq(Triangles) /\ Len(f.elements) <= MaxElements
                      /\ f.boundaries \in Seq(Chains)

(***************************************************************************)
(* What is digested.  A position hash is always of the default type: the   *)
(* type asked for is not handed on.                                        *)
(***************************************************************************)
NodeText(n, t) == [type |-> t, place |-> node[n].place, depth |-> node[n].depth]

Position(x) == IF x.position = NoHash THEN <<x.place>> ELSE x.position

ChainText(chain, t, at) == [type |-> t, positions |-> [i \in DOMAIN chain |-> at[chain[i]]]]

Cached == [n \in Nodes |-> Position(node[n])]
Exact  == [n \in Nodes |-> <<node[n].place>>]

(* Mutant of Made: a hash once made is kept even by force. *)
MadeOnce(x, text, force) == IF x.hash = NoHash THEN [x EXCEPT !.hash = <<text>>] ELSE x

Made(x, text, force) == IF x.hash = NoHash \/ force THEN [x EXCEPT !.hash = <<text>>] ELSE x

(* Hashing a chain of nodes leaves each of them with a position hash. *)
Positioned(set) == [n \in Nodes |-> IF n \in set THEN [node[n] EXCEPT !.position = Position(node[n])]
                                    ELSE node[n]]
On(chain) == {chain[i] : i \in DOMAIN chain}
OnAll(chains) == UNION {On(chains[i].nodes) : i \in DOMAIN chains}

(***************************************************************************)
(* Asking.                                                                 *)
(***************************************************************************)
Call(why) == /\ calls < MaxCalls
             /\ calls' = calls + 1
             /\ causes' = causes \cup why

NodeHash(n, t, force) ==
  /\ node' = [node EXCEPT ![n] = Made(@, NodeText(n, t), force)]
  /\ Call({})
  /\ UNCHANGED <<element, boundary, mesh>>

PositionHash(n, force) ==
  /\ node' = [node EXCEPT ![n].position = IF force THEN <<node[n].place>> ELSE Position(node[n])]
  /\ Call({})
  /\ UNCHANGED <<element, boundary, mesh>>

(* The chains of which hash(t, force) makes the hash. *)
Making(chains, force) == {i \in DOMAIN chains : chains[i].hash = NoHash \/ force}
Visited(chains, force) == UNION {On(chains[i].nodes) : i \in Making(chains, force)}
AllMade(chains, t, force) ==
  [i \in DOMAIN chains |-> Made(chains[i], ChainText(chains[i].nodes, t, Cached), force)]

ElementHash(e, t, force) ==
  /\ e \in DOMAIN element
  /\ element' = [element EXCEPT ![e] = Made(@, ChainText(@.nodes, t, Cached), force)]
  /\ node' = Positioned(IF e \in Making(element, force) THEN On(element[e].nodes) ELSE {})
  /\ Call({})
  /\ UNCHANGED <<boundary, mesh>>

BoundaryHash(b, t, force) ==
  /\ b \in DOMAIN boundary
  /\ boundary' = [boundary EXCEPT ![b] = Made(@, ChainText(@.nodes, t, Cached), force)]
  /\ node' = Positioned(IF b \in Making(boundary, force) THEN On(boundary[b].nodes) ELSE {})
  /\ Call({})
  /\ UNCHANGED <<element, mesh>>

(* The digest of a mesh: its type and the hashes of its parts. *)
Digest(t, ns, es, bs) == <<[type |-> t, nodes |-> ns, elements |-> es, boundaries |-> bs]>>
Hashes(s) == [i \in DOMAIN s |-> s[i].hash]

MeshHash(force) ==
  LET t  == mesh.type
      ns == [n \in Nodes |-> Made(Positioned(Visited(element, force) \cup Visited(boundary, force))[n],
                                  NodeText(n, t), force)]
      es == AllMade(element, t, force)
      bs == AllMade(boundary, t, force)
  IN  /\ IF mesh.hash = NoHash \/ force
         THEN /\ node' = ns /\ element' = es /\ boundary' = bs
              /\ mesh' = [mesh EXCEPT !.hash = Digest(t, Hashes(ns), Hashes(es), Hashes(bs))]
         ELSE UNCHANGED <<node, element, boundary, mesh>>
      /\ Call({})

SetHashType(t) ==
  /\ mesh' = [mesh EXCEPT !.type = t]
  /\ Call({"retyped"})
  /\ UNCHANGED <<node, element, boundary>>

(***************************************************************************)
(* Editing nodes.  Only setNode() looks at a cached hash, and makes it     *)
(* anew, of the default type.  Only a copy drops both.                     *)
(***************************************************************************)
Moved(x, p, z) == [x EXCEPT !.place = p, !.depth = z]

Move(n, p, z) ==       \* setX(), setY(), setZ()
  /\ p = node[n].place \/ z = node[n].depth
  /\ node' = [node EXCEPT ![n] = Moved(@, p, z)]
  /\ Call({"moved"})
  /\ UNCHANGED <<element, boundary, mesh>>

SetNode(n, p, z) ==
  /\ node' = [node EXCEPT ![n] = LET x == Moved(@, p, z)
                                 IN  IF x.hash = NoHash THEN x
                                     ELSE [x EXCEPT !.hash = <<[type |-> Default, place |-> p, depth |-> z]>>]]
  /\ Call({"moved"})
  /\ UNCHANGED <<element, boundary, mesh>>

Reproject ==
  /\ node' = [n \in Nodes |-> [node[n] EXCEPT !.place = Project(@)]]
  /\ Call({"moved"})
  /\ UNCHANGED <<element, boundary, mesh>>

(* Mutant of Fresh: the copy of a node keeps the position hash it finds. *)
FreshKept(x, p, z) == [place |-> p, depth |-> z, hash |-> NoHash, position |-> x.position]

(* nodeCopier(), onto x. *)
Fresh(x, p, z) == [place |-> p, depth |-> z, hash |-> NoHash, position |-> NoHash]

AddNode(n, p, z) ==
  /\ node' = [node EXCEPT ![n] = Fresh(@, p, z)]
  /\ Call({"replaced"})
  /\ UNCHANGED <<element, boundary, mesh>>

(***************************************************************************)
(* Editing elements and boundaries.  The assignment of an element keeps    *)
(* the hash of what it is assigned to, its copy constructor starts without *)
(* one; a boundary makes a cached hash anew, of the default type.          *)
(***************************************************************************)
Blank(chain) == [nodes |-> chain, hash |-> NoHash]
Unhashed(chains) == [i \in DOMAIN chains |-> Blank(chains[i].nodes)]

SetVertex(e, chain) ==   \* setNode(), setElement(), addElement() in place
  /\ e \in DOMAIN element
  /\ element' = [element EXCEPT ![e].nodes = chain]
  /\ Call({"relinked"})
  /\ UNCHANGED <<node, boundary, mesh>>

AppendElement(chain, moves) ==
  /\ Len(element) < MaxElements
  /\ element' = Append(IF moves THEN Unhashed(element) ELSE element, Blank(chain))
  /\ Call({"relinked"})
  /\ UNCHANGED <<node, boundary, mesh>>

DeleteElement(e) ==
  /\ e \in DOMAIN element
  /\ element' = [i \in 1..Len(element) - 1 |->
                   IF i < e THEN element[i] ELSE [element[i] EXCEPT !.nodes = element[i + 1].nodes]]
  /\ Call({"relinked"})
  /\ UNCHANGED <<node, boundary, mesh>>

SetNode1(b, i, n) ==
  /\ b \in DOMAIN boundary
  /\ LET chain == [boundary[b].nodes EXCEPT ![i] = n]
     IN  IF boundary[b].hash = NoHash
         THEN boundary' = [boundary EXCEPT ![b].nodes = chain] /\ UNCHANGED node
         ELSE /\ boundary' = [boundary EXCEPT ![b] = [nodes |-> chain, hash |-> <<ChainText(chain, Default, Cached)>>]]
              /\ node' = Positioned(On(chain))
  /\ Call({"rebounded"})
  /\ UNCHANGED <<element, mesh>>

(***************************************************************************)
(* read() once more.  Nodes are assigned; setElement() and the assignment  *)
(* of the D-Flow reader keep the hash an element has.  The D-Flow reader   *)
(* leaves the boundaries alone; the other gives each its nodes, one after  *)
(* the other, and so makes a cached hash anew again and again, over old    *)
(* and new nodes alike.                                                    *)
(***************************************************************************)
Held(s, moves, i) == IF i \in DOMAIN s /\ ~moves THEN s[i].hash ELSE NoHash

Read(f, dflow, moves) ==
  LET elementMoves  == moves /\ Len(f.elements) > Len(element)
      boundaryMoves == moves /\ Len(f.boundaries) > Len(boundary)
      rehashed == {i \in DOMAIN f.boundaries : Held(boundary, boundaryMoves, i) # NoHash}
      met == IF dflow THEN {} ELSE UNION {On(f.boundaries[i]) \cup On(boundary[i].nodes) : i \in rehashed}
      nodes == [n \in Nodes |-> Fresh(node[n], f.place[n], f.depth[n])]
      at == [n \in Nodes |-> Position(nodes[n])]
  IN  /\ node' = [n \in Nodes |-> IF n \in met THEN [nodes[n] EXCEPT !.position = at[n]] ELSE nodes[n]]
      /\ element' = [i \in DOMAIN f.elements |->
                       [nodes |-> f.elements[i], hash |-> Held(element, elementMoves, i)]]
      /\ boundary' = IF dflow THEN boundary
                     ELSE [i \in DOMAIN f.boundaries |->
                             [nodes |-> f.boundaries[i],
                              hash |-> IF i \in rehashed THEN <<ChainText(f.boundaries[i], Default, at)>> ELSE NoHash]]
      /\ mesh' = [mesh EXCEPT !.hash = NoHash]
      /\ calls < MaxCalls /\ calls' = calls + 1
      /\ causes' = {c \in {"relinked", "replaced"} :
                      \/ c = "relinked" /\ \E i \in DOMAIN f.elements : Held(element, elementMoves, i) # NoHash
                      \/ c = "replaced" /\ dflow /\ \E i \in DOMAIN boundary : boundary[i].hash # NoHash}

Init ==
  /\ \E f \in Files :
       /\ node = [n \in Nodes |-> [place |-> f.place[n], depth |-> f.depth[n], hash |-> NoHash, position |-> NoHash]]
       /\ element = [i \in DOMAIN f.elements |-> Blank(f.elements[i])]
       /\ boundary = [i \in DOMAIN f.boundaries |-> Blank(f.boundaries[i])]
  /\ mesh = [hash |-> NoHash, type |-> Default]
  /\ causes = {}
  /\ calls = 0

Next ==
  \/ \E n \in Nodes :
       \/ \E t \in Types, force \in BOOLEAN : NodeHash(n, t, force)
       \/ \E force \in BOOLEAN : PositionHash(n, force)
       \/ \E p \in Places, z \in Depths : Move(n, p, z) \/ SetNode(n, p, z) \/ AddNode(n, p, z)
       \/ \E b \in DOMAIN boundary, i \in 1..BoundaryLength : SetNode1(b, i, n)
  \/ Reproject
  \/ \E e \in DOMAIN element :
       \/ \E t \in Types, force \in BOOLEAN : ElementHash(e, t, force)
       \/ \E chain \in Triangles : SetVertex(e, chain)
       \/ DeleteElement(e)
  \/ \E chain \in Triangles, moves \in BOOLEAN : AppendElement(chain, moves)
  \/ \E b \in DOMAIN boundary, t \in Types, force \in BOOLEAN : BoundaryHash(b, t, force)
  \/ \E force \in BOOLEAN : MeshHash(force)
  \/ \E t \in Types : SetHashType(t)
  \/ \E f \in Files, dflow, moves \in BOOLEAN : Read(f, dflow, moves)

Spec == Init /\ [][Next]_vars

(***************************************************************************)
(* Properties.                                                             *)
(***************************************************************************)
Depends == OnAll(element) \cup OnAll(boundary)

MeshTruth(t) ==
  Digest(t, [n \in Nodes |-> <<NodeText(n, t)>>],
         [i \in DOMAIN element |-> <<ChainText(element[i].nodes, t, Exact)>>],
         [i \in DOMAIN boundary |-> <<ChainText(boundary[i].nodes, t, Exact)>>])

(* hash(true) of a mesh digests the mesh as it is, all of one type, exactly *)
(* when no node an element or a boundary has holds the position hash of     *)
(* another place; of what else is cached none gets in.                      *)
ForcedExact ==
  [][MeshHash(TRUE) =>
       (mesh'.hash = MeshTruth(mesh.type) <=> \A n \in Depends : Position(node[n]) = Exact[n])]_vars

(* A cached hash says what is there, in whatever type it was asked for,     *)
(* unless a node moved (setX, setY, setZ, setNode, reproject) or was        *)
(* replaced, or an element was given other nodes, by an edit or by reading  *)
(* over it; that of a mesh, unless anything was edited at all.  Reading     *)
(* forgets all of it but the hashes of elements, and of boundaries where    *)
(* the reader leaves them.                                                  *)
Untyped(h) == [h[1] EXCEPT !.type = Default]

StaleExplained ==
  /\ "moved" \notin causes => \A n \in Nodes : /\ Position(node[n]) = Exact[n]
                                               /\ node[n].hash # NoHash => Untyped(node[n].hash) = NodeText(n, Default)
  /\ causes \cap {"moved", "replaced"} = {} =>
       \A i \in DOMAIN boundary : boundary[i].hash # NoHash =>
         Untyped(boundary[i].hash) = ChainText(boundary[i].nodes, Default, Exact)
  /\ causes \cap {"moved", "replaced", "relinked"} = {} =>
       \A i \in DOMAIN element : element[i].hash # NoHash =>
         Untyped(element[i].hash) = ChainText(element[i].nodes, Default, Exact)
  /\ causes = {} /\ mesh.hash # NoHash =>
       /\ mesh.hash[1].type = mesh.type
       /\ \A n \in Nodes : Untyped(mesh.hash[1].nodes[n]) = NodeText(n, Default)
       /\ \A i \in DOMAIN element : Untyped(mesh.hash[1].elements[i]) = ChainText(element[i].nodes, Default, Exact)
       /\ \A i \in DOMAIN boundary : Untyped(mesh.hash[1].boundaries[i]) = ChainText(boundary[i].nodes, Default, Exact)

(* The hash of an element, made by force, is of where its nodes are.        *)
HashFollowsNodes ==
  [][\A e \in DOMAIN element, t \in Types :
       ElementHash(e, t, TRUE) => element'[e].hash = <<ChainText(element[e].nodes, t, Exact)>>]_vars
=============================================================================
