------------------------------ MODULE MeshProofs ------------------------------
(***************************************************************************)
(* What a mesh, its files and its search trees keep to for every set of    *)
(* files, every bound and every order of calls.                            *)
(*                                                                         *)
(* Each way of reading a file and each edit is shown once to keep the      *)
(* shape of the vectors and lookups; what a call does to the vertices and  *)
(* to the numbers then follows from that shape.                            *)
(***************************************************************************)
EXTENDS MeshFiles, MeshSearch, FiniteSetTheorems, SequenceTheorems, WellFoundedInduction, TLAPS

-----------------------------------------------------------------------------
(* Sequences. *)

(* A function on 1..n is a sequence of that length. *)
LEMMA FunctionIsSeq ==
  ASSUME NEW S, NEW n \in Nat, NEW s \in [1..n -> S]
  PROVE  s \in Seq(S) /\ Len(s) = n /\ DOMAIN s = 1..n
<1>1. s \in Seq(S)
  BY SeqDef
<1>2. DOMAIN s = 1..n /\ DOMAIN s = 1..Len(s) /\ Len(s) \in Nat
  BY <1>1, LenProperties
<1> QED BY <1>1, <1>2

(* A vector resized holds what it held and default values after it. *)
LEMMA ResizedType ==
  ASSUME NEW S, NEW s \in Seq(S), NEW n \in Nat, NEW new \in S
  PROVE  /\ Resized(s, n, new) \in Seq(S)
         /\ Len(Resized(s, n, new)) = n
         /\ \A i \in 1..n : i <= Len(s) => Resized(s, n, new)[i] = s[i]
<1>1. Len(s) \in Nat /\ \A i \in 1..Len(s) : s[i] \in S
  BY LenProperties, ElementOfSeq
<1>2. \A i \in 1..n : (IF i <= Len(s) THEN s[i] ELSE new) \in S
  BY <1>1
<1>3. Resized(s, n, new) \in [1..n -> S]
  BY <1>2 DEF Resized
<1>4. \A i \in 1..n : i <= Len(s) => Resized(s, n, new)[i] = s[i]
  BY DEF Resized
<1> QED BY <1>3, <1>4, FunctionIsSeq

LEMMA ResizedElement ==
  ASSUME NEW S, NEW s \in Seq(S), NEW n \in Nat, NEW new \in S, NEW i \in 1..n
  PROVE  Resized(s, n, new)[i] \in S
<1>1. Resized(s, n, new) \in Seq(S) /\ Len(Resized(s, n, new)) = n
  BY ResizedType
<1> QED BY <1>1, ElementOfSeq

(* A vector without one of its elements. *)
LEMMA ErasedType ==
  ASSUME NEW S, NEW s \in Seq(S), NEW i \in 1..Len(s)
  PROVE  /\ Erased(s, i) \in Seq(S)
         /\ Len(Erased(s, i)) = Len(s) - 1
         /\ \A k \in 1..(Len(s) - 1) :
              Erased(s, i)[k] = IF k < i THEN s[k] ELSE s[k + 1]
<1>1. Len(s) \in Nat /\ \A k \in 1..Len(s) : s[k] \in S
  BY LenProperties, ElementOfSeq
<1>2. Len(s) - 1 \in Nat
  BY <1>1
<1>3. \A k \in 1..(Len(s) - 1) : (IF k < i THEN s[k] ELSE s[k + 1]) \in S
  BY <1>1
<1>4. Erased(s, i) \in [1..(Len(s) - 1) -> S]
  BY <1>3 DEF Erased
<1>5. \A k \in 1..(Len(s) - 1) : Erased(s, i)[k] = IF k < i THEN s[k] ELSE s[k + 1]
  BY DEF Erased
<1> QED BY <1>2, <1>4, <1>5, FunctionIsSeq

(* Elements whose vertices are lost are elements. *)
LEMMA RepointedType ==
  ASSUME NEW es \in Seq(Element), NEW moved \in BOOLEAN
  PROVE  /\ Repointed(es, moved) \in Seq(Element)
         /\ Len(Repointed(es, moved)) = Len(es)
         /\ ~moved => Repointed(es, moved) = es
<1>1. CASE ~moved
  BY <1>1 DEF Repointed
<1>2. CASE moved
  <2>1. Len(es) \in Nat /\ DOMAIN es = 1..Len(es) /\ \A i \in 1..Len(es) : es[i] \in Element
    BY LenProperties, ElementOfSeq
  <2>2. \A i \in 1..Len(es) : [es[i] EXCEPT !.verts = {Nowhere}] \in Element
    BY <2>1 DEF Element, Nowhere
  <2>3. Repointed(es, moved) \in [1..Len(es) -> Element]
    BY <1>2, <2>1, <2>2 DEF Repointed
  <2> QED BY <1>2, <2>1, <2>3, FunctionIsSeq
<1> QED BY <1>1, <1>2

(* A set of positions of a sequence has a largest element. *)
LEMMA LastPosition ==
  ASSUME NEW n \in Nat, NEW S \in SUBSET (1..n), S # {}
  PROVE  \E i \in S : \A j \in S : j <= i
<1> DEFINE R == OpToRel(<, Nat)
           T == {n - i : i \in S}
<1>1. T \subseteq Nat
  OBVIOUS
<1>2. T # {}
  <2>1. PICK i \in S : TRUE
    OBVIOUS
  <2>2. n - i \in T
    OBVIOUS
  <2> QED BY <2>2
<1>3. IsWellFoundedOn(R, Nat)
  BY NatLessThanWellFounded
<1> HIDE DEF R
<1>4. PICK x \in T : \A y \in T : <<y, x>> \notin R
  <2> HIDE DEF T
  <2> QED BY <1>1, <1>2, <1>3, WFMin
<1>5. PICK i \in S : x = n - i
  BY <1>4
<1>6. \A j \in S : j <= i
  <2> SUFFICES ASSUME NEW j \in S, i < j PROVE FALSE
    OBVIOUS
  <2>1. n - j \in T /\ n - j \in Nat /\ n - i \in Nat /\ n - j < n - i
    OBVIOUS
  <2>2. <<n - j, n - i>> \in R
    BY <2>1 DEF R, OpToRel
  <2> QED BY <1>4, <1>5, <2>1, <2>2
<1> QED BY <1>6

-----------------------------------------------------------------------------
(* Lookups. *)

LookupTyped(lookup) == \A n \in DOMAIN lookup : lookup[n] \in Nat

(* Where a lookup says a number is; an unknown one is at the first place. *)
Lookup(lookup, n) == IF n \in DOMAIN lookup THEN lookup[n] ELSE 1

LEMMA LastPlaceIs ==
  ASSUME NEW ids \in Seq(Nat), NEW n, Placed(ids, n) # {}
  PROVE  LastPlace(ids, n) \in 1..Len(ids) /\ ids[LastPlace(ids, n)] = n
<1>1. Len(ids) \in Nat /\ DOMAIN ids = 1..Len(ids)
  BY LenProperties
<1>2. Placed(ids, n) \in SUBSET (1..Len(ids))
  BY <1>1 DEF Placed
<1>3. \E i \in Placed(ids, n) : \A k \in Placed(ids, n) : k <= i
  BY <1>1, <1>2, LastPosition
<1>4. LastPlace(ids, n) \in Placed(ids, n)
  BY <1>3 DEF LastPlace
<1> QED BY <1>1, <1>4 DEF Placed

(* A lookup just filled leads from every number to a place that has it. *)
LEMMA IndexedAt ==
  ASSUME NEW lookup, NEW ids \in Seq(Nat)
  PROVE  /\ \A i \in 1..Len(ids) :
              /\ ids[i] \in DOMAIN Indexed(lookup, ids)
              /\ Indexed(lookup, ids)[ids[i]] \in 1..Len(ids)
              /\ ids[Indexed(lookup, ids)[ids[i]]] = ids[i]
         /\ LookupTyped(lookup) => LookupTyped(Indexed(lookup, ids))
<1>1. Len(ids) \in Nat /\ DOMAIN ids = 1..Len(ids)
  BY LenProperties
<1>2. \A n : Placed(ids, n) # {} => /\ LastPlace(ids, n) \in 1..Len(ids)
                                   /\ ids[LastPlace(ids, n)] = n
  BY LastPlaceIs
<1>3. \A i \in 1..Len(ids) : Placed(ids, ids[i]) # {}
  BY <1>1 DEF Placed
<1>4. DOMAIN Indexed(lookup, ids) = DOMAIN lookup \cup {ids[i] : i \in DOMAIN ids}
  BY DEF Indexed
<1>5. \A n \in DOMAIN Indexed(lookup, ids) :
        Indexed(lookup, ids)[n] = IF Placed(ids, n) # {} THEN LastPlace(ids, n) ELSE lookup[n]
  BY DEF Indexed
<1>6. \A i \in 1..Len(ids) : ids[i] \in DOMAIN Indexed(lookup, ids)
  BY <1>1, <1>4
<1>7. ASSUME LookupTyped(lookup), NEW n \in DOMAIN Indexed(lookup, ids)
      PROVE  Indexed(lookup, ids)[n] \in Nat
  <2>1. CASE Placed(ids, n) # {}
    BY <1>1, <1>2, <1>5, <2>1
  <2>2. CASE Placed(ids, n) = {}
    <3>1. n \in DOMAIN lookup
      BY <1>4, <2>2 DEF Placed
    <3> QED BY <1>5, <1>7, <2>2, <3>1 DEF LookupTyped
  <2> QED BY <2>1, <2>2
<1> QED BY <1>2, <1>3, <1>5, <1>6, <1>7 DEF LookupTyped

(* Entering unknown numbers changes no answer. *)
LEMMA TouchedAt ==
  ASSUME NEW lookup, NEW asked
  PROVE  /\ \A n \in DOMAIN lookup : /\ n \in DOMAIN Touched(lookup, asked)
                                    /\ Touched(lookup, asked)[n] = lookup[n]
         /\ \A n : Lookup(Touched(lookup, asked), n) = Lookup(lookup, n)
         /\ LookupTyped(lookup) => LookupTyped(Touched(lookup, asked))
         /\ \A n \in asked : Touched(lookup, asked)[n] = Lookup(lookup, n)
  BY DEF Touched, Lookup, LookupTyped

-----------------------------------------------------------------------------
(* Files. *)

LEMMA FileTyped ==
  ASSUME NEW f \in Legible
  PROVE  /\ f.nodes \in Seq(Nat) /\ f.elements \in Seq(Element)
         /\ Len(f.nodes) \in Nat /\ DOMAIN f.nodes = 1..Len(f.nodes)
         /\ Len(f.elements) \in Nat /\ DOMAIN f.elements = 1..Len(f.elements)
         /\ \A i \in 1..Len(f.nodes) : f.nodes[i] \in Nat
         /\ \A i \in 1..Len(f.elements) : f.elements[i].id \in Nat
                                          /\ f.elements[i].verts \in SUBSET Nat
<1>1. f.nodes \in Seq(Nat) /\ f.elements \in Seq(Element)
  BY DEF Legible, MeshFile
<1>2. \A i \in 1..Len(f.elements) : f.elements[i] \in Element
  BY <1>1, ElementOfSeq
<1> QED BY <1>1, <1>2, LenProperties, ElementOfSeq DEF Element

(* How much of a file converts. *)
LEMMA Counted ==
  ASSUME NEW f \in Legible
  PROVE  /\ f.good \in Nat
         /\ NodesGood(f) \in Int /\ NodesGood(f) <= Len(f.nodes)
         /\ ElementsGood(f) \in Int /\ ElementsGood(f) <= Len(f.elements)
         /\ AllNodesGood(f) => f.good >= 2 /\ NodesGood(f) = Len(f.nodes)
         /\ AllGood(f) => AllNodesGood(f) /\ ElementsGood(f) = Len(f.elements)
         /\ ElementsGood(f) >= 1 => AllNodesGood(f)
<1>1. f.good \in Nat
  BY DEF Legible, MeshFile
<1>2. PICK g, a, b : g = f.good /\ a = Len(f.nodes) /\ b = Len(f.elements)
  OBVIOUS
<1>3. g \in Nat /\ a \in Nat /\ b \in Nat
  BY <1>1, <1>2, FileTyped
<1>4. \A x, y \in Int : /\ Least(x, y) \in Int /\ Least(x, y) <= x /\ Least(x, y) <= y
                        /\ y >= x => Least(x, y) = x
  BY DEF Least
<1>5. /\ NodesGood(f) \in Int /\ NodesGood(f) <= a /\ NodesGood(f) <= g - 2
      /\ g - 2 >= a => NodesGood(f) = a
  <2>1. a \in Int /\ g - 2 \in Int
    BY <1>3
  <2> QED BY <1>2, <1>4, <2>1 DEF NodesGood
<1>6. /\ ElementsGood(f) \in Int /\ ElementsGood(f) <= b /\ ElementsGood(f) <= g - 2 - a
      /\ g - 2 - a >= b => ElementsGood(f) = b
  <2>1. b \in Int /\ g - 2 - a \in Int
    BY <1>3
  <2> QED BY <1>2, <1>4, <2>1 DEF ElementsGood
<1>7. AllNodesGood(f) => g >= 2 /\ NodesGood(f) = a
  <2> SUFFICES ASSUME AllNodesGood(f) PROVE g >= 2 /\ NodesGood(f) = a
    OBVIOUS
  <2>1. g >= 2 + a
    BY <1>2 DEF AllNodesGood
  <2>2. g >= 2 /\ g - 2 >= a
    BY <1>3, <2>1
  <2> QED BY <1>5, <2>2
<1>8. AllGood(f) => AllNodesGood(f) /\ ElementsGood(f) = b
  <2> SUFFICES ASSUME AllGood(f) PROVE AllNodesGood(f) /\ ElementsGood(f) = b
    OBVIOUS
  <2>1. g >= 2 + a + b
    BY <1>2 DEF AllGood
  <2>2. g >= 2 + a /\ g - 2 - a >= b
    BY <1>3, <2>1
  <2> QED BY <1>2, <1>6, <2>2 DEF AllNodesGood
<1>9. ElementsGood(f) >= 1 => AllNodesGood(f)
  BY <1>2, <1>3, <1>6 DEF AllNodesGood
<1> QED BY <1>1, <1>2, <1>5, <1>6, <1>7, <1>8, <1>9

-----------------------------------------------------------------------------
(* Reading. *)

(* The shape of the vectors and of the lookup of nodes. *)
Shape ==
  /\ nodes \in Seq(Nat)
  /\ elements \in Seq(Element)
  /\ LookupTyped(nodeLookup)

(* The elements of a file, but for its odd lines, stand after the first k,  *)
(* their vertices where the numbers of the file are.                        *)
Carried(f, k) ==
  \A i \in 1..Len(f.elements) \ f.odd :
    /\ k + i \in 1..Len(elements')
    /\ elements'[k + i].id = f.elements[i].id
    /\ i \in ClosedElements(f) =>
         /\ elements'[k + i].verts \subseteq 1..Len(nodes')
         /\ nodes' = f.nodes => {nodes'[v] : v \in elements'[k + i].verts} = f.elements[i].verts

(* Numbers of the file lead to places that have them. *)
NumbersLead(f) ==
  /\ \A i \in 1..Len(f.nodes) :
       /\ NodePlace(f.nodes[i])' \in 1..Len(f.nodes)
       /\ f.nodes[NodePlace(f.nodes[i])'] = f.nodes[i]
  /\ InOrder(f.elements) \/ (f.format = "Adcirc" /\ ~nodeOrderingLogical') =>
       \A i \in 1..Len(f.elements) :
         /\ ElementPlace(f.elements[i].id)' \in 1..Len(f.elements)
         /\ f.elements[ElementPlace(f.elements[i].id)'].id = f.elements[i].id

(* What every reader that returns has done. *)
ReadAs(f, k, equal) ==
  /\ k \in Nat
  /\ Shape'
  /\ AllGood(f) => Carried(f, k)
  /\ AllGood(f) /\ equal =>
       /\ nodes' = f.nodes /\ k = 0 /\ Len(elements') = Len(f.elements)
       /\ NumbersLead(f)

(* read() of an ASCII file. *)
LEMMA AdcircRead ==
  ASSUME Shape, NEW f \in Legible, ReadAdcirc(f)
  PROVE  ReadAs(f, 0, f.odd = {})
<1> DEFINE
      n == IF f.good >= 2 THEN Len(f.nodes) ELSE Len(nodes)
      m == IF f.good >= 1 THEN Len(f.elements) ELSE Len(elements)
      inOrder  == \A i \in 1..NodesGood(f) : f.nodes[i] = i
      numbered == inOrder \/ \A i \in 1..ElementsGood(f) : f.elements[i].id = i
      spelled  == 1..ElementsGood(f) \ f.odd
      asked    == UNION {f.elements[i].verts : i \in spelled}
      lookup   == IF AllNodesGood(f) /\ ~inOrder
                    THEN Touched(Indexed(nodeLookup, f.nodes), asked) ELSE nodeLookup
      Vertex(v) == IF inOrder THEN v ELSE lookup[v]
      Parsed(e) == [id |-> e.id, verts |-> {Vertex(v) : v \in e.verts}]
      ids == [i \in 1..m |-> elements'[i].id]
<1>1. PICK mn \in BOOLEAN : 
        /\ nodes' = [i \in 1..n |-> IF i <= NodesGood(f) THEN f.nodes[i]
                                       ELSE Resized(nodes, n, DefaultNode)[i]]
        /\ elements' = [i \in 1..m |-> IF i \in spelled
                          THEN Parsed(f.elements[i])
                          ELSE Resized(Repointed(elements, mn), m, DefaultElement)[i]]
  BY DEF ReadAdcirc, Moves
<1>2. /\ nodeOrderingLogical' = inOrder
      /\ elementOrderingLogical' = numbered
      /\ nodeLookup' = lookup
      /\ elementLookup' = IF AllGood(f) /\ ~numbered THEN Indexed(elementLookup, ids)
                          ELSE elementLookup
      /\ f.format = "Adcirc"
  BY DEF ReadAdcirc
<1>3. Len(nodes) \in Nat /\ Len(elements) \in Nat /\ n \in Nat /\ m \in Nat
  BY FileTyped, LenProperties DEF Shape
<1>4. LookupTyped(lookup) /\ (AllNodesGood(f) /\ ~inOrder => asked \subseteq DOMAIN lookup)
  <2>1. LookupTyped(Indexed(nodeLookup, f.nodes))
    BY FileTyped, IndexedAt DEF Shape
  <2>2. LookupTyped(Touched(Indexed(nodeLookup, f.nodes), asked))
    BY <2>1, TouchedAt
  <2>3. asked \subseteq DOMAIN Touched(Indexed(nodeLookup, f.nodes), asked)
    BY DEF Touched
  <2>4. LookupTyped(nodeLookup)
    BY DEF Shape
  <2> HIDE DEF inOrder, asked
  <2>5. CASE AllNodesGood(f) /\ ~inOrder
    <3>1. lookup = Touched(Indexed(nodeLookup, f.nodes), asked)
      BY <2>5
    <3> HIDE DEF lookup
    <3> QED BY <2>2, <2>3, <3>1
  <2>6. CASE ~(AllNodesGood(f) /\ ~inOrder)
    <3>1. lookup = nodeLookup
      BY <2>6
    <3> HIDE DEF lookup
    <3> QED BY <2>4, <2>6, <3>1
  <2> HIDE DEF lookup
  <2> QED BY <2>5, <2>6
<1>5. nodes' \in Seq(Nat) /\ Len(nodes') = n
  <2>1. \A i \in 1..n : Resized(nodes, n, DefaultNode)[i] \in Nat
    <3>1. Resized(nodes, n, 0) \in Seq(Nat) /\ Len(Resized(nodes, n, 0)) = n
      <4> HIDE DEF n
      <4> QED BY <1>3, ResizedType DEF Shape
    <3> HIDE DEF n
    <3> QED BY <3>1, ElementOfSeq DEF DefaultNode
  <2>2. \A i \in 1..n : i <= NodesGood(f) => f.nodes[i] \in Nat
    BY <1>3, FileTyped, Counted
  <2>3. nodes' \in [1..n -> Nat]
    BY <1>1, <2>1, <2>2
  <2> HIDE DEF n
  <2> QED BY <1>3, <2>3, FunctionIsSeq
<1>6. \A i \in spelled :
        /\ i \in 1..Len(f.elements)
        /\ \A v \in f.elements[i].verts : v \in Nat /\ Vertex(v) \in Nat
  <2> SUFFICES ASSUME NEW i \in spelled
               PROVE  /\ i \in 1..Len(f.elements)
                      /\ \A v \in f.elements[i].verts : v \in Nat /\ Vertex(v) \in Nat
    OBVIOUS
  <2>1. i \in 1..Len(f.elements) /\ ElementsGood(f) >= 1
    BY FileTyped, Counted
  <2>2. \A v \in f.elements[i].verts : v \in Nat /\ v \in asked
    BY <2>1, FileTyped
  <2>3. AllNodesGood(f)
    BY <2>1, Counted
  <2> HIDE DEF lookup, asked, inOrder
  <2> QED BY <1>4, <2>1, <2>2, <2>3 DEF LookupTyped
<1>7. elements' \in Seq(Element) /\ Len(elements') = m
  <2>1. DefaultElement \in Element /\ Repointed(elements, mn) \in Seq(Element)
    BY RepointedType DEF Shape, DefaultElement, Element, Nowhere
  <2>2. \A i \in 1..m : Resized(Repointed(elements, mn), m, DefaultElement)[i] \in Element
    <3> HIDE DEF m
    <3> QED BY <1>3, <2>1, ResizedElement
  <2>3. \A i \in spelled : Parsed(f.elements[i]) \in Element
    <3> HIDE DEF Vertex, spelled
    <3> QED BY <1>6, FileTyped DEF Element
  <2>4. elements' \in [1..m -> Element]
    <3> HIDE DEF m, Parsed, spelled
    <3> QED BY <1>1, <1>3, <2>2, <2>3
  <2> HIDE DEF m
  <2> QED BY <1>3, <2>4, FunctionIsSeq
<1>8. Shape'
  BY <1>2, <1>4, <1>5, <1>7 DEF Shape
<1>9. ASSUME AllGood(f)
      PROVE  /\ Carried(f, 0) /\ nodes' = f.nodes /\ Len(elements') = Len(f.elements)
             /\ f.odd = {} => NumbersLead(f)
  <2>1. /\ n = Len(f.nodes) /\ m = Len(f.elements) /\ AllNodesGood(f)
        /\ NodesGood(f) = Len(f.nodes) /\ ElementsGood(f) = Len(f.elements)
    BY <1>9, Counted
  <2>2. nodes' = f.nodes
    <3>1. \A i \in 1..Len(f.nodes) : nodes'[i] = f.nodes[i]
      BY <1>1, <2>1, FileTyped
    <3> QED BY <1>5, <2>1, <3>1, FileTyped, SeqEqual
  <2>3. \A k \in 1..Len(f.nodes) : /\ Vertex(f.nodes[k]) \in 1..Len(f.nodes)
                                   /\ f.nodes[Vertex(f.nodes[k])] = f.nodes[k]
                                   /\ ~inOrder => f.nodes[k] \in DOMAIN lookup
    <3>1. CASE inOrder
      BY <2>1, <3>1
    <3>2. CASE ~inOrder
      <4>1. lookup = Touched(Indexed(nodeLookup, f.nodes), asked)
        BY <2>1, <3>2
      <4>2. \A k \in 1..Len(f.nodes) :
              /\ f.nodes[k] \in DOMAIN Indexed(nodeLookup, f.nodes)
              /\ Indexed(nodeLookup, f.nodes)[f.nodes[k]] \in 1..Len(f.nodes)
              /\ f.nodes[Indexed(nodeLookup, f.nodes)[f.nodes[k]]] = f.nodes[k]
        BY FileTyped, IndexedAt
      <4>3. \A k \in 1..Len(f.nodes) :
              /\ f.nodes[k] \in DOMAIN lookup
              /\ lookup[f.nodes[k]] = Indexed(nodeLookup, f.nodes)[f.nodes[k]]
        <5> HIDE DEF lookup, asked
        <5> QED BY <4>1, <4>2, TouchedAt
      <4> HIDE DEF lookup
      <4> QED BY <3>2, <4>2, <4>3
    <3> QED BY <3>1, <3>2
  <2>4. \A i \in 1..Len(f.elements) \ f.odd : elements'[i] = Parsed(f.elements[i])
    <3> HIDE DEF Parsed
    <3> QED BY <1>1, <2>1, FileTyped
  <2>5. Carried(f, 0)
    <3> SUFFICES ASSUME NEW i \in 1..Len(f.elements) \ f.odd
                 PROVE  /\ i \in 1..Len(elements')
                        /\ elements'[i].id = f.elements[i].id
                        /\ i \in ClosedElements(f) =>
                             /\ elements'[i].verts \subseteq 1..Len(nodes')
                             /\ {nodes'[v] : v \in elements'[i].verts} = f.elements[i].verts
      BY DEF Carried
    <3>1. i \in 1..Len(elements') /\ elements'[i].id = f.elements[i].id
          /\ elements'[i].verts = {Vertex(v) : v \in f.elements[i].verts}
      <4>1. i \in 1..Len(elements')
        <5> HIDE DEF m
        <5> QED BY <1>7, <2>1
      <4>2. elements'[i] = Parsed(f.elements[i])
        <5> HIDE DEF Parsed
        <5> QED BY <2>4
      <4> HIDE DEF Vertex
      <4> QED BY <4>1, <4>2
    <3>2. ASSUME i \in ClosedElements(f)
          PROVE  \A v \in f.elements[i].verts :
                   Vertex(v) \in 1..Len(f.nodes) /\ f.nodes[Vertex(v)] = v
      <4> HIDE DEF Vertex
      <4> QED BY <2>3, <3>2, FileTyped DEF ClosedElements
    <3> HIDE DEF Vertex
    <3> QED BY <2>2, <3>1, <3>2
  <2>6. \A i \in 1..Len(f.nodes) :
          /\ NodePlace(f.nodes[i])' \in 1..Len(f.nodes)
          /\ f.nodes[NodePlace(f.nodes[i])'] = f.nodes[i]
    <3>1. \A i \in 1..Len(f.nodes) : NodePlace(f.nodes[i])' = Vertex(f.nodes[i])
      <4> HIDE DEF lookup, inOrder
      <4> QED BY <1>2, <2>3 DEF NodePlace
    <3> HIDE DEF Vertex
    <3> QED BY <2>3, <3>1
  <2>7. ASSUME f.odd = {}, InOrder(f.elements) \/ ~nodeOrderingLogical', NEW i \in 1..Len(f.elements)
        PROVE  /\ ElementPlace(f.elements[i].id)' \in 1..Len(f.elements)
               /\ f.elements[ElementPlace(f.elements[i].id)'].id = f.elements[i].id
    <3>1. CASE numbered
      <4>1. f.elements[i].id = i
        <5> HIDE DEF inOrder
        <5> QED BY <1>2, <2>1, <2>7, <3>1, FileTyped DEF InOrder
      <4>2. ElementPlace(f.elements[i].id)' = i
        <5> HIDE DEF numbered
        <5> QED BY <1>2, <3>1, <4>1 DEF ElementPlace
      <4> QED BY <4>1, <4>2
    <3>2. CASE ~numbered
      <4>1. elementLookup' = Indexed(elementLookup, ids) /\ ~elementOrderingLogical'
        <5> HIDE DEF numbered, ids
        <5> QED BY <1>2, <1>9, <3>2
      <4>2. ids \in Seq(Nat) /\ Len(ids) = Len(f.elements)
        <5>1. \A k \in 1..m : elements'[k].id \in Nat
          <6> HIDE DEF m
          <6> SUFFICES ASSUME NEW k \in 1..m PROVE elements'[k].id \in Nat
            OBVIOUS
          <6>1. elements'[k] \in Element
            BY <1>7, ElementOfSeq
          <6> QED BY <6>1 DEF Element
        <5>2. ids \in [1..m -> Nat]
          <6> HIDE DEF m
          <6> QED BY <5>1
        <5> HIDE DEF ids, m
        <5> QED BY <1>3, <2>1, <5>2, FunctionIsSeq
      <4>3. \A k \in 1..Len(f.elements) : ids[k] = f.elements[k].id
        <5>1. \A k \in 1..Len(f.elements) : elements'[k].id = f.elements[k].id
          <6> HIDE DEF Vertex
          <6> SUFFICES ASSUME NEW k \in 1..Len(f.elements)
                       PROVE  elements'[k].id = f.elements[k].id
            OBVIOUS
          <6>1. elements'[k] = Parsed(f.elements[k])
            <7> HIDE DEF Parsed
            <7> QED BY <2>1, <2>4, <2>7
          <6> QED BY <6>1
        <5> HIDE DEF m
        <5> QED BY <2>1, <5>1
      <4> HIDE DEF ids
      <4>4. /\ ids[i] \in DOMAIN elementLookup'
            /\ elementLookup'[ids[i]] \in 1..Len(f.elements)
            /\ ids[elementLookup'[ids[i]]] = ids[i]
        BY <4>1, <4>2, IndexedAt
      <4>5. ElementPlace(f.elements[i].id)' = elementLookup'[ids[i]]
        BY <4>1, <4>3, <4>4 DEF ElementPlace
      <4> QED BY <4>3, <4>4, <4>5
    <3> QED BY <3>1, <3>2
  <2> QED BY <1>2, <2>1, <2>2, <2>5, <2>6, <2>7, <1>7 DEF NumbersLead
<1> QED BY <1>8, <1>9 DEF ReadAs

(* What was converted of the elements, whatever it was made into. *)
LEMMA ConvertedIsSeq ==
  ASSUME NEW f \in Legible, NEW new \in [1..ElementsGood(f) -> Element]
  PROVE  /\ new \in Seq(Element)
         /\ AllGood(f) => Len(new) = Len(f.elements)
<1>1. ElementsGood(f) \in Int
  BY Counted
<1>2. CASE ElementsGood(f) >= 0
  <2>1. ElementsGood(f) \in Nat
    BY <1>1, <1>2
  <2> QED BY <2>1, FunctionIsSeq, Counted
<1>3. CASE ~(ElementsGood(f) >= 0)
  <2>1. 1..ElementsGood(f) = 1..0
    BY <1>1, <1>3
  <2>2. new \in [1..0 -> Element] /\ 0 \in Nat
    BY <2>1
  <2>3. ~AllGood(f)
    BY <1>3, FileTyped, Counted
  <2> QED BY <2>2, <2>3, FunctionIsSeq
<1> QED BY <1>2, <1>3

(* Vectors that grow at their end. *)
LEMMA Appended ==
  ASSUME NEW S, NEW s \in Seq(S), NEW new \in Seq(S)
  PROVE  /\ s \o new \in Seq(S) /\ Len(s \o new) = Len(s) + Len(new)
         /\ Len(s) \in Nat /\ Len(new) \in Nat
         /\ \A i \in 1..Len(new) : /\ Len(s) + i \in 1..Len(s \o new)
                                   /\ (s \o new)[Len(s) + i] = new[i]
         /\ s = <<>> => s \o new = new
<1>1. Len(s) \in Nat /\ Len(new) \in Nat
  BY LenProperties
<1>2. /\ s \o new \in Seq(S) /\ Len(s \o new) = Len(s) + Len(new)
      /\ \A i \in 1..(Len(s) + Len(new)) :
           (s \o new)[i] = IF i <= Len(s) THEN s[i] ELSE new[i - Len(s)]
  BY ConcatProperties
<1>3. ASSUME NEW i \in 1..Len(new)
      PROVE  Len(s) + i \in 1..(Len(s) + Len(new)) /\ (s \o new)[Len(s) + i] = new[i]
  <2>1. /\ Len(s) + i \in 1..(Len(s) + Len(new)) /\ ~(Len(s) + i <= Len(s))
        /\ (Len(s) + i) - Len(s) = i
    BY <1>1
  <2> QED BY <1>2, <2>1
<1>4. s = <<>> => s \o new = new
  BY ConcatEmptySeq
<1> QED BY <1>1, <1>2, <1>3, <1>4

(* read() of a 2DM file. *)
LEMMA TwoDmRead ==
  ASSUME Shape, NEW f \in Legible, Read2dm(f)
  PROVE  ReadAs(f, Len(elements), nodes = <<>> /\ elements = <<>>)
<1> DEFINE
      all == IF f.good >= 2 THEN nodes \o f.nodes ELSE nodes
      inOrder == f.good >= 2 => \A k \in DOMAIN f.nodes : f.nodes[k] = Len(nodes) + k
      asked   == UNION {f.elements[i].verts : i \in 1..ElementsGood(f)}
      lookup  == IF inOrder THEN nodeLookup ELSE Touched(Indexed(nodeLookup, all), asked)
      Vertex(v) == IF inOrder THEN v ELSE lookup[v]
      Made(e) == [id |-> e.id, verts |-> {Vertex(v) : v \in e.verts}]
      new == [i \in 1..ElementsGood(f) |-> Made(f.elements[i])]
<1>1. PICK mn \in BOOLEAN : elements' = Repointed(elements, mn) \o new
  BY DEF Read2dm, Moves
<1>2. /\ nodes' = all
      /\ nodeOrderingLogical' = inOrder
      /\ elementOrderingLogical' = TRUE
      /\ nodeLookup' = lookup
      /\ f.format = "2DM"
  BY DEF Read2dm
<1>3. all \in Seq(Nat)
  BY FileTyped, Appended DEF Shape
<1>4. LookupTyped(lookup) /\ (~inOrder => asked \subseteq DOMAIN lookup)
  <2>1. LookupTyped(nodeLookup)
    BY DEF Shape
  <2> HIDE DEF all, inOrder, asked
  <2>2. LookupTyped(Touched(Indexed(nodeLookup, all), asked))
    BY <1>3, <2>1, IndexedAt, TouchedAt
  <2>3. asked \subseteq DOMAIN Touched(Indexed(nodeLookup, all), asked)
    BY DEF Touched
  <2> QED BY <2>1, <2>2, <2>3
<1>5. \A i \in 1..ElementsGood(f) :
        /\ i \in 1..Len(f.elements)
        /\ \A v \in f.elements[i].verts : v \in Nat /\ Vertex(v) \in Nat
  <2> SUFFICES ASSUME NEW i \in 1..ElementsGood(f)
               PROVE  /\ i \in 1..Len(f.elements)
                      /\ \A v \in f.elements[i].verts : v \in Nat /\ Vertex(v) \in Nat
    OBVIOUS
  <2>1. i \in 1..Len(f.elements)
    BY FileTyped, Counted
  <2>2. \A v \in f.elements[i].verts : v \in Nat /\ v \in asked
    BY <2>1, FileTyped
  <2> HIDE DEF lookup, asked, inOrder
  <2> QED BY <1>4, <2>1, <2>2 DEF LookupTyped
<1>6. new \in [1..ElementsGood(f) -> Element]
  <2>1. \A i \in 1..ElementsGood(f) : Made(f.elements[i]) \in Element
    <3> HIDE DEF Vertex
    <3> QED BY <1>5, FileTyped DEF Element
  <2> HIDE DEF Made
  <2> QED BY <2>1
<1>7. new \in Seq(Element) /\ (AllGood(f) => Len(new) = Len(f.elements))
  <2> HIDE DEF new
  <2> QED BY <1>6, ConvertedIsSeq
<1>8. /\ Repointed(elements, mn) \in Seq(Element)
      /\ Len(Repointed(elements, mn)) = Len(elements)
  BY RepointedType DEF Shape
<1>9. elements' \in Seq(Element)
  <2> HIDE DEF new
  <2> QED BY <1>1, <1>7, <1>8, Appended
<1>10. Shape' /\ Len(elements) \in Nat
  <2> HIDE DEF all, lookup
  <2> QED BY <1>2, <1>3, <1>4, <1>8, <1>9, LenProperties DEF Shape
<1>11. ASSUME AllGood(f) PROVE Carried(f, Len(elements))
  <2>1. all = nodes \o f.nodes /\ f.good >= 2 /\ ElementsGood(f) = Len(f.elements)
    BY <1>11, Counted
  <2>2. \A k \in 1..Len(f.nodes) : /\ Vertex(f.nodes[k]) \in 1..Len(all)
                                   /\ all[Vertex(f.nodes[k])] = f.nodes[k]
    <3>1. \A k \in 1..Len(f.nodes) : /\ Len(nodes) + k \in 1..Len(all)
                                     /\ all[Len(nodes) + k] = f.nodes[k]
      <4> HIDE DEF all
      <4>1. nodes \in Seq(Nat) /\ f.nodes \in Seq(Nat)
        BY FileTyped DEF Shape
      <4> QED BY <2>1, <4>1, Appended
    <3>2. CASE inOrder
      <4> HIDE DEF all
      <4> QED BY <2>1, <3>1, <3>2, FileTyped
    <3>3. CASE ~inOrder
      <4>1. lookup = Touched(Indexed(nodeLookup, all), asked)
        BY <3>3
      <4> HIDE DEF lookup, asked, inOrder, all
      <4>2. \A i \in 1..Len(all) :
              /\ all[i] \in DOMAIN Indexed(nodeLookup, all)
              /\ Indexed(nodeLookup, all)[all[i]] \in 1..Len(all)
              /\ all[Indexed(nodeLookup, all)[all[i]]] = all[i]
        BY <1>3, IndexedAt
      <4>3. \A i \in 1..Len(all) : lookup[all[i]] = Indexed(nodeLookup, all)[all[i]]
        BY <4>1, <4>2, TouchedAt
      <4>4. \A k \in 1..Len(f.nodes) : /\ lookup[f.nodes[k]] \in 1..Len(all)
                                       /\ all[lookup[f.nodes[k]]] = f.nodes[k]
        <5> SUFFICES ASSUME NEW k \in 1..Len(f.nodes)
                     PROVE  lookup[f.nodes[k]] \in 1..Len(all) /\ all[lookup[f.nodes[k]]] = f.nodes[k]
          OBVIOUS
        <5>1. PICK i \in 1..Len(all) : all[i] = f.nodes[k]
          BY <3>1
        <5> QED BY <4>2, <4>3, <5>1
      <4> QED BY <3>3, <4>4
    <3> QED BY <3>2, <3>3
  <2>3. ASSUME NEW i \in 1..Len(f.elements)
        PROVE  /\ Len(elements) + i \in 1..Len(elements')
               /\ elements'[Len(elements) + i] = Made(f.elements[i])
    <3>1. new[i] = Made(f.elements[i])
      <4> HIDE DEF Made
      <4> QED BY <2>1
    <3> HIDE DEF new, Made
    <3>2. Len(new) = Len(f.elements)
      BY <1>7, <1>11
    <3> QED BY <1>1, <1>7, <1>8, <3>1, <3>2, Appended
  <2> SUFFICES ASSUME NEW i \in 1..Len(f.elements)
               PROVE  /\ Len(elements) + i \in 1..Len(elements')
                      /\ elements'[Len(elements) + i].id = f.elements[i].id
                      /\ i \in ClosedElements(f) =>
                           /\ elements'[Len(elements) + i].verts \subseteq 1..Len(nodes')
                           /\ {nodes'[v] : v \in elements'[Len(elements) + i].verts}
                                = f.elements[i].verts
    BY DEF Carried
  <2>4. elements'[Len(elements) + i].id = f.elements[i].id
        /\ elements'[Len(elements) + i].verts = {Vertex(v) : v \in f.elements[i].verts}
    <3>1. elements'[Len(elements) + i] = Made(f.elements[i])
      <4> HIDE DEF Made
      <4> QED BY <2>3
    <3> HIDE DEF Vertex
    <3> QED BY <3>1
  <2>5. ASSUME i \in ClosedElements(f)
        PROVE  \A v \in f.elements[i].verts : Vertex(v) \in 1..Len(all) /\ all[Vertex(v)] = v
    <3> HIDE DEF Vertex, all
    <3> QED BY <2>2, <2>5, FileTyped DEF ClosedElements
  <2>6. ASSUME i \in ClosedElements(f)
        PROVE  /\ {Vertex(v) : v \in f.elements[i].verts} \subseteq 1..Len(all)
               /\ {all[w] : w \in {Vertex(v) : v \in f.elements[i].verts}} = f.elements[i].verts
    <3> HIDE DEF Vertex, all
    <3> QED BY <2>5, <2>6
  <2> HIDE DEF Vertex, all, Made
  <2> QED BY <1>2, <2>3, <2>4, <2>6
<1>12. ASSUME AllGood(f), nodes = <<>>, elements = <<>>
       PROVE  /\ nodes' = f.nodes /\ Len(elements) = 0 /\ Len(elements') = Len(f.elements)
              /\ NumbersLead(f)
  <2>1. all = f.nodes /\ f.good >= 2 /\ Len(nodes) = 0 /\ Len(elements) = 0
    BY <1>12, Counted, FileTyped, Appended, EmptySeq
  <2>2. Len(elements') = Len(f.elements)
    <3> HIDE DEF new
    <3> QED BY <1>1, <1>7, <1>8, <1>12, <2>1, Appended, FileTyped
  <2>3. \A i \in 1..Len(f.nodes) : /\ NodePlace(f.nodes[i])' \in 1..Len(f.nodes)
                                   /\ f.nodes[NodePlace(f.nodes[i])'] = f.nodes[i]
    <3>1. CASE inOrder
      <4>1. \A i \in 1..Len(f.nodes) : f.nodes[i] = i
        BY <2>1, <3>1, FileTyped
      <4> HIDE DEF inOrder
      <4> QED BY <1>2, <3>1, <4>1 DEF NodePlace
    <3>2. CASE ~inOrder
      <4>1. lookup = Touched(Indexed(nodeLookup, f.nodes), asked)
        <5> HIDE DEF all, inOrder, asked
        <5> QED BY <2>1, <3>2
      <4> HIDE DEF lookup, asked, inOrder
      <4>2. \A i \in 1..Len(f.nodes) :
              /\ f.nodes[i] \in DOMAIN Indexed(nodeLookup, f.nodes)
              /\ Indexed(nodeLookup, f.nodes)[f.nodes[i]] \in 1..Len(f.nodes)
              /\ f.nodes[Indexed(nodeLookup, f.nodes)[f.nodes[i]]] = f.nodes[i]
        BY FileTyped, IndexedAt
      <4>3. \A i \in 1..Len(f.nodes) :
              /\ f.nodes[i] \in DOMAIN lookup
              /\ lookup[f.nodes[i]] = Indexed(nodeLookup, f.nodes)[f.nodes[i]]
        BY <4>1, <4>2, TouchedAt
      <4> QED BY <1>2, <3>2, <4>2, <4>3 DEF NodePlace
    <3> QED BY <3>1, <3>2
  <2>4. InOrder(f.elements) =>
          \A i \in 1..Len(f.elements) :
            /\ ElementPlace(f.elements[i].id)' \in 1..Len(f.elements)
            /\ f.elements[ElementPlace(f.elements[i].id)'].id = f.elements[i].id
    BY <1>2, FileTyped DEF InOrder, ElementPlace
  <2> QED BY <1>2, <2>1, <2>2, <2>3, <2>4 DEF NumbersLead
<1> QED BY <1>10, <1>11, <1>12 DEF ReadAs

(* Where nodes are numbered by position, so are the vertices. *)
LEMMA VerticesByPosition ==
  ASSUME NEW f \in Legible, f.format \in {"AdcircNetcdf", "DFlow"}, NEW i \in ClosedElements(f)
  PROVE  /\ f.elements[i].verts \subseteq 1..Len(f.nodes)
         /\ {f.nodes[v] : v \in f.elements[i].verts} = f.elements[i].verts
<1>1. \A k \in 1..Len(f.nodes) : f.nodes[k] = k
  BY FileTyped DEF Legible
<1>2. \A v \in f.elements[i].verts : \E k \in 1..Len(f.nodes) : v = f.nodes[k]
  BY FileTyped DEF ClosedElements
<1> QED BY <1>1, <1>2

(* In such a file the numbers lead to themselves. *)
LEMMA NumbersByPosition ==
  ASSUME NEW f \in Legible, f.format \in {"AdcircNetcdf", "DFlow"},
         nodeOrderingLogical' = TRUE, elementOrderingLogical' = TRUE
  PROVE  NumbersLead(f)
<1>1. \A k \in 1..Len(f.nodes) : f.nodes[k] = k
  BY FileTyped DEF Legible
<1>2. \A i \in 1..Len(f.nodes) : NodePlace(f.nodes[i])' = i
  BY <1>1 DEF NodePlace
<1>3. InOrder(f.elements) =>
        \A i \in 1..Len(f.elements) : f.elements[i].id = i /\ ElementPlace(f.elements[i].id)' = i
  BY FileTyped DEF InOrder, ElementPlace
<1> QED BY <1>1, <1>2, <1>3 DEF NumbersLead

(* read() of an ADCIRC netCDF file. *)
LEMMA AdcircNetcdfRead ==
  ASSUME Shape, NEW f \in Legible, ReadAdcircNetcdf(f)
  PROVE  ReadAs(f, Len(elements), nodes = <<>> /\ elements = <<>>)
<1> DEFINE all == IF AllNodesGood(f) THEN nodes \o f.nodes ELSE nodes
           new == IF AllGood(f) THEN f.elements ELSE <<>>
<1>1. PICK mn \in BOOLEAN : elements' = Repointed(elements, mn) \o new
  BY DEF ReadAdcircNetcdf, Moves
<1>2. /\ nodes' = all
      /\ nodeOrderingLogical' = TRUE /\ elementOrderingLogical' = TRUE
      /\ nodeLookup' = nodeLookup
      /\ f.format \in {"AdcircNetcdf", "DFlow"} /\ f.format = "AdcircNetcdf"
  BY DEF ReadAdcircNetcdf
<1>3. all \in Seq(Nat) /\ new \in Seq(Element)
  BY FileTyped, Appended, EmptySeq DEF Shape
<1>4. /\ Repointed(elements, mn) \in Seq(Element)
      /\ Len(Repointed(elements, mn)) = Len(elements) /\ Len(elements) \in Nat
  BY RepointedType, LenProperties DEF Shape
<1>5. elements' \in Seq(Element) /\ Len(elements') = Len(elements) + Len(new)
  <2> HIDE DEF new
  <2>1. PICK es \in Seq(Element) : es = Repointed(elements, mn)
    BY <1>4
  <2>2. es \o new \in Seq(Element) /\ Len(es \o new) = Len(es) + Len(new)
    BY <1>3, Appended
  <2> QED BY <1>1, <1>4, <2>1, <2>2
<1>6. Shape'
  <2> HIDE DEF all, new
  <2> QED BY <1>2, <1>3, <1>5 DEF Shape
<1>7. ASSUME AllGood(f) PROVE Carried(f, Len(elements))
  <2>1. all = nodes \o f.nodes /\ new = f.elements
    BY <1>7, Counted
  <2> HIDE DEF all, new
  <2>2. \A i \in 1..Len(f.elements) :
          /\ Len(elements) + i \in 1..Len(elements')
          /\ elements'[Len(elements) + i] = f.elements[i]
    BY <1>1, <1>3, <1>4, <2>1, Appended
  <2>3. \A v \in 1..Len(f.nodes) : v \in 1..Len(all)
    BY <2>1, FileTyped, Appended DEF Shape
  <2> SUFFICES ASSUME NEW i \in 1..Len(f.elements)
               PROVE  i \in ClosedElements(f) =>
                        /\ f.elements[i].verts \subseteq 1..Len(all)
                        /\ all = f.nodes =>
                             {all[v] : v \in f.elements[i].verts} = f.elements[i].verts
    BY <1>2, <2>2 DEF Carried
  <2> QED BY <1>2, <2>3, VerticesByPosition
<1>8. ASSUME AllGood(f), nodes = <<>>, elements = <<>>
      PROVE  /\ nodes' = f.nodes /\ Len(elements) = 0 /\ Len(elements') = Len(f.elements)
             /\ NumbersLead(f)
  <2>1. all = f.nodes /\ new = f.elements /\ Len(elements) = 0
    BY <1>8, Counted, FileTyped, Appended, EmptySeq
  <2>2. Len(elements') = Len(f.elements)
    <3> HIDE DEF new
    <3> QED BY <1>5, <2>1, FileTyped
  <2> HIDE DEF all, new
  <2> QED BY <1>2, <2>1, <2>2, NumbersByPosition
<1> QED BY <1>4, <1>6, <1>7, <1>8 DEF ReadAs

(* read() of a D-Flow netCDF file. *)
LEMMA DFlowRead ==
  ASSUME Shape, NEW f \in Legible, ReadDFlow(f)
  PROVE  ReadAs(f, 0, f.elements # <<>> \/ elements = <<>>)
<1> DEFINE n == IF AllNodesGood(f) THEN Len(f.nodes) ELSE Len(nodes)
           m == IF ElementsGood(f) >= 1 THEN Len(f.elements) ELSE Len(elements)
<1>1. PICK mn \in BOOLEAN :
        elements' = [i \in 1..m |-> IF i <= ElementsGood(f) THEN f.elements[i]
                                ELSE Resized(Repointed(elements, mn), m, DefaultElement)[i]]
  BY DEF ReadDFlow, Moves
<1>2. /\ nodes' = IF AllNodesGood(f) THEN f.nodes ELSE nodes
      /\ nodeOrderingLogical' = TRUE /\ elementOrderingLogical' = TRUE
      /\ nodeLookup' = nodeLookup
      /\ f.format \in {"AdcircNetcdf", "DFlow"} /\ f.format = "DFlow"
  BY DEF ReadDFlow
<1>3. Len(elements) \in Nat /\ m \in Nat
  BY FileTyped, LenProperties DEF Shape
<1>4. nodes' \in Seq(Nat)
  BY <1>2, FileTyped DEF Shape
<1>5. elements' \in Seq(Element) /\ Len(elements') = m
  <2>1. DefaultElement \in Element /\ Repointed(elements, mn) \in Seq(Element)
    BY RepointedType DEF Shape, DefaultElement, Element, Nowhere
  <2>2. \A i \in 1..m : Resized(Repointed(elements, mn), m, DefaultElement)[i] \in Element
    <3> HIDE DEF m
    <3> QED BY <1>3, <2>1, ResizedElement
  <2>3. \A i \in 1..m : i <= ElementsGood(f) => f.elements[i] \in Element
    BY <1>3, FileTyped, Counted, ElementOfSeq
  <2> HIDE DEF m
  <2>4. elements' \in [1..m -> Element]
    BY <1>1, <2>2, <2>3
  <2> QED BY <1>3, <2>4, FunctionIsSeq
<1>6. Shape'
  BY <1>2, <1>4, <1>5 DEF Shape
<1>7. ASSUME AllGood(f) PROVE Carried(f, 0)
  <2>1. nodes' = f.nodes /\ ElementsGood(f) = Len(f.elements)
    BY <1>2, <1>7, Counted
  <2>2. ASSUME NEW i \in 1..Len(f.elements)
        PROVE  i \in 1..Len(elements') /\ elements'[i] = f.elements[i]
    <3>1. m = Len(f.elements)
      BY <2>1, FileTyped
    <3> HIDE DEF m
    <3> QED BY <1>1, <1>5, <2>1, <3>1, FileTyped
  <2> SUFFICES ASSUME NEW i \in 1..Len(f.elements)
               PROVE  i \in ClosedElements(f) =>
                        /\ f.elements[i].verts \subseteq 1..Len(f.nodes)
                        /\ {f.nodes[v] : v \in f.elements[i].verts} = f.elements[i].verts
    BY <2>1, <2>2 DEF Carried
  <2> QED BY <1>2, VerticesByPosition
<1>8. ASSUME AllGood(f), f.elements # <<>> \/ elements = <<>>
      PROVE  nodes' = f.nodes /\ Len(elements') = Len(f.elements) /\ NumbersLead(f)
  <2>1. nodes' = f.nodes /\ ElementsGood(f) = Len(f.elements)
    BY <1>2, <1>8, Counted
  <2>2. m = Len(f.elements)
    <3>1. CASE f.elements # <<>>
      BY <2>1, <3>1, FileTyped, EmptySeq
    <3>2. CASE elements = <<>> /\ f.elements = <<>>
      BY <2>1, <3>2, EmptySeq
    <3> QED BY <1>8, <3>1, <3>2
  <2> HIDE DEF m
  <2> QED BY <1>2, <1>5, <2>1, <2>2, NumbersByPosition
<1> QED BY <1>6, <1>7, <1>8 DEF ReadAs

-----------------------------------------------------------------------------
(* What follows from a reading. *)

(* The elements of the file the mesh still equals are current. *)
SourceHeld == \A f \in source : ClosedElements(f) \subseteq held

(* Its numbers lead into the node vector, given once or not. *)
Leads == source # {} => \A i \in 1..Len(nodes) : NodePlace(nodes[i]) \in 1..Len(nodes)

(* The invariant: the shape, and what the runs check. *)
MeshInv == Shape /\ VerticesLive /\ ReadFaithful /\ FoundByNumber /\ SourceHeld /\ Leads

(* A file has been read whole, over the mesh or after it, or not at all. *)
LEMMA ReadKeeps ==
  ASSUME NEW f \in Legible, NEW k, NEW equal \in BOOLEAN, ReadAs(f, k, equal),
         equal => f.odd = {},
         Loaded(f, equal, {k + i : i \in ClosedElements(f)})
  PROVE  MeshInv'
<1>1. /\ source' = IF AllGood(f) /\ equal THEN {f} ELSE {}
      /\ held' = IF AllGood(f) THEN {k + i : i \in ClosedElements(f)} ELSE {}
  BY DEF Loaded, Changed
<1>2. Shape' /\ k \in Nat
  BY DEF ReadAs
<1>3. DOMAIN elements' = 1..Len(elements') /\ DOMAIN nodes' = 1..Len(nodes')
  BY <1>2, LenProperties DEF Shape
<1>4. VerticesLive'
  <2>1. CASE AllGood(f)
    <3>1. \A i \in ClosedElements(f) : i \in 1..Len(f.elements) \ f.odd
      BY FileTyped DEF ClosedElements
    <3>2. \A i \in ClosedElements(f) : /\ k + i \in DOMAIN elements'
                                       /\ elements'[k + i].verts \subseteq 1..Len(nodes')
      BY <1>3, <2>1, <3>1 DEF ReadAs, Carried
    <3> QED BY <1>1, <2>1, <3>2 DEF VerticesLive, Sound
  <2>2. CASE ~AllGood(f)
    BY <1>1, <2>2 DEF VerticesLive
  <2> QED BY <2>1, <2>2
<1>5. CASE ~(AllGood(f) /\ equal)
  BY <1>1, <1>2, <1>4, <1>5 DEF MeshInv, ReadFaithful, FoundByNumber, SourceHeld, Leads
<1>6. CASE AllGood(f) /\ equal
  <2>1. /\ nodes' = f.nodes /\ k = 0 /\ Len(elements') = Len(f.elements)
        /\ NumbersLead(f) /\ Carried(f, 0) /\ source' = {f} /\ f.odd = {}
    BY <1>1, <1>6 DEF ReadAs
  <2>2. \A i \in 1..Len(f.elements) : elements'[i].id = f.elements[i].id
    BY <2>1, FileTyped DEF Carried
  <2>3. ReadFaithful'
    <3> SUFFICES ASSUME Closed(f) PROVE Equals(f)'
      BY <2>1 DEF ReadFaithful, Closed
    <3>1. \A i \in 1..Len(f.elements) : i \in ClosedElements(f)
      BY <2>1, FileTyped DEF Closed, ClosedElements
    <3>2. \A i \in 1..Len(f.elements) :
            {nodes'[v] : v \in elements'[i].verts} = f.elements[i].verts
      BY <2>1, <3>1, FileTyped DEF Carried
    <3> QED BY <1>3, <2>1, <2>2, <3>2 DEF Equals
  <2>4. FoundByNumber'
    <3> SUFFICES ASSUME NoNumberTwice(f)
                 PROVE  /\ \A i \in 1..Len(f.nodes) : NodePlace(f.nodes[i])' = i
                        /\ InOrder(f.elements) \/ (f.format = "Adcirc" /\ ~nodeOrderingLogical') =>
                             \A i \in 1..Len(f.elements) :
                               ElementPlace(f.elements[i].id)' = i
      <4>1. \A i \in 1..Len(f.nodes) : NodePlace(nodes[i])' = NodePlace(f.nodes[i])'
        BY <2>1 DEF NodePlace
      <4>2. \A i \in 1..Len(f.elements) :
              ElementPlace(elements[i].id)' = ElementPlace(f.elements[i].id)'
        BY <2>2 DEF ElementPlace
      <4>3. InOrder(elements)' <=> InOrder(f.elements)
        BY <1>3, <2>1, <2>2, FileTyped DEF InOrder
      <4> QED BY <1>3, <2>1, <4>1, <4>2, <4>3 DEF FoundByNumber, NoNumberTwice
    <3>1. \A i, j \in 1..Len(f.nodes) : f.nodes[i] = f.nodes[j] => i = j
      BY FileTyped DEF NoNumberTwice
    <3>2. \A i, j \in 1..Len(f.elements) : f.elements[i].id = f.elements[j].id => i = j
      BY FileTyped DEF NoNumberTwice
    <3> QED BY <2>1, <3>1, <3>2 DEF NumbersLead
  <2>5. SourceHeld'
    <3>1. \A i \in ClosedElements(f) : k + i = i
      BY <2>1, FileTyped DEF ClosedElements
    <3>2. ClosedElements(f) \subseteq {k + i : i \in ClosedElements(f)}
      BY <3>1
    <3>3. source' = {f} /\ ClosedElements(f) \subseteq held'
      BY <1>1, <1>6, <3>2
    <3> QED BY <3>3 DEF SourceHeld, ClosedElements
  <2>6. Leads'
    <3>1. \A i \in 1..Len(f.nodes) : NodePlace(f.nodes[i])' \in 1..Len(f.nodes)
      BY <2>1 DEF NumbersLead
    <3>2. \A i \in 1..Len(f.nodes) : NodePlace(nodes[i])' = NodePlace(f.nodes[i])'
      BY <2>1 DEF NodePlace
    <3> QED BY <2>1, <3>1, <3>2 DEF Leads
  <2> QED BY <1>2, <1>4, <2>3, <2>4, <2>5, <2>6 DEF MeshInv
<1> QED BY <1>5, <1>6

(* Calls that change neither nodes nor elements, nor an answer of a lookup. *)
LEMMA AnswersKept ==
  ASSUME MeshInv, UNCHANGED <<stores, since, nodeOrderingLogical, elementOrderingLogical>>,
         LookupTyped(nodeLookup'),
         \A n : Lookup(nodeLookup', n) = Lookup(nodeLookup, n),
         \A n : Lookup(elementLookup', n) = Lookup(elementLookup, n)
  PROVE  MeshInv'
<1>1. /\ nodes' = nodes /\ elements' = elements /\ source' = source /\ held' = held
      /\ nodeOrderingLogical' = nodeOrderingLogical
      /\ elementOrderingLogical' = elementOrderingLogical
  BY DEF stores, since
<1>2. Shape'
  BY <1>1 DEF MeshInv, Shape
<1>3. VerticesLive' /\ ReadFaithful'
  BY <1>1 DEF MeshInv, VerticesLive, Sound, ReadFaithful, Closed, Equals
<1>4. \A i \in DOMAIN nodes : NodePlace(nodes[i])' = NodePlace(nodes[i])
  <2>1. \A n : NodePlace(n) = IF nodeOrderingLogical THEN n ELSE Lookup(nodeLookup, n)
    BY DEF NodePlace, Lookup
  <2>2. \A i \in DOMAIN nodes : NodePlace(nodes[i])' =
          IF nodeOrderingLogical THEN nodes[i] ELSE Lookup(nodeLookup', nodes[i])
    BY <1>1 DEF NodePlace, Lookup
  <2> QED BY <2>1, <2>2
<1>5. \A i \in DOMAIN elements : ElementPlace(elements[i].id)' = ElementPlace(elements[i].id)
  <2>1. \A n : ElementPlace(n) = IF elementOrderingLogical THEN n ELSE Lookup(elementLookup, n)
    BY DEF ElementPlace, Lookup
  <2>2. \A i \in DOMAIN elements : ElementPlace(elements[i].id)' =
          IF elementOrderingLogical THEN elements[i].id ELSE Lookup(elementLookup', elements[i].id)
    BY <1>1 DEF ElementPlace, Lookup
  <2> QED BY <2>1, <2>2
<1>6. FoundByNumber'
  BY <1>1, <1>4, <1>5 DEF MeshInv, FoundByNumber, NoNumberTwice, InOrder
<1>7. SourceHeld'
  BY <1>1 DEF MeshInv, SourceHeld, ClosedElements
<1>8. Leads'
  <2>1. \A i \in 1..Len(nodes) : i \in DOMAIN nodes
    BY LenProperties DEF MeshInv, Shape
  <2> QED BY <1>1, <1>4, <2>1 DEF MeshInv, Leads
<1> QED BY <1>2, <1>3, <1>6, <1>7, <1>8 DEF MeshInv

LEMMA Untouched ==
  ASSUME MeshInv, UNCHANGED <<stores, numbers, since>>
  PROVE  MeshInv'
<1>1. /\ UNCHANGED <<stores, since, nodeOrderingLogical, elementOrderingLogical>>
      /\ nodeLookup' = nodeLookup /\ elementLookup' = elementLookup
  BY DEF numbers
<1>2. LookupTyped(nodeLookup)
  BY DEF MeshInv, Shape
<1> QED BY <1>1, <1>2, AnswersKept

(* read() of a file in any format. *)
LEMMA FileRead ==
  ASSUME MeshInv, NEW f \in Legible,
         \/ ReadAdcirc(f) \/ Read2dm(f) \/ ReadAdcircNetcdf(f) \/ ReadDFlow(f) \/ ReadUnknown(f)
  PROVE  MeshInv'
<1>2. ClosedElements(f) = {0 + i : i \in ClosedElements(f)}
  <2>1. \A i \in ClosedElements(f) : 0 + i = i
    BY FileTyped DEF ClosedElements
  <2> QED BY <2>1
<1>3. Shape
  BY DEF MeshInv
<1>4. CASE ReadAdcirc(f)
  <2>1. Loaded(f, f.odd = {}, {0 + i : i \in ClosedElements(f)})
    BY <1>2, <1>4 DEF ReadAdcirc
  <2> QED BY <1>3, <1>4, <2>1, AdcircRead, ReadKeeps
<1>5. CASE Read2dm(f)
  <2>1. Loaded(f, nodes = <<>> /\ elements = <<>>, {Len(elements) + i : i \in ClosedElements(f)})
    BY <1>5 DEF Read2dm
  <2>2. f.odd = {}
    BY <1>5 DEF Legible, Read2dm
  <2> QED BY <1>3, <1>5, <2>1, <2>2, TwoDmRead, ReadKeeps
<1>6. CASE ReadAdcircNetcdf(f)
  <2>1. Loaded(f, nodes = <<>> /\ elements = <<>>, {Len(elements) + i : i \in ClosedElements(f)})
    BY <1>6 DEF ReadAdcircNetcdf
  <2>2. f.odd = {}
    BY <1>6 DEF Legible, ReadAdcircNetcdf
  <2> QED BY <1>3, <1>6, <2>1, <2>2, AdcircNetcdfRead, ReadKeeps
<1>7. CASE ReadDFlow(f)
  <2>1. Loaded(f, f.elements # <<>> \/ elements = <<>>, {0 + i : i \in ClosedElements(f)})
    BY <1>2, <1>7 DEF ReadDFlow
  <2>2. f.odd = {}
    BY <1>7 DEF Legible, ReadDFlow
  <2> QED BY <1>3, <1>7, <2>1, <2>2, DFlowRead, ReadKeeps
<1>8. CASE ReadUnknown(f)
  <2>1. /\ nodes' = nodes /\ elements' = elements /\ nodeLookup' = nodeLookup
        /\ held' = held /\ source' = {}
    BY <1>8 DEF ReadUnknown, stores, Changed
  <2> QED BY <2>1 DEF MeshInv, Shape, VerticesLive, Sound, ReadFaithful, FoundByNumber, SourceHeld, Leads
<1> QED BY <1>4, <1>5, <1>6, <1>7, <1>8

LEMMA ReadKept == MeshInv /\ Read => MeshInv'
  BY MeshAssumption, FileRead DEF Read

-----------------------------------------------------------------------------
(* Edits. *)

(* An edit forgets the file; unless something was taken away the vectors    *)
(* are no shorter than before.                                              *)
EditDone ==
  /\ Shape'
  /\ VerticesLive'
  /\ source' = {}
  /\ ~taken' => ~taken /\ Len(nodes) <= Len(nodes') /\ Len(elements) <= Len(elements')

Sizable == /\ Len(nodes) \in Nat /\ DOMAIN nodes = 1..Len(nodes)
           /\ Len(elements) \in Nat /\ DOMAIN elements = 1..Len(elements)
           /\ \A i \in 1..Len(elements) : elements[i] \in Element
           /\ \A i \in held : i \in 1..Len(elements) /\ elements[i].verts \subseteq 1..Len(nodes)

LEMMA Sized == MeshInv => Sizable
  BY LenProperties, ElementOfSeq DEF MeshInv, Shape, VerticesLive, Sound, Sizable

LEMMA EditEnds ==
  ASSUME EditDone
  PROVE  MeshInv'
  BY DEF EditDone, MeshInv, ReadFaithful, FoundByNumber, SourceHeld, Leads

LEMMA NodeAdded ==
  ASSUME MeshInv, NEW at \in Positions, NEW n \in Numbers, AddNode(at, n)
  PROVE  UNCHANGED <<stores, numbers, since>> \/ EditDone
<1>1. at \in Nat \ {0} /\ n \in Nat
  BY MeshAssumption
<1>2. Sizable /\ nodes \in Seq(Nat) /\ elements \in Seq(Element) /\ LookupTyped(nodeLookup)
  BY Sized DEF MeshInv, Shape
<1>3. CASE at > Len(nodes) + 1
  BY <1>3 DEF AddNode, Reject
<1>4. CASE at <= Len(nodes)
  <2>1. /\ nodes' = [nodes EXCEPT ![at] = n] /\ elements' = elements
        /\ source' = {} /\ held' = held /\ taken' = taken /\ nodeLookup' = nodeLookup
    BY <1>1, <1>2, <1>4 DEF AddNode, Edited, Changed, numbers, Sizable
  <2>2. nodes' \in Seq(Nat) /\ Len(nodes') = Len(nodes)
    BY <1>1, <1>2, <1>4, <2>1, ExceptSeq DEF Sizable
  <2> QED BY <1>2, <2>1, <2>2 DEF EditDone, Shape, VerticesLive, Sound, Sizable
<1>5. CASE at = Len(nodes) + 1
  <2>1. PICK mn \in BOOLEAN :
          /\ nodes' = Append(nodes, n) /\ elements' = Repointed(elements, mn)
          /\ source' = {} /\ held' = (IF mn THEN {} ELSE held) /\ taken' = taken
          /\ nodeLookup' = nodeLookup
    <3>1. ~(at > Len(nodes) + 1) /\ ~(at <= Len(nodes))
      BY <1>1, <1>2, <1>5 DEF Sizable
    <3> QED BY <3>1 DEF AddNode, Edited, Changed, numbers
  <2>2. nodes' \in Seq(Nat) /\ Len(nodes') = Len(nodes) + 1
    BY <1>1, <1>2, <2>1, AppendProperties
  <2>3. elements' \in Seq(Element) /\ Len(elements') = Len(elements)
        /\ (~mn => elements' = elements)
    BY <1>2, <2>1, RepointedType
  <2>4. VerticesLive'
    <3>1. CASE mn
      BY <2>1, <3>1 DEF VerticesLive
    <3>2. CASE ~mn
      BY <1>2, <2>1, <2>2, <2>3, <3>2 DEF VerticesLive, Sound, Sizable
    <3> QED BY <3>1, <3>2
  <2> QED BY <1>2, <2>1, <2>2, <2>3, <2>4 DEF EditDone, Shape, Sizable
<1> QED BY <1>1, <1>2, <1>3, <1>4, <1>5 DEF Sizable

LEMMA NodeDeleted ==
  ASSUME MeshInv, NEW at \in Positions, DeleteNode(at)
  PROVE  UNCHANGED <<stores, numbers, since>> \/ EditDone
<1>1. at \in Nat \ {0}
  BY MeshAssumption
<1>2. Sizable /\ nodes \in Seq(Nat) /\ elements \in Seq(Element) /\ LookupTyped(nodeLookup)
  BY Sized DEF MeshInv, Shape
<1>3. CASE at > Len(nodes)
  BY <1>3 DEF DeleteNode, Reject
<1>4. CASE at <= Len(nodes)
  <2>1. /\ nodes' = Erased(nodes, at) /\ elements' = elements
        /\ source' = {} /\ held' = {} /\ taken' = TRUE /\ nodeLookup' = nodeLookup
    BY <1>1, <1>2, <1>4 DEF DeleteNode, Edited, Changed, numbers, Sizable
  <2>2. nodes' \in Seq(Nat)
    BY <1>1, <1>2, <1>4, <2>1, ErasedType DEF Sizable
  <2> QED BY <1>2, <2>1, <2>2 DEF EditDone, Shape, VerticesLive
<1> QED BY <1>1, <1>2, <1>3, <1>4 DEF Sizable

LEMMA ElementAdded ==
  ASSUME MeshInv, NEW at \in Positions, NEW n \in Numbers, NEW v \in Corners,
         v \subseteq 1..Len(nodes), AddElement(at, n, v)
  PROVE  UNCHANGED <<stores, numbers, since>> \/ EditDone
<1> DEFINE e == [id |-> n, verts |-> v]
<1>1. at \in Nat \ {0} /\ e \in Element
  BY MeshAssumption DEF Element
<1>2. Sizable /\ nodes \in Seq(Nat) /\ elements \in Seq(Element) /\ LookupTyped(nodeLookup)
  BY Sized DEF MeshInv, Shape
<1>3. CASE at > Len(elements) + 1
  BY <1>3 DEF AddElement, Reject
<1>4. CASE at <= Len(elements) + 1
  <2>1. /\ nodes' = nodes /\ source' = {} /\ held' = held \cup {at} /\ taken' = taken
        /\ nodeLookup' = nodeLookup
        /\ at <= Len(elements) => elements' = [elements EXCEPT ![at] = e]
        /\ ~(at <= Len(elements)) => elements' = Append(elements, e)
    <3>1. ~(at > Len(elements) + 1)
      BY <1>1, <1>2, <1>4 DEF Sizable
    <3>2. CASE at <= Len(elements)
      BY <3>1, <3>2 DEF AddElement, Edited, Changed, numbers
    <3>3. CASE ~(at <= Len(elements))
      BY <3>1, <3>3 DEF AddElement, Edited, Changed, numbers
    <3> QED BY <3>2, <3>3
  <2>2. /\ elements' \in Seq(Element) /\ Len(elements') >= Len(elements)
        /\ at \in 1..Len(elements') /\ elements'[at] = e
        /\ \A i \in 1..Len(elements) : i # at => elements'[i] = elements[i]
    <3> HIDE DEF e
    <3>1. CASE at <= Len(elements)
      <4>1. at \in 1..Len(elements) /\ elements' = [elements EXCEPT ![at] = e]
        BY <1>1, <1>2, <2>1, <3>1 DEF Sizable
      <4>2. /\ elements' \in Seq(Element) /\ Len(elements') = Len(elements)
            /\ \A i \in 1..Len(elements) : elements'[i] = IF i = at THEN e ELSE elements[i]
        BY <1>1, <1>2, <4>1, ExceptSeq
      <4> QED BY <1>2, <4>1, <4>2 DEF Sizable
    <3>2. CASE at = Len(elements) + 1
      <4>1. elements' = Append(elements, e)
        <5>1. ~(at <= Len(elements))
          BY <1>1, <1>2, <3>2 DEF Sizable
        <5> QED BY <2>1, <5>1
      <4> QED BY <1>1, <1>2, <4>1, <3>2, AppendProperties DEF Sizable
    <3> QED BY <1>1, <1>2, <1>4, <3>1, <3>2 DEF Sizable
  <2>3. \A i \in held' : i \in 1..Len(elements') /\ elements'[i].verts \subseteq 1..Len(nodes)
    <3> SUFFICES ASSUME NEW i \in held'
                 PROVE  i \in 1..Len(elements') /\ elements'[i].verts \subseteq 1..Len(nodes)
      OBVIOUS
    <3>1. CASE i = at
      BY <2>2, <3>1
    <3>2. CASE i # at
      <4>1. i \in 1..Len(elements) /\ elements[i].verts \subseteq 1..Len(nodes)
        BY <1>2, <2>1, <3>2 DEF Sizable
      <4>2. Len(elements') \in Nat
        BY <2>2, LenProperties
      <4> QED BY <1>2, <2>2, <3>2, <4>1, <4>2 DEF Sizable
    <3> QED BY <3>1, <3>2
  <2>4. VerticesLive'
    <3>1. DOMAIN elements' = 1..Len(elements')
      BY <2>2, LenProperties
    <3> QED BY <2>1, <2>3, <3>1 DEF VerticesLive, Sound
  <2> QED BY <1>2, <2>1, <2>2, <2>4 DEF EditDone, Shape, Sizable
<1> QED BY <1>1, <1>2, <1>3, <1>4 DEF Sizable

LEMMA ElementDeleted ==
  ASSUME MeshInv, NEW at \in Positions, DeleteElement(at)
  PROVE  UNCHANGED <<stores, numbers, since>> \/ EditDone
<1>1. at \in Nat \ {0}
  BY MeshAssumption
<1>2. Sizable /\ nodes \in Seq(Nat) /\ elements \in Seq(Element) /\ LookupTyped(nodeLookup)
  BY Sized DEF MeshInv, Shape
<1>3. CASE at > Len(elements)
  BY <1>3 DEF DeleteElement, Reject
<1>4. CASE at <= Len(elements)
  <2>1. /\ nodes' = nodes /\ elements' = Erased(elements, at)
        /\ source' = {} /\ taken' = TRUE /\ nodeLookup' = nodeLookup
        /\ held' = {k \in held : k < at} \cup {k - 1 : k \in {h \in held : h > at}}
    <3>1. ~(at > Len(elements))
      BY <1>1, <1>2, <1>4 DEF Sizable
    <3> QED BY <3>1 DEF DeleteElement, Edited, Changed, numbers
  <2>2. /\ elements' \in Seq(Element) /\ Len(elements') = Len(elements) - 1
        /\ \A k \in 1..(Len(elements) - 1) :
             elements'[k] = IF k < at THEN elements[k] ELSE elements[k + 1]
    <3>1. at \in 1..Len(elements)
      BY <1>1, <1>2, <1>4 DEF Sizable
    <3>2. elements' = Erased(elements, at)
      BY <2>1
    <3> QED BY <1>2, <3>1, <3>2, ErasedType
  <2>3. \A i \in held' : i \in 1..(Len(elements) - 1) /\ elements'[i].verts \subseteq 1..Len(nodes)
    <3> SUFFICES ASSUME NEW i \in held'
                 PROVE  i \in 1..(Len(elements) - 1) /\ elements'[i].verts \subseteq 1..Len(nodes)
      OBVIOUS
    <3>1. CASE i \in held /\ i < at
      <4>1. i \in 1..(Len(elements) - 1)
        BY <1>1, <1>2, <1>4, <3>1 DEF Sizable
      <4> QED BY <1>2, <2>2, <3>1, <4>1 DEF Sizable
    <3>2. CASE \E h \in held : h > at /\ i = h - 1
      <4>1. PICK h \in held : h > at /\ i = h - 1
        BY <3>2
      <4>2. /\ i \in 1..(Len(elements) - 1) /\ ~(i < at) /\ i + 1 = h
        BY <1>1, <1>2, <4>1 DEF Sizable
      <4> QED BY <1>2, <2>2, <4>1, <4>2 DEF Sizable
    <3> QED BY <2>1, <3>1, <3>2
  <2>4. VerticesLive'
    <3>1. DOMAIN elements' = 1..(Len(elements) - 1)
      BY <2>2, LenProperties
    <3> QED BY <2>1, <2>3, <3>1 DEF VerticesLive, Sound
  <2> QED BY <1>2, <2>1, <2>2, <2>4 DEF EditDone, Shape
<1> QED BY <1>1, <1>2, <1>3, <1>4 DEF Sizable

LEMMA MeshResized ==
  ASSUME MeshInv, NEW n \in Sizes, NEW m \in Sizes, ResizeMesh(n, m)
  PROVE  EditDone
<1>1. n \in Nat /\ m \in Nat
  BY MeshAssumption
<1>2. Sizable /\ nodes \in Seq(Nat) /\ elements \in Seq(Element) /\ LookupTyped(nodeLookup)
  BY Sized DEF MeshInv, Shape
<1>3. PICK mn \in BOOLEAN :
        /\ nodes' = Resized(nodes, n, DefaultNode)
        /\ elements' = Resized(Repointed(elements, mn), m, DefaultElement)
        /\ source' = {} /\ nodeLookup' = nodeLookup
        /\ held' = IF mn \/ n < Len(nodes) THEN {} ELSE held \cap 1..m
        /\ taken' = (taken \/ n < Len(nodes) \/ m < Len(elements))
  BY DEF ResizeMesh, Edited, Changed, numbers, Moves
<1>4. nodes' \in Seq(Nat) /\ Len(nodes') = n
  <2>1. DefaultNode \in Nat /\ nodes' = Resized(nodes, n, DefaultNode)
    BY <1>3 DEF DefaultNode
  <2> QED BY <1>1, <1>2, <2>1, ResizedType
<1>5. /\ elements' \in Seq(Element) /\ Len(elements') = m
      /\ ~mn => \A i \in 1..m : i <= Len(elements) => elements'[i] = elements[i]
  <2>1. DefaultElement \in Element
    BY DEF DefaultElement, Element, Nowhere
  <2>2. PICK es \in Seq(Element) : /\ es = Repointed(elements, mn) /\ Len(es) = Len(elements)
                                   /\ ~mn => es = elements
    BY <1>2, RepointedType
  <2>3. elements' = Resized(es, m, DefaultElement)
    BY <1>3, <2>2
  <2>4. /\ elements' \in Seq(Element) /\ Len(elements') = m
        /\ \A i \in 1..m : i <= Len(es) => elements'[i] = es[i]
    <3>1. PICK new \in Element : new = DefaultElement
      BY <2>1
    <3>2. elements' = Resized(es, m, new)
      BY <2>3, <3>1
    <3>3. m \in Nat /\ es \in Seq(Element)
      BY <1>1, <2>2
    <3> QED BY <3>2, <3>3, ResizedType
  <2> QED BY <2>2, <2>4
<1>6. VerticesLive'
  <2>1. CASE mn \/ n < Len(nodes)
    BY <1>3, <2>1 DEF VerticesLive
  <2>2. CASE ~mn /\ ~(n < Len(nodes))
    <3>1. DOMAIN elements' = 1..m
      BY <1>5, LenProperties
    <3>2. ASSUME NEW i \in held'
          PROVE  i \in 1..m /\ elements'[i] = elements[i] /\ elements[i].verts \subseteq 1..n
      BY <1>1, <1>2, <1>3, <1>5, <2>2, <3>2 DEF Sizable
    <3> QED BY <1>4, <3>1, <3>2 DEF VerticesLive, Sound
  <2> QED BY <2>1, <2>2
<1>7. ~taken' => ~taken /\ Len(nodes) <= Len(nodes') /\ Len(elements) <= Len(elements')
  <2>1. ~taken' => ~taken /\ ~(n < Len(nodes)) /\ ~(m < Len(elements))
    BY <1>3, Zenon
  <2> QED BY <1>1, <1>2, <1>4, <1>5, <2>1 DEF Sizable
<1>8. Shape'
  BY <1>2, <1>3, <1>4, <1>5 DEF Shape
<1> QED BY <1>3, <1>6, <1>7, <1>8 DEF EditDone

LEMMA EditKept ==
  ASSUME MeshInv, Edit
  PROVE  UNCHANGED <<stores, numbers, since>> \/ EditDone
  BY NodeAdded, NodeDeleted, ElementAdded, ElementDeleted, MeshResized DEF Edit

-----------------------------------------------------------------------------
(* Every call. *)

LEMMA MeshStarts == Init => MeshInv
<1> SUFFICES ASSUME Init PROVE MeshInv
  OBVIOUS
<1>1. /\ nodes = <<>> /\ elements = <<>> /\ nodeLookup = <<>> /\ source = {} /\ held = {}
  BY DEF Init
<1>2. LookupTyped(nodeLookup)
  BY <1>1 DEF LookupTyped
<1> QED BY <1>1, <1>2, EmptySeq DEF MeshInv, Shape, VerticesLive, ReadFaithful, FoundByNumber, SourceHeld, Leads

(* A lookup that was only asked gives the same answers. *)
LEMMA OnlyAsked ==
  ASSUME MeshInv, UNCHANGED <<stores, since, nodeOrderingLogical, elementOrderingLogical>>,
         nodeLookup' = nodeLookup \/ \E asked : nodeLookup' = Touched(nodeLookup, asked),
         elementLookup' = elementLookup \/ \E asked : elementLookup' = Touched(elementLookup, asked)
  PROVE  MeshInv'
<1>1. LookupTyped(nodeLookup)
  BY DEF MeshInv, Shape
<1>2. LookupTyped(nodeLookup') /\ \A n : Lookup(nodeLookup', n) = Lookup(nodeLookup, n)
  BY <1>1, TouchedAt
<1>3. \A n : Lookup(elementLookup', n) = Lookup(elementLookup, n)
  BY TouchedAt
<1> QED BY <1>2, <1>3, AnswersKept

LEMMA MeshKept == MeshInv /\ [Next]_vars => MeshInv'
<1> SUFFICES ASSUME MeshInv, [Next]_vars PROVE MeshInv'
  OBVIOUS
<1>1. CASE Read
  BY <1>1, ReadKept
<1>2. CASE Edit
  BY <1>2, EditKept, EditEnds, Untouched
<1>3. ASSUME NEW n \in Numbers, NodeById(n)
      PROVE  MeshInv'
  BY <1>3, OnlyAsked DEF NodeById
<1>4. ASSUME NEW n \in Numbers, ElementById(n)
      PROVE  MeshInv'
  BY <1>4, OnlyAsked DEF ElementById
<1>5. CASE BuildElementTable
  BY <1>5, Untouched DEF BuildElementTable, OnlyTable
<1>6. ASSUME NEW at \in Positions, NumElementsAroundNode(at)
      PROVE  MeshInv'
  BY <1>6, Untouched DEF NumElementsAroundNode, OnlyTable
<1>7. CASE ComputeMeshSize
  BY <1>7, Untouched DEF ComputeMeshSize, OnlyTable
<1>8. CASE CheckMesh
  <2>1. UNCHANGED <<stores, since, nodeOrderingLogical, elementOrderingLogical, elementLookup>>
    BY <1>8 DEF CheckMesh, OnlyTable
  <2>2. nodeLookup' = nodeLookup \/ \E asked : nodeLookup' = Touched(nodeLookup, asked)
    BY <1>8 DEF CheckMesh
  <2> QED BY <2>1, <2>2, OnlyAsked
<1>9. CASE CopyMesh
  BY <1>9, Untouched DEF CopyMesh
<1>10. CASE UNCHANGED vars
  BY <1>10, Untouched DEF vars
<1> QED BY <1>1, <1>2, <1>3, <1>4, <1>5, <1>6, <1>7, <1>8, <1>9, <1>10 DEF Next, Ask

-----------------------------------------------------------------------------
(* Positions in their order. *)

Upto(S, j) == {k \in S : k <= j}

LEMMA UptoFinite ==
  ASSUME NEW n \in Nat, NEW S \in SUBSET (1..n), NEW j
  PROVE  /\ IsFiniteSet(S) /\ Cardinality(S) \in Nat
         /\ IsFiniteSet(Upto(S, j)) /\ Cardinality(Upto(S, j)) \in Nat
         /\ Cardinality(Upto(S, j)) <= Cardinality(S)
<1>1. IsFiniteSet(1..n)
  BY FS_Interval
<1>2. IsFiniteSet(S)
  BY <1>1, FS_Subset
<1>3. Upto(S, j) \in SUBSET S
  BY DEF Upto
<1> QED BY <1>2, <1>3, FS_Subset, FS_CardinalityType

(* Larger positions have more up to them. *)
LEMMA MoreUpto ==
  ASSUME NEW n \in Nat, NEW S \in SUBSET (1..n), NEW j \in S, NEW k \in S, j < k
  PROVE  Cardinality(Upto(S, j)) < Cardinality(Upto(S, k))
<1>1. j \in Nat /\ k \in Nat /\ \A i \in S : i \in Nat
  OBVIOUS
<1>2. Upto(S, j) \in SUBSET Upto(S, k)
  <2>1. \A i \in S : i <= j => i <= k
    BY <1>1
  <2> QED BY <2>1 DEF Upto
<1>3. k \in Upto(S, k) /\ k \notin Upto(S, j)
  BY <1>1 DEF Upto
<1>4. IsFiniteSet(Upto(S, k)) /\ Cardinality(Upto(S, k)) \in Nat /\ Cardinality(Upto(S, j)) \in Nat
  BY UptoFinite
<1>5. /\ Cardinality(Upto(S, j)) <= Cardinality(Upto(S, k))
      /\ Cardinality(Upto(S, k)) = Cardinality(Upto(S, j)) => Upto(S, k) = Upto(S, j)
  BY <1>2, <1>4, FS_Subset
<1> QED BY <1>3, <1>4, <1>5

(* A set of positions goes one to one onto as many numbers. *)
LEMMA RankTaken ==
  ASSUME NEW n \in Nat, NEW S \in SUBSET (1..n)
  PROVE  /\ \A j \in S : Cardinality(Upto(S, j)) \in 1..Cardinality(S)
         /\ \A r \in 1..Cardinality(S) : \E j \in S : Cardinality(Upto(S, j)) = r
<1> DEFINE m == Cardinality(S)
           f == [j \in S |-> Cardinality(Upto(S, j))]
<1>1. m \in Nat /\ IsFiniteSet(S)
  BY UptoFinite
<1>2. \A j \in S : Cardinality(Upto(S, j)) \in 1..m
  <2> SUFFICES ASSUME NEW j \in S PROVE Cardinality(Upto(S, j)) \in 1..m
    OBVIOUS
  <2>1. /\ Cardinality(Upto(S, j)) \in Nat /\ Cardinality(Upto(S, j)) <= m /\ IsFiniteSet(Upto(S, j))
    BY UptoFinite
  <2>2. j \in Upto(S, j)
    <3>1. j \in Nat
      OBVIOUS
    <3> QED BY <3>1 DEF Upto
  <2>3. Cardinality(Upto(S, j)) # 0
    BY <2>1, <2>2, FS_EmptySet
  <2> QED BY <1>1, <2>1, <2>3
<1>3. \A j, k \in S : f[j] = f[k] => j = k
  <2> SUFFICES ASSUME NEW j \in S, NEW k \in S, j # k PROVE f[j] # f[k]
    OBVIOUS
  <2>1. j \in Nat /\ k \in Nat
    OBVIOUS
  <2>2. Cardinality(Upto(S, j)) \in Nat /\ Cardinality(Upto(S, k)) \in Nat
    BY UptoFinite
  <2>3. CASE j < k
    <3>1. Cardinality(Upto(S, j)) < Cardinality(Upto(S, k))
      BY <2>3, MoreUpto
    <3> QED BY <2>2, <3>1
  <2>4. CASE k < j
    <3>1. Cardinality(Upto(S, k)) < Cardinality(Upto(S, j))
      BY <2>4, MoreUpto
    <3> QED BY <2>2, <3>1
  <2> QED BY <2>1, <2>3, <2>4
<1>4. f \in Injection(S, 1..m)
  <2>1. f \in [S -> 1..m]
    BY <1>2
  <2> QED BY <1>3, <2>1 DEF Injection, IsInjective
<1>5. IsFiniteSet(1..m) /\ Cardinality(1..m) = m
  BY <1>1, FS_Interval
<1>6. f \in Surjection(S, 1..m)
  BY <1>4, <1>5, FS_Injection
<1>7. \A r \in 1..m : \E j \in S : f[j] = r
  BY <1>6 DEF Surjection
<1> QED BY <1>2, <1>7

(* Ranked(S) has the members of S, each once and in order. *)
LEMMA RankedIs ==
  ASSUME NEW n \in Nat, NEW S \in SUBSET (1..n)
  PROVE  /\ Ranked(S) \in Seq(1..n)
         /\ {Ranked(S)[k] : k \in DOMAIN Ranked(S)} = S
         /\ \A j, k \in DOMAIN Ranked(S) : j < k => Ranked(S)[j] < Ranked(S)[k]
<1> DEFINE m == Cardinality(S)
<1>1. m \in Nat
  BY UptoFinite
<1>2. Ranked(S) = [k \in 1..m |-> CHOOSE i \in S : Cardinality(Upto(S, i)) = k]
  BY DEF Ranked, Upto
<1>3. ASSUME NEW k \in 1..m PROVE Ranked(S)[k] \in S /\ Cardinality(Upto(S, Ranked(S)[k])) = k
  <2>1. \E i \in S : Cardinality(Upto(S, i)) = k
    BY RankTaken
  <2>2. Ranked(S)[k] = CHOOSE i \in S : Cardinality(Upto(S, i)) = k
    BY <1>2
  <2> QED BY <2>1, <2>2
<1>4. DOMAIN Ranked(S) = 1..m
  BY <1>2
<1>5. Ranked(S) \in [1..m -> 1..n]
  BY <1>2, <1>3
<1>6. Ranked(S) \in Seq(1..n)
  BY <1>1, <1>5, FunctionIsSeq
<1>7. ASSUME NEW i \in S PROVE \E k \in 1..m : Ranked(S)[k] = i
  <2> DEFINE k == Cardinality(Upto(S, i))
             j == Ranked(S)[k]
  <2>1. k \in 1..m
    BY RankTaken
  <2>2. j \in S /\ Cardinality(Upto(S, j)) = k
    BY <1>3, <2>1
  <2> HIDE DEF j
  <2>3. j \in Nat /\ i \in Nat /\ k \in Nat
    BY <1>1, <2>1, <2>2
  <2>4. ~(i < j)
    <3>1. i < j => Cardinality(Upto(S, i)) < Cardinality(Upto(S, j))
      BY <2>2, MoreUpto
    <3> QED BY <2>2, <2>3, <3>1
  <2>5. ~(j < i)
    <3>1. j < i => Cardinality(Upto(S, j)) < Cardinality(Upto(S, i))
      BY <2>2, MoreUpto
    <3> QED BY <2>2, <2>3, <3>1
  <2> QED BY <2>1, <2>3, <2>4, <2>5 DEF j
<1>8. ASSUME NEW j \in 1..m, NEW k \in 1..m, j < k PROVE Ranked(S)[j] < Ranked(S)[k]
  <2> DEFINE a == Ranked(S)[j]
             b == Ranked(S)[k]
  <2>1. a \in S /\ b \in S /\ Cardinality(Upto(S, a)) = j /\ Cardinality(Upto(S, b)) = k
    BY <1>3
  <2> HIDE DEF a, b
  <2>2. a \in Nat /\ b \in Nat /\ j \in Nat /\ k \in Nat
    BY <1>1, <2>1
  <2>3. a # b
    BY <1>8, <2>1, <2>2
  <2>4. ~(b < a)
    <3>1. b < a => Cardinality(Upto(S, b)) < Cardinality(Upto(S, a))
      BY <2>1, MoreUpto
    <3> QED BY <1>8, <2>1, <2>2, <3>1
  <2> QED BY <2>2, <2>3, <2>4 DEF a, b
<1> HIDE DEF m
<1> QED BY <1>3, <1>4, <1>6, <1>7, <1>8

-----------------------------------------------------------------------------
(* The table of elements around a node. *)

On(n) == {i \in DOMAIN elements : n \in elements[i].verts}

List(tab, n) == IF n \in DOMAIN tab THEN tab[n] ELSE <<>>

Rising(list) == \A j, k \in DOMAIN list : j < k => list[j] < list[k]

Exact(n) == LET list == List(elementTable, n)
            IN  {list[k] : k \in DOMAIN list} = On(n) /\ Rising(list)

(* What the table holds is as good as its history says.                     *)
TableInv ==
  /\ table \in {"unbuilt", "once", "again", "stale", "patched"}
  /\ initialized \in BOOLEAN /\ (initialized <=> table # "unbuilt")
  /\ \A n \in DOMAIN elementTable : elementTable[n] \in Seq(Nat)
  /\ table = "unbuilt" => DOMAIN elementTable = {}
  /\ table \in {"once", "again"} =>
       \A n \in DOMAIN elementTable : Listed(elementTable, n) \subseteq 1..Len(elements)
  /\ table = "once" => \A n \in Nat \ {Nowhere} : Exact(n)

LEMMA AroundIs ==
  ASSUME Shape, NEW n
  PROVE  /\ Around(n) \in Seq(Nat) /\ Rising(Around(n))
         /\ {Around(n)[k] : k \in DOMAIN Around(n)} = On(n)
         /\ On(n) \subseteq 1..Len(elements)
<1>1. Len(elements) \in Nat /\ DOMAIN elements = 1..Len(elements)
  BY LenProperties DEF Shape
<1>2. On(n) \in SUBSET (1..Len(elements))
  BY <1>1 DEF On
<1>3. Around(n) = Ranked(On(n))
  BY DEF Around, On
<1>4. Around(n) \in Seq(1..Len(elements))
  BY <1>1, <1>2, <1>3, RankedIs
<1>5. Around(n) \in Seq(Nat)
  <2>1. 1..Len(elements) \subseteq Nat
    OBVIOUS
  <2> QED BY <1>4, <2>1, SeqMonotonic
<1>6. /\ {Around(n)[k] : k \in DOMAIN Around(n)} = On(n)
      /\ Rising(Around(n))
  BY <1>1, <1>2, <1>3, RankedIs DEF Rising
<1> QED BY <1>2, <1>5, <1>6

(* The members of a list after another. *)
LEMMA ConcatHolds ==
  ASSUME NEW s \in Seq(Nat), NEW t \in Seq(Nat)
  PROVE  /\ s \o t \in Seq(Nat)
         /\ \A k \in DOMAIN (s \o t) : (\E j \in DOMAIN s : (s \o t)[k] = s[j]) \/ (\E j \in DOMAIN t : (s \o t)[k] = t[j])
         /\ \A j \in DOMAIN t : \E k \in DOMAIN (s \o t) : (s \o t)[k] = t[j]
         /\ s = <<>> => s \o t = t
<1> DEFINE u == s \o t
           a == Len(s)
           b == Len(t)
<1>1. /\ u \in Seq(Nat) /\ Len(u) = a + b
      /\ \A k \in 1..a + b : u[k] = IF k <= a THEN s[k] ELSE t[k - a]
  BY ConcatProperties
<1>2. a \in Nat /\ b \in Nat /\ DOMAIN s = 1..a /\ DOMAIN t = 1..b /\ DOMAIN u = 1..a + b
  BY <1>1, LenProperties
<1>3. s = <<>> => u = t
  BY ConcatEmptySeq
<1> HIDE DEF u, a, b
<1>4. ASSUME NEW k \in DOMAIN u
      PROVE  (\E j \in DOMAIN s : u[k] = s[j]) \/ (\E j \in DOMAIN t : u[k] = t[j])
  <2>1. CASE k <= a
    BY <1>1, <1>2, <2>1
  <2>2. CASE ~(k <= a)
    <3>1. k - a \in 1..b
      BY <1>2, <2>2
    <3>2. u[k] = t[k - a]
      BY <1>1, <1>2, <2>2
    <3> QED BY <1>2, <3>1, <3>2
  <2> QED BY <2>1, <2>2
<1>5. ASSUME NEW j \in DOMAIN t PROVE \E k \in DOMAIN u : u[k] = t[j]
  <2> DEFINE k == a + j
  <2>1. k \in 1..a + b /\ ~(k <= a) /\ k - a = j
    BY <1>2
  <2> HIDE DEF k
  <2>2. u[k] = t[j]
    BY <1>1, <2>1
  <2> QED BY <1>2, <2>1, <2>2
<1> QED BY <1>1, <1>3, <1>4, <1>5 DEF u

(* Nothing about the table has changed. *)
LEMMA TableStays ==
  ASSUME TableInv, UNCHANGED <<elements, around>>
  PROVE  TableInv'
  BY DEF TableInv, around, Listed, Exact, On, List, Rising

LEMMA RelistedIs ==
  ASSUME TableInv, NEW mn \in BOOLEAN, NEW me \in BOOLEAN
  PROVE  /\ \A n \in DOMAIN Relisted(mn, me) : Relisted(mn, me)[n] \in Seq(Nat)
         /\ DOMAIN elementTable = {} => DOMAIN Relisted(mn, me) = {}
<1>1. CASE mn
  <2>1. Relisted(mn, me) = <<>>
    BY <1>1 DEF Relisted
  <2>2. DOMAIN <<>> = {}
    OBVIOUS
  <2> QED BY <2>1, <2>2
<1>2. CASE ~mn /\ me
  <2>1. Relisted(mn, me) = [n \in DOMAIN elementTable |-> [k \in DOMAIN elementTable[n] |-> Nowhere]]
    BY <1>2 DEF Relisted
  <2>2. ASSUME NEW n \in DOMAIN elementTable PROVE [k \in DOMAIN elementTable[n] |-> Nowhere] \in Seq(Nat)
    <3>1. elementTable[n] \in Seq(Nat)
      BY DEF TableInv
    <3>2. DOMAIN elementTable[n] = 1..Len(elementTable[n]) /\ Len(elementTable[n]) \in Nat
      BY <3>1, LenProperties
    <3>3. [k \in DOMAIN elementTable[n] |-> Nowhere] \in [1..Len(elementTable[n]) -> Nat]
      BY <3>2 DEF Nowhere
    <3> QED BY <3>2, <3>3, FunctionIsSeq
  <2> QED BY <2>1, <2>2
<1>3. CASE ~mn /\ ~me
  <2>1. Relisted(mn, me) = elementTable
    BY <1>3 DEF Relisted
  <2> QED BY <2>1 DEF TableInv
<1> QED BY <1>1, <1>2, <1>3

(* A change that makes the table stale, if it was built. *)
LEMMA TableAges ==
  ASSUME TableInv, NEW mn \in BOOLEAN, NEW me \in BOOLEAN,
         elementTable' = Relisted(mn, me), Age(TRUE), UNCHANGED initialized
  PROVE  TableInv'
<1>1. /\ \A n \in DOMAIN elementTable' : elementTable'[n] \in Seq(Nat)
      /\ DOMAIN elementTable = {} => DOMAIN elementTable' = {}
  BY RelistedIs
<1>2. table' = IF table # "unbuilt" THEN "stale" ELSE table
  BY DEF Age
<1>3. CASE table = "unbuilt"
  BY <1>1, <1>2, <1>3 DEF TableInv
<1>4. CASE table # "unbuilt"
  BY <1>1, <1>2, <1>4 DEF TableInv
<1> QED BY <1>3, <1>4

LEMMA BuildKeeps ==
  ASSUME TableInv, Shape, UNCHANGED stores, Build
  PROVE  TableInv'
<1>1. /\ elementTable' = TableBuilt /\ initialized' = TRUE /\ table' = Worth
  BY DEF Build
<1>2. elements' = elements
  BY DEF stores
<1> DEFINE Asked == UNION {elements[i].verts \ {Nowhere} : i \in DOMAIN elements}
<1>3. /\ DOMAIN elementTable' = DOMAIN elementTable \cup Asked
      /\ \A n \in DOMAIN elementTable \cup Asked : elementTable'[n] = List(elementTable, n) \o Around(n)
  BY <1>1 DEF TableBuilt, List
<1>4. \A n : List(elementTable, n) \in Seq(Nat)
  <2>1. <<>> \in Seq(Nat)
    BY EmptySeq
  <2> QED BY <2>1 DEF TableInv, List
<1>5. ASSUME NEW n \in DOMAIN elementTable' PROVE elementTable'[n] \in Seq(Nat)
  <2>1. elementTable'[n] = List(elementTable, n) \o Around(n)
    BY <1>3
  <2>2. List(elementTable, n) \in Seq(Nat) /\ Around(n) \in Seq(Nat)
    BY <1>4, AroundIs
  <2> QED BY <2>1, <2>2, ConcatHolds
<1>6. table' \in {"once", "again", "patched"}
  BY <1>1 DEF Worth
<1>7. ASSUME table' \in {"once", "again"}, NEW n \in DOMAIN elementTable'
      PROVE  Listed(elementTable, n)' \subseteq 1..Len(elements)
  <2> DEFINE s == List(elementTable, n)
             t == Around(n)
  <2>1. table \in {"unbuilt", "once", "again"}
    BY <1>1, <1>7 DEF Worth, TableInv
  <2>2. \A j \in DOMAIN s : s[j] \in 1..Len(elements)
    <3>1. CASE n \in DOMAIN elementTable
      <4>1. table \in {"once", "again"}
        BY <2>1, <3>1 DEF TableInv
      <4>2. Listed(elementTable, n) \subseteq 1..Len(elements)
        BY <3>1, <4>1 DEF TableInv
      <4> QED BY <3>1, <4>2 DEF Listed, List
    <3>2. CASE n \notin DOMAIN elementTable
      BY <3>2 DEF List
    <3> QED BY <3>1, <3>2
  <2>3. \A j \in DOMAIN t : t[j] \in 1..Len(elements)
    <3>1. {t[k] : k \in DOMAIN t} = On(n) /\ On(n) \subseteq 1..Len(elements)
      BY AroundIs
    <3> QED BY <3>1
  <2>4. elementTable'[n] = s \o t /\ s \in Seq(Nat) /\ t \in Seq(Nat)
    BY <1>3, <1>4, AroundIs
  <2> HIDE DEF s, t
  <2>5. \A k \in DOMAIN (s \o t) : (s \o t)[k] \in 1..Len(elements)
    BY <2>2, <2>3, <2>4, ConcatHolds
  <2>6. Listed(elementTable, n)' = {(s \o t)[k] : k \in DOMAIN (s \o t)}
    BY <2>4 DEF Listed
  <2> QED BY <2>5, <2>6
<1>8. ASSUME table' = "once", NEW n \in Nat \ {Nowhere}
      PROVE  Exact(n)'
  <2>1. DOMAIN elementTable = {}
    BY <1>1, <1>8 DEF Worth, TableInv
  <2>2. On(n)' = On(n)
    BY <1>2 DEF On
  <2>3. CASE n \in Asked
    <3>1. elementTable'[n] = <<>> \o Around(n) /\ n \in DOMAIN elementTable'
      BY <1>3, <2>1, <2>3 DEF List
    <3>2. <<>> \o Around(n) = Around(n)
      <4>1. <<>> \in Seq(Nat)
        BY EmptySeq
      <4> QED BY <4>1, AroundIs, ConcatHolds
    <3>3. List(elementTable, n)' = Around(n)
      BY <3>1, <3>2 DEF List
    <3> QED BY <2>2, <3>3, AroundIs DEF Exact
  <2>4. CASE n \notin Asked
    <3>1. n \notin DOMAIN elementTable'
      BY <1>3, <2>1, <2>4
    <3>2. List(elementTable, n)' = <<>>
      BY <3>1 DEF List
    <3>3. On(n) = {}
      BY <1>8, <2>4 DEF On
    <3>4. DOMAIN <<>> = {}
      OBVIOUS
    <3> QED BY <2>2, <3>2, <3>3, <3>4 DEF Exact, Rising
  <2> QED BY <2>3, <2>4
<1> HIDE DEF Asked
<1> QED BY <1>1, <1>2, <1>5, <1>6, <1>7, <1>8 DEF TableInv

(* Calls that leave the table alone. *)
LEMMA TableAlone ==
  ASSUME TableInv, UNCHANGED <<elements, elementTable, initialized, table>>
  PROVE  TableInv'
  BY TableStays DEF around

(* A reading makes the table stale. *)
LEMMA ReadAges ==
  ASSUME TableInv, NEW f,
         \/ ReadAdcirc(f) \/ Read2dm(f) \/ ReadAdcircNetcdf(f) \/ ReadDFlow(f) \/ ReadUnknown(f)
  PROVE  TableInv'
<1>1. CASE ReadUnknown(f)
  BY <1>1, TableStays DEF ReadUnknown, stores
<1>2. CASE ~ReadUnknown(f)
  <2>1. \E mn \in BOOLEAN, me \in BOOLEAN : Relocated(mn, me)
    BY <1>2 DEF ReadAdcirc, Read2dm, ReadAdcircNetcdf, ReadDFlow, Moves
  <2> QED BY <2>1, TableAges DEF Relocated
<1> QED BY <1>1, <1>2

LEMMA NodeAddedAges ==
  ASSUME MeshInv, TableInv, NEW at \in Positions, NEW n \in Numbers, AddNode(at, n)
  PROVE  TableInv'
<1>1. Sizable /\ elements \in Seq(Element)
  BY Sized DEF MeshInv, Shape
<1>2. CASE at > Len(nodes) + 1
  BY <1>2, TableStays DEF AddNode, Reject, stores
<1>3. CASE ~(at > Len(nodes) + 1) /\ at <= Len(nodes)
  BY <1>3, TableStays DEF AddNode
<1>4. CASE ~(at > Len(nodes) + 1) /\ ~(at <= Len(nodes))
  <2>1. PICK mn \in BOOLEAN :
          /\ elements' = Repointed(elements, mn) /\ elementTable' = Relisted(mn, FALSE)
          /\ Age(mn) /\ initialized' = initialized
    BY <1>4 DEF AddNode
  <2>2. CASE mn
    <3>1. Age(TRUE)
      BY <2>1, <2>2 DEF Age
    <3> QED BY <2>1, <3>1, TableAges
  <2>3. CASE ~mn
    <3>1. elements' = elements
      BY <1>1, <2>1, <2>3, RepointedType
    <3>2. elementTable' = elementTable /\ table' = table
      BY <2>1, <2>3 DEF Relisted, Age
    <3> QED BY <2>1, <3>1, <3>2, TableAlone
  <2> QED BY <2>2, <2>3
<1> QED BY <1>2, <1>3, <1>4

LEMMA ElementEditAges ==
  ASSUME TableInv, NEW at,
         DeleteElement(at) \/ \E n \in Numbers, v \in Corners : AddElement(at, n, v)
  PROVE  TableInv'
<1>1. CASE UNCHANGED <<stores, around>>
  BY <1>1, TableStays DEF stores
<1>2. CASE \E me \in BOOLEAN : Relocated(FALSE, me)
  BY <1>2, TableAges DEF Relocated
<1>3. UNCHANGED <<stores, around>> \/ \E me \in BOOLEAN : Relocated(FALSE, me)
  BY DEF DeleteElement, AddElement, Reject
<1> QED BY <1>1, <1>2, <1>3

LEMMA ResizeAges ==
  ASSUME MeshInv, TableInv, NEW n \in Sizes, NEW m \in Sizes, ResizeMesh(n, m)
  PROVE  TableInv'
<1>1. Sizable /\ elements \in Seq(Element) /\ m \in Nat
  BY Sized, MeshAssumption DEF MeshInv, Shape
<1>2. PICK mn \in BOOLEAN, me \in BOOLEAN :
        /\ elements' = Resized(Repointed(elements, mn), m, DefaultElement)
        /\ elementTable' = Relisted(mn, me) /\ initialized' = initialized
        /\ Age(mn \/ me \/ m # Len(elements))
  BY DEF ResizeMesh, Moves
<1>3. CASE mn \/ me \/ m # Len(elements)
  <2>1. Age(TRUE)
    BY <1>2, <1>3 DEF Age
  <2> QED BY <1>2, <2>1, TableAges
<1>4. CASE ~mn /\ ~me /\ m = Len(elements)
  <2>1. Repointed(elements, mn) = elements
    BY <1>1, <1>4, RepointedType
  <2>2. elements' = [i \in 1..Len(elements) |-> IF i <= Len(elements) THEN elements[i] ELSE DefaultElement]
    BY <1>2, <1>4, <2>1 DEF Resized
  <2>3. elements = [i \in 1..Len(elements) |-> elements[i]]
    BY <1>1 DEF Sizable
  <2>4. elements' = elements
    BY <1>1, <2>2, <2>3 DEF Sizable
  <2>5. elementTable' = elementTable /\ table' = table
    BY <1>2, <1>4 DEF Relisted, Age
  <2> QED BY <1>2, <2>4, <2>5, TableAlone
<1> QED BY <1>3, <1>4

LEMMA EditAges ==
  ASSUME MeshInv, TableInv, Edit
  PROVE  TableInv'
<1>1. ASSUME NEW at \in Positions, DeleteNode(at) PROVE TableInv'
  BY <1>1, TableStays DEF DeleteNode, Reject, stores
<1> QED BY <1>1, NodeAddedAges, ElementEditAges, ResizeAges DEF Edit

(* Asking for the elements around a node enters it with an empty list. *)
LEMMA AskedAges ==
  ASSUME MeshInv, TableInv, NEW at \in Positions, NumElementsAroundNode(at)
  PROVE  TableInv'
<1>1. /\ elements' = elements /\ nodes' = nodes
      /\ initialized' = initialized /\ table' = table
  BY DEF NumElementsAroundNode, OnlyTable, stores
<1>2. CASE ~(initialized /\ at <= Len(nodes) /\ at \notin DOMAIN elementTable)
  <2>1. elementTable' = elementTable
    BY <1>2 DEF NumElementsAroundNode
  <2> QED BY <1>1, <2>1, TableAlone
<1>3. CASE initialized /\ at <= Len(nodes) /\ at \notin DOMAIN elementTable
  <2>1. elementTable' = [n \in DOMAIN elementTable \cup {at} |->
                           IF n = at THEN <<>> ELSE elementTable[n]]
    BY <1>3 DEF NumElementsAroundNode
  <2>2. /\ DOMAIN elementTable' = DOMAIN elementTable \cup {at}
        /\ \A n \in DOMAIN elementTable : elementTable'[n] = elementTable[n]
        /\ elementTable'[at] = <<>>
    BY <1>3, <2>1
  <2>3. \A n : List(elementTable, n)' = List(elementTable, n)
    BY <1>3, <2>2 DEF List
  <2>4. \A n \in DOMAIN elementTable' : elementTable'[n] \in Seq(Nat)
    BY <2>2, EmptySeq DEF TableInv
  <2>5. \A n \in DOMAIN elementTable : Listed(elementTable, n)' = Listed(elementTable, n)
    BY <2>2 DEF Listed
  <2>6. Listed(elementTable, at)' = {}
    <3>1. DOMAIN <<>> = {}
      OBVIOUS
    <3> QED BY <2>2, <3>1 DEF Listed
  <2>7. table # "unbuilt"
    BY <1>3 DEF TableInv
  <2>8. ASSUME table = "once", NEW n \in Nat \ {Nowhere} PROVE Exact(n)'
    <3>1. Exact(n) /\ On(n)' = On(n)
      BY <1>1, <2>8 DEF TableInv, On
    <3> QED BY <2>3, <3>1 DEF Exact, Rising
  <2>9. /\ table' \in {"unbuilt", "once", "again", "stale", "patched"}
        /\ initialized' \in BOOLEAN /\ (initialized' <=> table' # "unbuilt")
    BY <1>1 DEF TableInv
  <2>10. table' \in {"once", "again"} =>
           \A n \in DOMAIN elementTable' : Listed(elementTable, n)' \subseteq 1..Len(elements')
    <3> SUFFICES ASSUME table \in {"once", "again"}, NEW n \in DOMAIN elementTable'
                 PROVE  Listed(elementTable, n)' \subseteq 1..Len(elements)
      BY <1>1
    <3>1. CASE n \in DOMAIN elementTable
      BY <2>5, <3>1 DEF TableInv
    <3>2. CASE n = at
      BY <2>6, <3>2
    <3> QED BY <2>2, <3>1, <3>2
  <2>11. table' # "unbuilt" /\ (table' = "once" <=> table = "once")
    BY <1>1, <2>7
  <2> QED BY <2>4, <2>8, <2>9, <2>10, <2>11 DEF TableInv
<1> QED BY <1>2, <1>3

LEMMA TableKept == MeshInv /\ TableInv /\ [Next]_vars => TableInv'
<1> SUFFICES ASSUME MeshInv, TableInv, [Next]_vars PROVE TableInv'
  OBVIOUS
<1>1. Shape
  BY DEF MeshInv
<1>2. CASE Read
  BY <1>2, ReadAges DEF Read
<1>3. CASE Edit
  BY <1>3, EditAges
<1>4. ASSUME NEW n \in Numbers, NodeById(n) \/ ElementById(n) PROVE TableInv'
  BY <1>4, TableStays DEF NodeById, ElementById, stores
<1>5. CASE BuildElementTable
  BY <1>1, <1>5, BuildKeeps DEF BuildElementTable, OnlyTable
<1>6. ASSUME NEW at \in Positions, NumElementsAroundNode(at) PROVE TableInv'
  BY <1>6, AskedAges
<1>7. CASE ComputeMeshSize
  <2>1. UNCHANGED stores /\ (UNCHANGED around \/ Build)
    BY <1>7 DEF ComputeMeshSize, OnlyTable
  <2> QED BY <1>1, <2>1, BuildKeeps, TableStays DEF stores
<1>8. CASE CheckMesh
  <2>1. UNCHANGED stores /\ (UNCHANGED around \/ Build)
    BY <1>8 DEF CheckMesh, OnlyTable
  <2> QED BY <1>1, <2>1, BuildKeeps, TableStays DEF stores
<1>9. CASE CopyMesh \/ UNCHANGED vars
  BY <1>9, TableStays DEF CopyMesh, stores, vars
<1> QED BY <1>2, <1>3, <1>4, <1>5, <1>6, <1>7, <1>8, <1>9 DEF Next, Ask

LEMMA TableStarts == Init => TableInv
<1> SUFFICES ASSUME Init PROVE TableInv
  OBVIOUS
<1>1. elementTable = <<>> /\ initialized = FALSE /\ table = "unbuilt"
  BY DEF Init
<1>2. DOMAIN <<>> = {}
  OBVIOUS
<1> QED BY <1>1, <1>2 DEF TableInv

-----------------------------------------------------------------------------
(* What checkMesh() finds, and what it dies of. *)

(* More elements on an edge than two are more entries than two to count.    *)
LEMMA OverlapCounted ==
  ASSUME Shape, TableInv, WellNumbered, AllSound, TrueOverlap,
         UNCHANGED stores, Build, ~Dangling(elementTable')
  PROVE  ReportsOverlap(elementTable')
<1>1. /\ elements' = elements /\ nodes' = nodes /\ Len(nodes) \in Nat /\ Len(elements) \in Nat
      /\ DOMAIN elements = 1..Len(elements)
  BY LenProperties DEF stores, Shape
<1>0. PICK i \in DOMAIN elements : \E a, b \in elements[i].verts :
        a # b /\ Cardinality({k \in DOMAIN elements : {a, b} \subseteq elements[k].verts}) > 2
  BY DEF TrueOverlap
<1>2. PICK a \in elements[i].verts, b \in elements[i].verts :
        /\ a # b
        /\ Cardinality({k \in DOMAIN elements : {a, b} \subseteq elements[k].verts}) > 2
  BY <1>0
<1>3. a \in 1..Len(nodes) /\ b \in 1..Len(nodes)
  BY DEF AllSound, Sound
<1> DEFINE tab == elementTable'
           K == {k \in DOMAIN elements : {a, b} \subseteq elements[k].verts}
           C == {k \in DOMAIN tab[a] : \E l \in DOMAIN tab[b] :
                   elements[tab[a][k]].id = elements[tab[b][l]].id}
(* Every element of the edge is listed under both of its ends. *)
<1>4. ASSUME NEW n \in {a, b}
      PROVE  /\ n \in DOMAIN tab /\ tab[n] \in Seq(Nat)
             /\ \A k \in K : \E j \in DOMAIN tab[n] : tab[n][j] = k
             /\ \A j \in DOMAIN tab[n] : tab[n][j] \in DOMAIN elements
  <2>1. n \in 1..Len(nodes) /\ n # Nowhere /\ n \in elements[i].verts
    BY <1>1, <1>3 DEF Nowhere
  <2>2. n \in DOMAIN tab
    BY <2>1 DEF Build, TableBuilt
  <2>3. tab[n] = List(elementTable, n) \o Around(n)
    BY <2>2 DEF Build, TableBuilt, List
  <2>4. List(elementTable, n) \in Seq(Nat) /\ Around(n) \in Seq(Nat)
    BY AroundIs, EmptySeq DEF TableInv, List
  <2>5. tab[n] \in Seq(Nat)
    BY <2>3, <2>4, ConcatHolds
  <2>6. \A k \in K : k \in On(n)
    BY DEF On
  <2>7. ASSUME NEW k \in K PROVE \E j \in DOMAIN tab[n] : tab[n][j] = k
    <3> DEFINE s == List(elementTable, n)
               t == Around(n)
    <3>1. PICK l \in DOMAIN t : t[l] = k
      BY <2>6, AroundIs
    <3>2. tab[n] = s \o t /\ s \in Seq(Nat) /\ t \in Seq(Nat)
      BY <2>3, <2>4
    <3> HIDE DEF s, t, tab
    <3>3. \E j \in DOMAIN (s \o t) : (s \o t)[j] = t[l]
      BY <3>1, <3>2, ConcatHolds
    <3> QED BY <3>1, <3>2, <3>3
  <2>8. Listed(tab, n) \subseteq 1..Len(elements)
    BY <1>1, <2>1, <2>2 DEF Dangling
  <2>9. \A j \in DOMAIN tab[n] : tab[n][j] \in DOMAIN elements
    BY <1>1, <2>2, <2>8 DEF Listed
  <2> QED BY <2>2, <2>5, <2>7, <2>9
<1> HIDE DEF tab
<1>5. ASSUME NEW k \in K, NEW j \in DOMAIN tab[a], tab[a][j] = k PROVE j \in C
  <2>1. PICK l \in DOMAIN tab[b] : tab[b][l] = k
    BY <1>4
  <2> QED BY <1>5, <2>1
<1> DEFINE f == [k \in K |-> CHOOSE j \in DOMAIN tab[a] : tab[a][j] = k]
<1>6. \A k \in K : f[k] \in DOMAIN tab[a] /\ tab[a][f[k]] = k
  BY <1>4
<1>7. IsFiniteSet(C)
  <2>1. tab[a] \in Seq(Nat)
    BY <1>4
  <2>2. DOMAIN tab[a] = 1..Len(tab[a]) /\ Len(tab[a]) \in Nat
    BY <2>1, LenProperties
  <2>3. IsFiniteSet(DOMAIN tab[a])
    BY <2>2, FS_Interval
  <2>4. C \in SUBSET DOMAIN tab[a]
    OBVIOUS
  <2> QED BY <2>3, <2>4, FS_Subset
<1>8. K \in SUBSET (1..Len(elements))
  BY <1>1
<1>9. IsFiniteSet(K) /\ Cardinality(K) \in Nat
  BY <1>1, <1>8, UptoFinite
<1> HIDE DEF K, C
<1>10. f \in Injection(K, C)
  <2>1. f \in [K -> C]
    BY <1>5, <1>6
  <2>2. \A j, k \in K : f[j] = f[k] => j = k
    BY <1>6
  <2> QED BY <2>1, <2>2 DEF Injection, IsInjective
<1>11. Cardinality(K) <= Cardinality(C) /\ Cardinality(C) \in Nat
  BY <1>7, <1>10, FS_Injection, FS_CardinalityType
<1>12. Cardinality(C) > 2
  BY <1>2, <1>9, <1>11 DEF K
<1>13. Common(tab, a, b) = Cardinality(C)
  BY DEF Common, C
<1> QED BY <1>2, <1>12, <1>13 DEF ReportsOverlap, tab

(* The lookup marks nodes of the mesh, or the mesh is no longer its file's. *)
LEMMA MarksInside ==
  ASSUME MeshInv, WellNumbered, AllSound, NEW lookup,
         lookup = IF nodeOrderingLogical THEN nodeLookup
                  ELSE Touched(nodeLookup, {nodes[v] : v \in Vertices}),
         nodeOrderingLogical \/ source # {}
  PROVE  Marks(lookup) \subseteq 1..Len(nodes)
<1>1. Sizable
  BY Sized
<1> SUFFICES ASSUME NEW v \in Vertices
             PROVE  (IF nodeOrderingLogical THEN nodes[v] ELSE lookup[nodes[v]]) \in 1..Len(nodes)
  BY DEF Marks
<1>2. v \in 1..Len(nodes) /\ nodes[v] = v
  BY <1>1 DEF Vertices, AllSound, Sound, WellNumbered, Sizable
<1>3. CASE nodeOrderingLogical
  BY <1>2, <1>3
<1>4. CASE ~nodeOrderingLogical
  <2> DEFINE asked == {nodes[w] : w \in Vertices}
  <2>1. lookup = Touched(nodeLookup, asked) /\ nodes[v] \in asked
    BY <1>4
  <2> HIDE DEF asked
  <2>2. lookup[nodes[v]] = IF nodes[v] \in DOMAIN nodeLookup THEN nodeLookup[nodes[v]] ELSE 1
    BY <2>1 DEF Touched
  <2>3. NodePlace(nodes[v]) \in 1..Len(nodes)
    BY <1>2, <1>4 DEF MeshInv, Leads
  <2> QED BY <1>4, <2>2, <2>3 DEF NodePlace
<1> QED BY <1>3, <1>4

(* A table that points outside the element vector was kept through a change. *)
LEMMA DanglingAged ==
  ASSUME TableInv, Dangling(elementTable)
  PROVE  table \in {"stale", "patched"}
  BY DEF TableInv, Dangling

MeshSafe == OverlapsFound /\ DeathExplained

LEMMA CheckSafe ==
  ASSUME MeshInv, TableInv, CheckMesh
  PROVE  MeshSafe'
<1>1. Shape /\ nodes' = nodes /\ elements' = elements /\ source' = source /\ UNCHANGED stores
      /\ nodeOrderingLogical' = nodeOrderingLogical
  BY DEF MeshInv, CheckMesh, OnlyTable, stores, since
<1>2. AllSound' = AllSound /\ (TrueOverlap)' = TrueOverlap
  BY <1>1 DEF AllSound, Sound, TrueOverlap
<1>3. CASE ~WellNumbered
  BY <1>3 DEF CheckMesh, MeshSafe, OverlapsFound, DeathExplained
<1>4. CASE WellNumbered /\ ~AllSound
  BY <1>2, <1>4 DEF CheckMesh, MeshSafe, OverlapsFound, DeathExplained
<1>5. CASE WellNumbered /\ AllSound
  <2>1. nodeLookup' = IF nodeOrderingLogical THEN nodeLookup
                      ELSE Touched(nodeLookup, {nodes[v] : v \in Vertices})
    BY <1>5 DEF CheckMesh
  <2>2. CASE ~(Marks(nodeLookup') \subseteq 1..Len(nodes))
    <3>1. ~nodeOrderingLogical /\ source = {}
      BY <1>5, <2>1, <2>2, MarksInside
    <3>2. ret' = "dead"
      BY <1>5, <2>2 DEF CheckMesh
    <3> QED BY <1>1, <3>1, <3>2 DEF MeshSafe, OverlapsFound, DeathExplained
  <2>3. CASE Marks(nodeLookup') \subseteq 1..Len(nodes)
    <3>1. Build /\ ret' = IF Dangling(elementTable') THEN "dead"
                          ELSE IF ReportsOverlap(elementTable') THEN "overlapping" ELSE "checked"
      BY <1>5, <2>3 DEF CheckMesh
    <3>2. TableInv'
      BY <1>1, <3>1, BuildKeeps
    <3>3. CASE Dangling(elementTable')
      <4>1. Dangling(elementTable)'
        BY <1>1, <3>3 DEF Dangling, Listed
      <4>2. table' \in {"stale", "patched"}
        BY <3>2, <4>1 DEF TableInv, Dangling
      <4> QED BY <3>1, <3>3, <4>2 DEF MeshSafe, OverlapsFound, DeathExplained
    <3>4. CASE ~Dangling(elementTable')
      <4>1. TrueOverlap => ReportsOverlap(elementTable')
        BY <1>1, <1>5, <3>1, <3>4, OverlapCounted
      <4> QED BY <1>2, <3>1, <3>4, <4>1 DEF MeshSafe, OverlapsFound, DeathExplained
    <3> QED BY <3>3, <3>4
  <2> QED BY <2>2, <2>3
<1> QED BY <1>3, <1>4, <1>5

LEMMA SizeSafe ==
  ASSUME MeshInv, TableInv, ComputeMeshSize
  PROVE  MeshSafe'
<1>1. Shape /\ nodes' = nodes /\ elements' = elements /\ UNCHANGED stores
  BY DEF MeshInv, ComputeMeshSize, OnlyTable, stores
<1>2. TableInv'
  <2>1. UNCHANGED around \/ Build
    BY DEF ComputeMeshSize
  <2> QED BY <1>1, <2>1, BuildKeeps, TableStays
<1>3. ret' \in {"error", "ok", "dead"}
      /\ (ret' = "dead" => Dangling(elementTable') \/ ~AllSound)
  BY DEF ComputeMeshSize
<1>4. CASE ~AllSound
  <2>1. ~AllSound'
    BY <1>1, <1>4 DEF AllSound, Sound
  <2> QED BY <1>3, <2>1 DEF MeshSafe, OverlapsFound, DeathExplained
<1>5. CASE Dangling(elementTable')
  <2>1. Dangling(elementTable)'
    BY <1>1, <1>5 DEF Dangling, Listed
  <2>2. table' \in {"stale", "patched"}
    BY <1>2, <2>1 DEF TableInv, Dangling
  <2> QED BY <1>3, <2>2 DEF MeshSafe, OverlapsFound, DeathExplained
<1>6. CASE ret' # "dead"
  BY <1>3, <1>6 DEF MeshSafe, OverlapsFound, DeathExplained
<1> QED BY <1>3, <1>4, <1>5, <1>6

(* Calls that end well enough, or change nothing. *)
LEMMA EndsSafe ==
  ASSUME ret' \notin {"checked", "dead"}
  PROVE  MeshSafe'
  BY DEF MeshSafe, OverlapsFound, DeathExplained

(* A reading kills the process only where D-Flow sorts vertices the mesh does *)
(* not have, which the element then keeps.                                    *)
LEMMA ReadEnds ==
  ASSUME NEW f \in Legible,
         \/ ReadAdcirc(f) \/ Read2dm(f) \/ ReadAdcircNetcdf(f) \/ ReadDFlow(f) \/ ReadUnknown(f)
  PROVE  ret' # "checked" /\ (ret' = "dead" => ~AllSound')
<1>1. CASE ReadAdcirc(f) \/ Read2dm(f) \/ ReadAdcircNetcdf(f) \/ ReadUnknown(f)
  BY <1>1 DEF ReadAdcirc, Read2dm, ReadAdcircNetcdf, ReadUnknown, Outcome
<1>2. CASE ReadDFlow(f)
  <2> DEFINE m == IF ElementsGood(f) >= 1 THEN Len(f.elements) ELSE Len(elements)
             n == IF AllNodesGood(f) THEN Len(f.nodes) ELSE Len(nodes)
  <2>1. PICK mn \in BOOLEAN :
          elements' = [i \in 1..m |-> IF i <= ElementsGood(f) THEN f.elements[i]
                                  ELSE Resized(Repointed(elements, mn), m, DefaultElement)[i]]
    BY <1>2 DEF ReadDFlow, Moves
  <2>2. /\ nodes' = IF AllNodesGood(f) THEN f.nodes ELSE nodes
        /\ ret' # "checked"
        /\ ret' = "dead" => \E i \in 1..ElementsGood(f) : ~(f.elements[i].verts \subseteq 1..n)
    BY <1>2 DEF ReadDFlow, Outcome
  <2> SUFFICES ASSUME NEW i \in 1..ElementsGood(f), ~(f.elements[i].verts \subseteq 1..n)
               PROVE  ~AllSound'
    BY <2>2
  <2>3. ElementsGood(f) >= 1 /\ i \in 1..Len(f.elements) /\ m = Len(f.elements) /\ n = Len(nodes')
    BY <2>2, FileTyped, Counted
  <2> HIDE DEF m, n
  <2>4. i \in DOMAIN elements' /\ elements'[i].verts = f.elements[i].verts
    BY <2>1, <2>3
  <2> QED BY <2>3, <2>4 DEF AllSound, Sound
<1> QED BY <1>1, <1>2

LEMMA SafeKept == MeshInv /\ TableInv /\ MeshSafe /\ [Next]_vars => MeshSafe'
<1> SUFFICES ASSUME MeshInv, TableInv, MeshSafe, [Next]_vars PROVE MeshSafe'
  OBVIOUS
<1>1. CASE Read
  <2>1. ret' # "checked" /\ (ret' = "dead" => ~AllSound')
    BY <1>1, MeshAssumption, ReadEnds DEF Read
  <2> QED BY <2>1 DEF MeshSafe, OverlapsFound, DeathExplained
<1>2. CASE Edit
  <2>1. ret' \notin {"checked", "dead"}
    BY <1>2 DEF Edit, AddNode, DeleteNode, AddElement, DeleteElement, ResizeMesh, Reject, Edited
  <2> QED BY <2>1, EndsSafe
<1>3. ASSUME NEW n \in Numbers, NodeById(n) \/ ElementById(n) PROVE MeshSafe'
  BY <1>3, EndsSafe DEF NodeById, ElementById
<1>4. CASE BuildElementTable \/ CopyMesh
  BY <1>4, EndsSafe DEF BuildElementTable, CopyMesh
<1>5. ASSUME NEW at \in Positions, NumElementsAroundNode(at) PROVE MeshSafe'
  BY <1>5 DEF NumElementsAroundNode, MeshSafe, OverlapsFound, DeathExplained
<1>6. CASE UNCHANGED vars
  BY <1>6 DEF vars, stores, numbers, around, since, MeshSafe, OverlapsFound, TrueOverlap,
              DeathExplained, AllSound, Sound
<1> QED BY <1>1, <1>2, <1>3, <1>4, <1>5, <1>6, CheckSafe, SizeSafe DEF Next, Ask

(* The invariant of the mesh. *)
THEOREM MeshInvariant == Spec => []MeshInv
<1>1. Init => MeshInv
  BY MeshStarts
<1>2. MeshInv /\ [Next]_vars => MeshInv'
  BY MeshKept
<1> QED BY <1>1, <1>2, PTL DEF Spec

(* No call leaves an element whose vertices are current with one outside    *)
(* the node vector, whatever was read, half read or edited before.          *)
THEOREM VerticesLiveAlways == Spec => []VerticesLive
<1>1. MeshInv => VerticesLive
  BY DEF MeshInv
<1> QED BY <1>1, MeshInvariant, PTL

(* A mesh read from a file and not edited since is the file. *)
THEOREM ReadFaithfulAlways == Spec => []ReadFaithful
<1>1. MeshInv => ReadFaithful
  BY DEF MeshInv
<1> QED BY <1>1, MeshInvariant, PTL

(* In such a mesh numbers lead to their nodes, whatever the lookups held.   *)
THEOREM FoundByNumberAlways == Spec => []FoundByNumber
<1>1. MeshInv => FoundByNumber
  BY DEF MeshInv
<1> QED BY <1>1, MeshInvariant, PTL

-----------------------------------------------------------------------------
(* Written and read back. *)

(* A mesh on disk had sound elements, and its file says what a writer says. *)
Kept(d) ==
  /\ d.nodes \in Seq(Nat) /\ d.elements \in Seq(Element)
  /\ \A i \in 1..Len(d.elements) : d.elements[i].verts \subseteq 1..Len(d.nodes)
  /\ d.file.format \in {"Adcirc", "2DM", "DFlow"}
  /\ d.file = Written(d.file.format, d.nodes, d.elements)

FilesInv == MeshInv /\ \A d \in disk : Kept(d)

(* What a written file has in its parts. *)
Says(f, ns, es) ==
  /\ DOMAIN f.nodes = 1..Len(ns)
  /\ DOMAIN f.elements = 1..Len(es)
  /\ \A k \in 1..Len(ns) : f.nodes[k] = IF f.format = "DFlow" THEN k ELSE ns[k]
  /\ \A i \in 1..Len(es) :
       /\ f.elements[i].id = IF f.format = "DFlow" THEN i ELSE es[i].id
       /\ f.elements[i].verts = {ns[v] : v \in es[i].verts}
  /\ f.odd = {}

LEMMA WrittenIs ==
  ASSUME NEW ns \in Seq(Nat), NEW es \in Seq(Element), NEW format \in {"Adcirc", "2DM", "DFlow"},
         \A i \in 1..Len(es) : es[i].verts \subseteq 1..Len(ns),
         NEW f, f = Written(format, ns, es)
  PROVE  f \in Legible /\ Says(f, ns, es)
<1> DEFINE fn == [k \in DOMAIN ns |-> IF format = "DFlow" THEN k ELSE ns[k]]
           fe == [i \in DOMAIN es |-> [id |-> IF format = "DFlow" THEN i ELSE es[i].id,
                                      verts |-> Named(ns, es[i])]]
           fg == IF format = "DFlow" /\ es = <<>> THEN 0 ELSE 2 + Len(ns) + Len(es)
<1>1. f = [format |-> format, nodes |-> fn, elements |-> fe, odd |-> {}, good |-> fg]
  BY DEF Written
<1>2. /\ Len(ns) \in Nat /\ DOMAIN ns = 1..Len(ns) /\ \A k \in 1..Len(ns) : ns[k] \in Nat
      /\ Len(es) \in Nat /\ DOMAIN es = 1..Len(es) /\ \A i \in 1..Len(es) : es[i] \in Element
  BY LenProperties, ElementOfSeq
<1>3. fg \in Nat
  BY <1>2
<1>4. fn \in [1..Len(ns) -> Nat]
  <2>1. \A k \in 1..Len(ns) : (IF format = "DFlow" THEN k ELSE ns[k]) \in Nat
    BY <1>2
  <2> QED BY <1>2, <2>1
<1>5. fe \in [1..Len(es) -> Element]
  <2>1. ASSUME NEW i \in 1..Len(es)
        PROVE  [id |-> IF format = "DFlow" THEN i ELSE es[i].id, verts |-> Named(ns, es[i])] \in Element
    <3>1. es[i].id \in Nat /\ i \in Nat
      BY <1>2 DEF Element
    <3>2. Named(ns, es[i]) \in SUBSET Nat
      BY <1>2 DEF Named
    <3> QED BY <3>1, <3>2 DEF Element
  <2> QED BY <1>2, <2>1
<1>6. \A k \in 1..Len(ns) : fn[k] = IF format = "DFlow" THEN k ELSE ns[k]
  BY <1>2
<1>7. \A i \in 1..Len(es) : /\ fe[i].id = IF format = "DFlow" THEN i ELSE es[i].id
                            /\ fe[i].verts = {ns[v] : v \in es[i].verts}
  BY <1>2 DEF Named
<1> HIDE DEF fn, fe, fg
<1>8. /\ fn \in Seq(Nat) /\ DOMAIN fn = 1..Len(ns)
      /\ fe \in Seq(Element) /\ Len(fe) = Len(es) /\ DOMAIN fe = 1..Len(es)
  BY <1>2, <1>4, <1>5, FunctionIsSeq
<1>9. f.format = format /\ f.nodes = fn /\ f.elements = fe /\ f.odd = {}
  BY <1>1
<1>10. f \in MeshFile
  BY <1>1, <1>3, <1>8 DEF MeshFile, Formats
<1>11. f \in Legible
  BY <1>6, <1>8, <1>9, <1>10 DEF Legible
<1> QED BY <1>6, <1>7, <1>8, <1>9, <1>11 DEF Says

LEMMA KeptIs ==
  ASSUME NEW d, Kept(d)
  PROVE  d.file \in Legible /\ Says(d.file, d.nodes, d.elements)
<1>1. PICK f, ns, es, format : f = d.file /\ ns = d.nodes /\ es = d.elements /\ format = f.format
  OBVIOUS
<1>2. /\ ns \in Seq(Nat) /\ es \in Seq(Element) /\ format \in {"Adcirc", "2DM", "DFlow"}
      /\ \A i \in 1..Len(es) : es[i].verts \subseteq 1..Len(ns)
      /\ f = Written(format, ns, es)
  BY <1>1 DEF Kept
<1>3. f \in Legible /\ Says(f, ns, es)
  BY <1>2, WrittenIs
<1> QED BY <1>1, <1>3

(* Numbers given once name one set of places only. *)
LEMMA SamePlaces ==
  ASSUME NEW ns, NEW P, NEW a, NEW b, a \subseteq P, b \subseteq P,
         \A j, k \in P : ns[j] = ns[k] => j = k,
         {ns[v] : v \in a} = {ns[v] : v \in b}
  PROVE  a = b
<1>1. ASSUME NEW v \in a PROVE v \in b
  <2>1. ns[v] \in {ns[w] : w \in b}
    OBVIOUS
  <2> QED BY <2>1
<1>2. ASSUME NEW v \in b PROVE v \in a
  <2>1. ns[v] \in {ns[w] : w \in a}
    OBVIOUS
  <2> QED BY <2>1
<1> QED BY <1>1, <1>2

(* The mesh still equals a file that was written from a mesh: it is that mesh. *)
LEMMA TripBack == FilesInv => TripRestores
<1> SUFFICES ASSUME FilesInv, NEW d \in disk, source = {d.file},
                    \A j, k \in DOMAIN d.nodes : d.nodes[j] = d.nodes[k] => j = k,
                    d.file.format = "DFlow" => /\ \A k \in DOMAIN d.nodes : d.nodes[k] = k
                                               /\ InOrder(d.elements)
             PROVE  nodes = d.nodes /\ elements = d.elements
  BY DEF TripRestores
<1> DEFINE n == Len(d.nodes)
           m == Len(d.elements)
<1>1. /\ Shape /\ VerticesLive /\ ReadFaithful /\ SourceHeld /\ Kept(d)
  BY DEF FilesInv, MeshInv
<1>2. /\ n \in Nat /\ DOMAIN d.nodes = 1..n
      /\ m \in Nat /\ DOMAIN d.elements = 1..m /\ \A i \in 1..m : d.elements[i] \in Element
      /\ d.nodes = [k \in 1..n |-> d.nodes[k]]
  BY <1>1, LenProperties, ElementOfSeq DEF Kept
<1>3. /\ d.file \in Legible
      /\ DOMAIN d.file.nodes = 1..n
      /\ DOMAIN d.file.elements = 1..m
      /\ \A k \in 1..n : d.file.nodes[k] = IF d.file.format = "DFlow" THEN k ELSE d.nodes[k]
      /\ \A i \in 1..m :
           /\ d.file.elements[i].id = IF d.file.format = "DFlow" THEN i ELSE d.elements[i].id
           /\ d.file.elements[i].verts = {d.nodes[v] : v \in d.elements[i].verts}
      /\ d.file.odd = {}
  BY <1>1, KeptIs DEF Says
<1>4. \A i \in 1..m : d.elements[i].verts \subseteq 1..n
  BY <1>1 DEF Kept
<1> HIDE DEF n, m
<1>5. \A k \in 1..n : d.file.nodes[k] = d.nodes[k]
  BY <1>2, <1>3
<1>6. \A i \in 1..m : d.file.elements[i].id = d.elements[i].id
  BY <1>2, <1>3 DEF InOrder
<1>7. Closed(d.file)
  <2>1. ASSUME NEW i \in 1..m
        PROVE  d.file.elements[i].verts \subseteq {d.file.nodes[k] : k \in 1..n}
    <3>1. d.file.elements[i].verts = {d.nodes[v] : v \in d.elements[i].verts}
      BY <1>3
    <3>2. \A v \in d.elements[i].verts : v \in 1..n /\ d.file.nodes[v] = d.nodes[v]
      BY <1>4, <1>5
    <3> QED BY <3>1, <3>2
  <2> QED BY <1>3, <2>1 DEF Closed
<1>8. Equals(d.file)
  BY <1>1, <1>7 DEF ReadFaithful
<1>9. nodes = d.nodes
  <2>1. nodes = d.file.nodes
    BY <1>8 DEF Equals
  <2>2. d.file.nodes \in Seq(Nat) /\ d.nodes \in Seq(Nat)
    BY <1>1, <1>3, FileTyped DEF Kept
  <2>3. Len(d.file.nodes) = n
    <3>1. Len(d.file.nodes) \in Nat /\ 1..Len(d.file.nodes) = 1..n
      BY <1>3, <2>2, LenProperties
    <3> QED BY <1>2, <3>1
  <2> QED BY <1>5, <2>1, <2>2, <2>3, SeqEqual DEF n
<1>10. Len(elements) = m /\ DOMAIN elements = 1..m /\ \A i \in 1..m : elements[i] \in Element
  <2>1. elements \in Seq(Element) /\ Len(elements) = Len(d.file.elements)
    BY <1>1, <1>8 DEF Equals, Shape
  <2>2. d.file.elements \in Seq(Element)
    BY <1>3, FileTyped
  <2>3. Len(d.file.elements) = m
    <3>1. Len(d.file.elements) \in Nat /\ 1..Len(d.file.elements) = 1..m
      BY <1>3, <2>2, LenProperties
    <3> QED BY <1>2, <3>1
  <2> QED BY <2>1, <2>3, LenProperties, ElementOfSeq
<1>11. ASSUME NEW i \in 1..m
       PROVE  elements[i] = d.elements[i]
  <2>1. elements[i].id = d.elements[i].id
    BY <1>6, <1>8, <1>10 DEF Equals
  <2>2. {nodes[v] : v \in elements[i].verts} = {d.nodes[v] : v \in d.elements[i].verts}
    BY <1>3, <1>8, <1>10 DEF Equals
  <2>3. i \in ClosedElements(d.file)
    BY <1>3, <1>7 DEF Closed, ClosedElements
  <2>4. elements[i].verts \subseteq 1..n
    BY <1>1, <1>9, <2>3 DEF SourceHeld, VerticesLive, Sound, n
  <2>5. elements[i].verts = d.elements[i].verts
    <3>1. PICK P, ns, a, b : /\ P = 1..n /\ ns = d.nodes
                             /\ a = elements[i].verts /\ b = d.elements[i].verts
      OBVIOUS
    <3>2. a \subseteq P /\ b \subseteq P /\ {ns[v] : v \in a} = {ns[v] : v \in b}
      BY <1>4, <1>9, <2>2, <2>4, <3>1
    <3>3. \A j, k \in P : ns[j] = ns[k] => j = k
      BY <1>2, <3>1
    <3>4. a = b
      BY <3>2, <3>3, SamePlaces
    <3> QED BY <3>1, <3>4
  <2>6. \A e \in Element : e = [id |-> e.id, verts |-> e.verts]
    BY DEF Element
  <2>7. elements[i] \in Element /\ d.elements[i] \in Element
    BY <1>2, <1>10
  <2> QED BY <2>1, <2>5, <2>6, <2>7
<1>12. elements = d.elements
  <2>1. elements \in Seq(Element) /\ d.elements \in Seq(Element)
    BY <1>1 DEF Shape, Kept
  <2> QED BY <1>2, <1>10, <1>11, <2>1, SeqEqual DEF m
<1> QED BY <1>9, <1>12

LEMMA FilesStart == InitFiles => FilesInv
  BY MeshStarts DEF InitFiles, FilesInv

LEMMA FilesKept == FilesInv /\ [FilesNext]_filesVars => FilesInv'
<1> SUFFICES ASSUME FilesInv, [FilesNext]_filesVars PROVE FilesInv'
  OBVIOUS
<1>1. MeshInv /\ \A d \in disk : Kept(d)
  BY DEF FilesInv
<1>2. ASSUME [Next]_vars, UNCHANGED disk PROVE FilesInv'
  BY <1>1, <1>2, MeshKept DEF FilesInv, Kept
<1>3. ASSUME NEW format \in {"Adcirc", "2DM", "DFlow"}, Write(format) PROVE FilesInv'
  <2>1. MeshInv'
    BY <1>1, <1>3, Untouched DEF Write, OnlyFile
  <2>2. CASE AllSound
    <3> DEFINE d == [file |-> Written(format, nodes, elements),
                     nodes |-> nodes, elements |-> elements]
    <3>1. disk' = {d}
      BY <1>3, <2>2 DEF Write
    <3>2. nodes \in Seq(Nat) /\ elements \in Seq(Element)
      BY <1>1 DEF MeshInv, Shape
    <3>3. \A i \in 1..Len(elements) : elements[i].verts \subseteq 1..Len(nodes)
      BY <2>2, <3>2, LenProperties DEF AllSound, Sound
    <3>4. Written(format, nodes, elements).format = format
      BY DEF Written
    <3>5. d.file.format = format /\ d.file = Written(format, nodes, elements)
          /\ d.nodes = nodes /\ d.elements = elements
      BY <3>4
    <3> HIDE DEF d
    <3>6. Kept(d)
      BY <3>2, <3>3, <3>5 DEF Kept
    <3> QED BY <2>1, <3>1, <3>6 DEF FilesInv, Kept
  <2>3. CASE ~AllSound
    <3>1. disk' = disk
      BY <1>3, <2>3 DEF Write
    <3> QED BY <1>1, <2>1, <3>1 DEF FilesInv, Kept
  <2> QED BY <2>2, <2>3
<1>4. CASE WriteUnknown
  <2>1. MeshInv'
    BY <1>1, <1>4, Untouched DEF WriteUnknown, Reject
  <2> QED BY <1>1, <1>4, <2>1 DEF WriteUnknown, FilesInv, Kept
<1>5. CASE ReadBack
  <2>1. PICK d \in disk : ReadAdcirc(d.file) \/ Read2dm(d.file) \/ ReadDFlow(d.file)
    BY <1>5 DEF ReadBack
  <2>2. d.file \in Legible
    BY <1>1, KeptIs
  <2>3. MeshInv'
    BY <1>1, <2>1, <2>2, FileRead
  <2> QED BY <1>1, <1>5, <2>3 DEF ReadBack, FilesInv, Kept
<1>6. CASE Anew
  <2>1. /\ nodes' = <<>> /\ elements' = <<>> /\ nodeLookup' = <<>>
        /\ source' = {} /\ held' = {} /\ disk' = disk
    BY <1>6 DEF Anew
  <2>2. LookupTyped(nodeLookup')
    BY <2>1 DEF LookupTyped
  <2>3. MeshInv'
    BY <2>1, <2>2, EmptySeq
       DEF MeshInv, Shape, VerticesLive, ReadFaithful, FoundByNumber, SourceHeld, Leads
  <2> QED BY <1>1, <2>1, <2>3 DEF FilesInv, Kept
<1> QED BY <1>2, <1>3, <1>4, <1>5, <1>6 DEF FilesNext, Change, Next, filesVars

(* A mesh written and read back, with whatever came in between, is the mesh *)
(* it was; in the three formats write() knows.                              *)
THEOREM TripRestoresAlways == FilesSpec => []TripRestores
<1>1. InitFiles => FilesInv
  BY FilesStart
<1>2. FilesInv /\ [FilesNext]_filesVars => FilesInv'
  BY FilesKept
<1>3. FilesInv => TripRestores
  BY TripBack
<1> QED BY <1>1, <1>2, <1>3, PTL DEF FilesSpec
-----------------------------------------------------------------------------
(* The table and what the checks find, with files written in between. *)

FilesSafe == FilesInv /\ TableInv /\ MeshSafe

LEMMA FilesSafeStart == InitFiles => FilesSafe
<1>1. Init => MeshSafe
  BY DEF Init, MeshSafe, OverlapsFound, DeathExplained
<1> QED BY <1>1, FilesStart, TableStarts DEF InitFiles, FilesSafe

LEMMA FilesSafeKept == FilesSafe /\ [FilesNext]_filesVars => FilesSafe'
<1> SUFFICES ASSUME FilesSafe, [FilesNext]_filesVars PROVE TableInv' /\ MeshSafe'
  BY FilesKept DEF FilesSafe
<1>1. MeshInv /\ TableInv /\ MeshSafe /\ \A d \in disk : Kept(d)
  BY DEF FilesSafe, FilesInv
<1>2. CASE [Next]_vars
  BY <1>1, <1>2, TableKept, SafeKept
<1>3. ASSUME NEW format \in {"Adcirc", "2DM", "DFlow"}, Write(format)
      PROVE  TableInv' /\ MeshSafe'
  <2>1. UNCHANGED <<stores, around>>
    BY <1>3 DEF Write, OnlyFile
  <2>2. TableInv'
    BY <1>1, <2>1, TableStays DEF stores
  <2>3. CASE AllSound
    <3>1. ret' \notin {"checked", "dead"}
      BY <1>3, <2>3 DEF Write
    <3> QED BY <2>2, <3>1, EndsSafe
  <2>4. CASE ~AllSound
    <3>1. ret' = "dead" /\ ~AllSound'
      BY <1>3, <2>1, <2>4 DEF Write, AllSound, Sound, stores
    <3> QED BY <2>2, <3>1 DEF MeshSafe, OverlapsFound, DeathExplained
  <2> QED BY <2>3, <2>4
<1>4. CASE WriteUnknown
  <2>1. UNCHANGED <<stores, around>> /\ ret' \notin {"checked", "dead"}
    BY <1>4 DEF WriteUnknown, Reject
  <2> QED BY <1>1, <2>1, TableStays, EndsSafe DEF stores
<1>5. CASE ReadBack
  <2>1. PICK d \in disk : ReadAdcirc(d.file) \/ Read2dm(d.file) \/ ReadDFlow(d.file)
    BY <1>5 DEF ReadBack
  <2>2. d.file \in Legible
    BY <1>1, KeptIs DEF FilesInv
  <2>3. ret' # "checked" /\ (ret' = "dead" => ~AllSound')
    BY <2>1, <2>2, ReadEnds
  <2>4. TableInv'
    BY <1>1, <2>1, <2>2, ReadAges
  <2> QED BY <2>3, <2>4 DEF MeshSafe, OverlapsFound, DeathExplained
<1>6. CASE Anew
  <2>1. /\ elementTable' = <<>> /\ initialized' = FALSE /\ table' = "unbuilt"
        /\ ret' \notin {"checked", "dead"}
    BY <1>6 DEF Anew
  <2>2. DOMAIN <<>> = {}
    OBVIOUS
  <2> QED BY <2>1, <2>2, EndsSafe DEF TableInv
<1> QED BY <1>2, <1>3, <1>4, <1>5, <1>6 DEF FilesNext, Change, Next, filesVars

LEMMA TableIsExact == FilesSafe => TableExact
<1> SUFFICES ASSUME FilesSafe, table = "once", NEW n \in 1..Len(nodes)
             PROVE  LET list == IF n \in DOMAIN elementTable THEN elementTable[n] ELSE <<>> IN
                    /\ {list[k] : k \in DOMAIN list} = {i \in DOMAIN elements : n \in elements[i].verts}
                    /\ \A j, k \in DOMAIN list : j < k => list[j] < list[k]
  BY DEF TableExact
<1>1. n \in Nat \ {Nowhere}
  BY DEF Nowhere
<1>2. Exact(n)
  BY <1>1 DEF FilesSafe, TableInv
<1> QED BY <1>2 DEF Exact, List, On, Rising

LEMMA FilesAlwaysSafe == FilesSpec => []FilesSafe
<1>1. InitFiles => FilesSafe
  BY FilesSafeStart
<1>2. FilesSafe /\ [FilesNext]_filesVars => FilesSafe'
  BY FilesSafeKept
<1> QED BY <1>1, <1>2, PTL DEF FilesSpec

(* A table built once on a mesh that has not changed since lists under each *)
(* node the elements around it, each once and in order.                     *)
THEOREM TableExactAlways == FilesSpec => []TableExact
<1>1. FilesSafe => TableExact
  BY TableIsExact
<1> QED BY <1>1, FilesAlwaysSafe, PTL

(* A mesh that checkMesh() passed has no edge of more than two elements,    *)
(* whatever an older table left in the lists it counts.                     *)
THEOREM OverlapsFoundAlways == FilesSpec => []OverlapsFound
<1>1. FilesSafe => OverlapsFound
  BY DEF FilesSafe, MeshSafe
<1> QED BY <1>1, FilesAlwaysSafe, PTL

(* The process dies only of an element that lost its vertices, a table that *)
(* kept elements through a change or was never built, or an old lookup.     *)
THEOREM MeshDeathExplained == FilesSpec => []DeathExplained
<1>1. FilesSafe => DeathExplained
  BY DEF FilesSafe, MeshSafe
<1> QED BY <1>1, FilesAlwaysSafe, PTL

(* What is proved of the calls of one object holds as well where files are  *)
(* written and read back and the caller goes on with another object.        *)
THEOREM FilesKeepMesh == FilesSpec => [](VerticesLive /\ ReadFaithful /\ FoundByNumber)
<1>1. FilesSafe => VerticesLive /\ ReadFaithful /\ FoundByNumber
  BY DEF FilesSafe, FilesInv, MeshInv
<1> QED BY <1>1, FilesAlwaysSafe, PTL

-----------------------------------------------------------------------------
(***************************************************************************)
(* The search trees of a mesh, over the mesh proved about above: an edit   *)
(* that takes nothing away leaves no vector shorter.                       *)
(***************************************************************************)

TreeTyped(tree) == tree.state \in {"empty", "null", "built"} /\ tree.points \in Nat

(* A tree is gone only after it was built or deleted by hand. *)
TreesThere ==
  nodalSearchTree.state = "null" \/ elementalSearchTree.state = "null" => handled

SearchInv ==
  /\ MeshInv
  /\ TreeTyped(nodalSearchTree)
  /\ TreeTyped(elementalSearchTree)
  /\ TreesFit
  /\ TreesThere
  /\ SearchDeathExplained

LEMMA TreesMade ==
  /\ TreeTyped(EmptyTree) /\ EmptyTree.state = "empty" /\ EmptyTree.points = 0
  /\ TreeTyped(NullTree) /\ NullTree.state = "null" /\ NullTree.points = 0
  /\ \A n \in Nat : TreeTyped(Built(n)) /\ Built(n).state = "built" /\ Built(n).points = n
  BY DEF TreeTyped, EmptyTree, NullTree, Built

(* A tree a call made anew holds the points of now, or none. *)
LEMMA TreeCalls ==
  ASSUME NEW tree, TreeTyped(tree), NEW n \in Nat
  PROVE  /\ TreeTyped(Rebuilt(tree, n)) /\ Rebuilt(tree, n).points \in {0, n}
         /\ TreeTyped(Searched(tree, n)) /\ Searched(tree, n).points \in {n, tree.points}
         /\ Searched(tree, n).state = "null" <=> tree.state = "null"
  BY TreesMade DEF Rebuilt, Searched, TreeTyped

LEMMA SearchStarts == InitSearch => SearchInv
<1> SUFFICES ASSUME InitSearch PROVE SearchInv
  OBVIOUS
<1>1. MeshInv
  BY MeshStarts DEF InitSearch
<1>2. nodes = <<>> /\ elements = <<>> /\ ret = "none"
  BY DEF InitSearch, Init
<1>3. nodalSearchTree = EmptyTree /\ elementalSearchTree = EmptyTree
  BY DEF InitSearch
<1>4. Len(nodes) = 0 /\ Len(elements) = 0
  BY <1>2, EmptySeq
<1> QED BY <1>1, <1>2, <1>3, <1>4, TreesMade
        DEF SearchInv, TreesFit, TreesThere, SearchDeathExplained

LEMMA ReadMeshKeeps ==
  ASSUME SearchInv, ReadMesh
  PROVE  SearchInv'
<1>1. MeshInv'
  BY ReadKept DEF SearchInv, ReadMesh
<1>2. /\ nodalSearchTree' = EmptyTree /\ elementalSearchTree' = EmptyTree
      /\ ret' = "dead" => ~AllSound'
  BY MeshAssumption, ReadEnds DEF ReadMesh, NewTrees, Read
<1>3. Len(nodes)' \in Nat /\ Len(elements)' \in Nat
  BY <1>1, LenProperties DEF MeshInv, Shape
<1> QED BY <1>1, <1>2, <1>3, TreesMade
        DEF SearchInv, TreesFit, TreesThere, SearchDeathExplained, TreeTyped

LEMMA EditMeshKeeps ==
  ASSUME SearchInv, EditMesh
  PROVE  SearchInv'
<1>1. MeshInv /\ Edit /\ UNCHANGED <<trees, handled>>
  BY DEF SearchInv, EditMesh
<1>2. UNCHANGED <<stores, numbers, since>> \/ EditDone
  BY <1>1, EditKept
<1>3. MeshInv'
  BY <1>1, <1>2, EditEnds, Untouched
<1>4. ~taken' => ~taken /\ Len(nodes) <= Len(nodes') /\ Len(elements) <= Len(elements')
  <2>1. Len(nodes) \in Nat /\ Len(elements) \in Nat
    BY <1>1, Sized DEF Sizable
  <2>2. CASE UNCHANGED <<stores, numbers, since>>
    BY <2>1, <2>2 DEF stores, since
  <2>3. CASE EditDone
    BY <2>3 DEF EditDone
  <2> QED BY <1>2, <2>2, <2>3
<1>5. ret' # "dead"
  BY <1>1 DEF Edit, AddNode, DeleteNode, AddElement, DeleteElement, ResizeMesh, Reject, Edited
<1>6. nodalSearchTree' = nodalSearchTree /\ elementalSearchTree' = elementalSearchTree
      /\ handled' = handled
  BY <1>1 DEF trees
<1>7. TreesFit'
  <2>1. Len(nodes) \in Nat /\ Len(elements) \in Nat /\ Len(nodes)' \in Nat /\ Len(elements)' \in Nat
    BY <1>1, <1>3, LenProperties DEF MeshInv, Shape
  <2>2. nodalSearchTree.points \in Nat /\ elementalSearchTree.points \in Nat /\ TreesFit
    BY DEF SearchInv, TreeTyped
  <2> QED BY <1>4, <1>6, <2>1, <2>2 DEF TreesFit
<1> QED BY <1>3, <1>5, <1>6, <1>7 DEF SearchInv, TreesThere, SearchDeathExplained

(* The calls that only touch the trees leave the mesh as it was. *)
LEMMA MeshUnderTrees ==
  ASSUME SearchInv, OnlyTrees
  PROVE  /\ MeshInv' /\ nodes' = nodes /\ elements' = elements /\ taken' = taken
         /\ AllSound' = AllSound
         /\ Len(nodes) \in Nat /\ Len(elements) \in Nat
<1>1. MeshInv'
  BY Untouched DEF SearchInv, OnlyTrees
<1>2. nodes' = nodes /\ elements' = elements /\ taken' = taken
  BY DEF OnlyTrees, stores, since
<1>3. AllSound' = AllSound
  BY <1>2 DEF AllSound, Sound
<1>4. Len(nodes) \in Nat /\ Len(elements) \in Nat
  BY Sized DEF SearchInv, Sizable
<1> QED BY <1>1, <1>2, <1>3, <1>4

LEMMA NodalTreeKeeps ==
  ASSUME SearchInv, BuildNodalSearchTree \/ DeleteNodalSearchTree \/ FindNearestNode
  PROVE  SearchInv'
<1>1. OnlyTrees /\ elementalSearchTree' = elementalSearchTree
  BY DEF BuildNodalSearchTree, DeleteNodalSearchTree, FindNearestNode, ByHand, InSearch
<1>2. /\ MeshInv' /\ nodes' = nodes /\ elements' = elements /\ taken' = taken
      /\ AllSound' = AllSound /\ Len(nodes) \in Nat /\ Len(elements) \in Nat
  BY <1>1, MeshUnderTrees
<1>3. /\ TreeTyped(nodalSearchTree) /\ TreeTyped(elementalSearchTree)
      /\ TreesFit /\ TreesThere /\ SearchDeathExplained
  BY DEF SearchInv
<1>4. /\ TreeTyped(nodalSearchTree)'
      /\ nodalSearchTree'.points \in {0, Len(nodes), nodalSearchTree.points}
      /\ handled' \/ (/\ handled' = handled
                      /\ nodalSearchTree'.state = "null" <=> nodalSearchTree.state = "null"
                      /\ ret' = "dead" => nodalSearchTree.state = "null")
  <2>1. CASE BuildNodalSearchTree
    BY <1>2, <1>3, <2>1, TreeCalls DEF BuildNodalSearchTree, ByHand, TreeTyped
  <2>2. CASE DeleteNodalSearchTree
    BY <1>3, <2>2, TreesMade DEF DeleteNodalSearchTree, ByHand, TreeTyped
  <2>3. CASE FindNearestNode
    BY <1>2, <1>3, <2>3, TreeCalls DEF FindNearestNode, InSearch, TreeTyped
  <2> QED BY <2>1, <2>2, <2>3
<1>5. TreesFit'
  BY <1>1, <1>2, <1>3, <1>4 DEF TreesFit, TreeTyped
<1>6. TreesThere' /\ SearchDeathExplained'
  BY <1>1, <1>3, <1>4 DEF TreesThere, SearchDeathExplained
<1> QED BY <1>1, <1>2, <1>3, <1>4, <1>5, <1>6 DEF SearchInv

LEMMA ElementalTreeKeeps ==
  ASSUME SearchInv,
         \/ BuildElementalSearchTree \/ DeleteElementalSearchTree
         \/ FindElement \/ FindNearestElement
  PROVE  SearchInv'
<1>1. OnlyTrees /\ nodalSearchTree' = nodalSearchTree
  BY DEF BuildElementalSearchTree, DeleteElementalSearchTree, FindElement,
         FindNearestElement, ByHand, InSearch
<1>2. /\ MeshInv' /\ nodes' = nodes /\ elements' = elements /\ taken' = taken
      /\ AllSound' = AllSound /\ Len(nodes) \in Nat /\ Len(elements) \in Nat
  BY <1>1, MeshUnderTrees
<1>3. /\ TreeTyped(nodalSearchTree) /\ TreeTyped(elementalSearchTree)
      /\ TreesFit /\ TreesThere /\ SearchDeathExplained
  BY DEF SearchInv
<1>4. /\ TreeTyped(elementalSearchTree)'
      /\ elementalSearchTree'.points \in {0, Len(elements), elementalSearchTree.points}
      /\ handled' \/ (/\ handled' = handled
                      /\ elementalSearchTree'.state = "null" <=> elementalSearchTree.state = "null"
                      /\ ret' = "dead" => elementalSearchTree.state = "null" \/ ~AllSound)
  <2>1. CASE BuildElementalSearchTree
    BY <1>2, <1>3, <2>1, TreeCalls DEF BuildElementalSearchTree, ByHand, TreeTyped
  <2>2. CASE DeleteElementalSearchTree
    BY <1>3, <2>2, TreesMade DEF DeleteElementalSearchTree, ByHand, TreeTyped
  <2>3. CASE FindElement
    BY <1>2, <1>3, <2>3, TreeCalls DEF FindElement, InSearch, TreeTyped, ElementsRead
  <2>4. CASE FindNearestElement
    BY <1>2, <1>3, <2>4, TreeCalls DEF FindNearestElement, InSearch, TreeTyped, ElementsRead
  <2> QED BY <2>1, <2>2, <2>3, <2>4
<1>5. TreesFit'
  BY <1>1, <1>2, <1>3, <1>4 DEF TreesFit, TreeTyped
<1>6. TreesThere' /\ SearchDeathExplained'
  BY <1>1, <1>2, <1>3, <1>4 DEF TreesThere, SearchDeathExplained
<1> QED BY <1>1, <1>2, <1>3, <1>4, <1>5, <1>6 DEF SearchInv

LEMMA SearchKept == SearchInv /\ [NextSearch]_searchVars => SearchInv'
<1> SUFFICES ASSUME SearchInv, [NextSearch]_searchVars PROVE SearchInv'
  OBVIOUS
<1>1. CASE UNCHANGED searchVars
  <2>1. MeshInv'
    BY <1>1, Untouched DEF searchVars, vars, SearchInv
  <2>2. /\ nodes' = nodes /\ elements' = elements /\ taken' = taken /\ ret' = ret
        /\ nodalSearchTree' = nodalSearchTree /\ elementalSearchTree' = elementalSearchTree
        /\ handled' = handled
    BY <1>1 DEF searchVars, vars, trees, stores, since
  <2> QED BY <2>1, <2>2 DEF SearchInv, TreeTyped, TreesFit, TreesThere,
                            SearchDeathExplained, AllSound, Sound
<1> QED BY <1>1, ReadMeshKeeps, EditMeshKeeps, NodalTreeKeeps, ElementalTreeKeeps DEF NextSearch

(* The invariant of a mesh and its trees. *)
THEOREM SearchInvariant == SearchSpec => []SearchInv
<1>1. InitSearch => SearchInv
  BY SearchStarts
<1>2. SearchInv /\ [NextSearch]_searchVars => SearchInv'
  BY SearchKept
<1> QED BY <1>1, <1>2, PTL DEF SearchSpec

(* A search answers with no position past the end of the nodes or the       *)
(* elements unless some were taken away since the last read().              *)
THEOREM TreesFitAlways == SearchSpec => []TreesFit
<1>1. SearchInv => TreesFit
  BY DEF SearchInv
<1> QED BY <1>1, SearchInvariant, PTL

(* While every element has its vertices, the process dies in a search or in *)
(* the handling of a tree only after a tree was built or deleted by hand.   *)
THEOREM SearchDeathExplainedAlways == SearchSpec => []SearchDeathExplained
<1>1. SearchInv => SearchDeathExplained
  BY DEF SearchInv
<1> QED BY <1>1, SearchInvariant, PTL
=============================================================================
