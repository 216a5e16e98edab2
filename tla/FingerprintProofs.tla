-------------------------- MODULE FingerprintProofs --------------------------
(***************************************************************************)
(* What the cached hashes of Fingerprint are worth, for every mesh, every  *)
(* projection and every order of calls.                                    *)
(*                                                                         *)
(* Asking for a hash moves nothing (Asked); an edit names itself among the *)
(* causes, and with it gives up what it no longer keeps.                   *)
(***************************************************************************)
EXTENDS Fingerprint, SequenceTheorems, TLAPS

NodeTexts   == [type : Types, place : Places, depth : Depths]
NodeStates  == [place : Places, depth : Depths, hash : Seq(NodeTexts), position : Seq(Places)]
ChainTexts  == [type : Types, positions : Seq(Seq(Places))]
ChainStates(N) == [nodes : N, hash : Seq(ChainTexts)]
Digests == [type : Types, nodes : [Nodes -> Seq(NodeTexts)],
            elements : Seq(Seq(ChainTexts)), boundaries : Seq(Seq(ChainTexts))]
MeshStates == [hash : Seq(Digests), type : Types]

(* The calls keep the shape of the objects. *)
TypeOKFingerprint ==
  /\ node \in [Nodes -> NodeStates]
  /\ element \in Seq(ChainStates(Triangles))
  /\ boundary \in Seq(ChainStates(Chains))
  /\ mesh \in MeshStates
  /\ causes \subseteq {"moved", "replaced", "relinked", "rebounded", "retyped"}

(* What is cached, of whichever type, is of what is there. *)
NodesSay == \A n \in Nodes : /\ Position(node[n]) = <<node[n].place>>
                             /\ node[n].hash # NoHash => \E t \in Types : node[n].hash = <<NodeText(n, t)>>
ElementsSay == \A i \in DOMAIN element : element[i].hash # NoHash =>
                 \E t \in Types : element[i].hash = <<ChainText(element[i].nodes, t, Exact)>>
BoundariesSay == \A i \in DOMAIN boundary : boundary[i].hash # NoHash =>
                   \E t \in Types : boundary[i].hash = <<ChainText(boundary[i].nodes, t, Exact)>>
MeshSays ==
  mesh.hash # NoHash =>
    LET d == mesh.hash[1]
    IN  /\ d.type = mesh.type
        /\ \A n \in Nodes : \E t \in Types : d.nodes[n] = <<NodeText(n, t)>>
        /\ \A i \in DOMAIN element :
             \E t \in Types : d.elements[i] = <<ChainText(element[i].nodes, t, Exact)>>
        /\ \A i \in DOMAIN boundary :
             \E t \in Types : d.boundaries[i] = <<ChainText(boundary[i].nodes, t, Exact)>>

SayWhatIsThere ==
  /\ "moved" \notin causes => NodesSay
  /\ causes \cap {"moved", "replaced"} = {} => BoundariesSay
  /\ causes \cap {"moved", "replaced", "relinked"} = {} => ElementsSay
  /\ causes = {} => MeshSays

(* The inductive invariant. *)
IInv == TypeOKFingerprint /\ SayWhatIsThere

-----------------------------------------------------------------------------
(* The digests. *)

LEMMA PositionType ==
  ASSUME NEW x \in NodeStates
  PROVE  Position(x) \in Seq(Places) /\ <<x.place>> \in Seq(Places)
<1>1. x.place \in Places /\ x.position \in Seq(Places)
  BY DEF NodeStates
<1>2. <<x.place>> \in Seq(Places)
  BY <1>1
<1> QED BY <1>1, <1>2 DEF Position

LEMMA NodeTextType ==
  ASSUME TypeOKFingerprint, NEW n \in Nodes, NEW t \in Types
  PROVE  NodeText(n, t) \in NodeTexts /\ <<NodeText(n, t)>> \in Seq(NodeTexts)
<1>1. node[n] \in NodeStates
  BY DEF TypeOKFingerprint
<1>2. NodeText(n, t) \in NodeTexts
  BY <1>1 DEF NodeText, NodeTexts, NodeStates
<1> QED BY <1>2

(* Triangles and boundaries are chains of nodes. *)
LEMMA ChainType ==
  ASSUME NEW chain, chain \in Triangles \/ chain \in Chains
  PROVE  /\ \E k \in Nat : DOMAIN chain = 1..k
         /\ \A i \in DOMAIN chain : chain[i] \in Nodes
BY FingerprintAssumption DEF Triangles, Chains

LEMMA ChainTextType ==
  ASSUME NEW chain, chain \in Triangles \/ chain \in Chains, NEW t \in Types,
         NEW at \in [Nodes -> Seq(Places)]
  PROVE  ChainText(chain, t, at) \in ChainTexts /\ <<ChainText(chain, t, at)>> \in Seq(ChainTexts)
<1>1. PICK k \in Nat : DOMAIN chain = 1..k
  BY ChainType
<1>2. \A i \in 1..k : at[chain[i]] \in Seq(Places)
  BY <1>1, ChainType
<1>3. [i \in 1..k |-> at[chain[i]]] \in Seq(Seq(Places))
  BY <1>2, IsASeq
<1>4. ChainText(chain, t, at) = [type |-> t, positions |-> [i \in 1..k |-> at[chain[i]]]]
  BY <1>1 DEF ChainText
<1>5. ChainText(chain, t, at) \in ChainTexts
  BY <1>3, <1>4 DEF ChainTexts
<1> QED BY <1>5

LEMMA CachedType ==
  ASSUME TypeOKFingerprint
  PROVE  /\ Cached \in [Nodes -> Seq(Places)] /\ Exact \in [Nodes -> Seq(Places)]
         /\ NodesSay => Cached = Exact
<1>1. \A n \in Nodes : Position(node[n]) \in Seq(Places) /\ <<node[n].place>> \in Seq(Places)
  BY PositionType DEF TypeOKFingerprint
<1>2. Cached \in [Nodes -> Seq(Places)]
  BY <1>1 DEF Cached
<1>3. Exact \in [Nodes -> Seq(Places)]
  BY <1>1 DEF Exact
<1>4. ASSUME NodesSay PROVE Cached = Exact
  <2>1. \A n \in Nodes : Position(node[n]) = <<node[n].place>>
    BY <1>4 DEF NodesSay
  <2> QED BY <2>1 DEF Cached, Exact
<1> QED BY <1>2, <1>3, <1>4

(* Two digests of a chain are one exactly when each node is at one place in both. *)
LEMMA ChainTextEqual ==
  ASSUME NEW chain, chain \in Triangles \/ chain \in Chains, NEW t, NEW at, NEW as,
         ChainText(chain, t, at) = ChainText(chain, t, as)
  PROVE  \A n \in On(chain) : at[n] = as[n]
<1>1. [i \in DOMAIN chain |-> at[chain[i]]] = [i \in DOMAIN chain |-> as[chain[i]]]
  BY DEF ChainText
<1> SUFFICES ASSUME NEW n \in On(chain) PROVE at[n] = as[n]
  OBVIOUS
<1>2. PICK i \in DOMAIN chain : n = chain[i]
  BY DEF On
<1>3. [j \in DOMAIN chain |-> at[chain[j]]][i] = [j \in DOMAIN chain |-> as[chain[j]]][i]
  BY <1>1
<1>4. at[chain[i]] = as[chain[i]]
  BY <1>3
<1> QED BY <1>2, <1>4

LEMMA ChainTextSame ==
  ASSUME NEW chain, NEW t, NEW at, NEW as, \A n \in On(chain) : at[n] = as[n]
  PROVE  ChainText(chain, t, at) = ChainText(chain, t, as)
<1>1. \A i \in DOMAIN chain : at[chain[i]] = as[chain[i]]
  BY DEF On
<1> QED BY <1>1 DEF ChainText

-----------------------------------------------------------------------------
(* Asking. *)

(* Nodes stay where they are; a hash that is new is of what is there. *)
NodesStay ==
  \A n \in Nodes :
    /\ node'[n] \in NodeStates
    /\ node'[n].place = node[n].place /\ node'[n].depth = node[n].depth
    /\ Position(node'[n]) = Position(node[n]) \/ Position(node'[n]) = <<node[n].place>>
    /\ node'[n].hash = node[n].hash \/ \E t \in Types : node'[n].hash = <<NodeText(n, t)>>

ChainsStay(new, old) ==
  /\ DOMAIN new = DOMAIN old
  /\ \A i \in DOMAIN old :
       /\ new[i].nodes = old[i].nodes
       /\ new[i].hash = old[i].hash \/ \E t \in Types : new[i].hash = <<ChainText(old[i].nodes, t, Cached)>>

LEMMA SamePlaces ==
  ASSUME NodesStay
  PROVE  Exact' = Exact /\ \A n \in Nodes, t \in Types : NodeText(n, t)' = NodeText(n, t)
BY DEF NodesStay, Exact, NodeText

LEMMA AskedSay ==
  ASSUME IInv, NodesStay, causes \subseteq causes'
  PROVE  /\ ("moved" \notin causes => NodesSay)'
         /\ ChainsStay(boundary', boundary) => (causes \cap {"moved", "replaced"} = {} => BoundariesSay)'
         /\ ChainsStay(element', element) =>
              (causes \cap {"moved", "replaced", "relinked"} = {} => ElementsSay)'
<1>1. Exact' = Exact /\ \A n \in Nodes, t \in Types : NodeText(n, t)' = NodeText(n, t)
  BY SamePlaces
<1>2. "moved" \notin causes => Cached = Exact
  BY CachedType DEF IInv, SayWhatIsThere
<1>3. ASSUME "moved" \notin causes' PROVE NodesSay'
  <2>1. NodesSay
    BY <1>3 DEF IInv, SayWhatIsThere
  <2> QED BY <1>1, <2>1 DEF NodesSay, NodesStay
<1>4. ASSUME causes' \cap {"moved", "replaced"} = {}, ChainsStay(boundary', boundary) PROVE BoundariesSay'
  <2>1. BoundariesSay /\ Cached = Exact
    BY <1>2, <1>4 DEF IInv, SayWhatIsThere
  <2> QED BY <1>1, <1>4, <2>1 DEF BoundariesSay, ChainsStay
<1>5. ASSUME causes' \cap {"moved", "replaced", "relinked"} = {}, ChainsStay(element', element) PROVE ElementsSay'
  <2>1. ElementsSay /\ Cached = Exact
    BY <1>2, <1>5 DEF IInv, SayWhatIsThere
  <2> QED BY <1>1, <1>5, <2>1 DEF ElementsSay, ChainsStay
<1> QED BY <1>3, <1>4, <1>5

LEMMA Asked ==
  ASSUME IInv, TypeOKFingerprint', NodesStay, ChainsStay(element', element),
         ChainsStay(boundary', boundary), causes' = causes, mesh' = mesh
  PROVE  IInv'
<1>1. Exact' = Exact /\ \A n \in Nodes, t \in Types : NodeText(n, t)' = NodeText(n, t)
  BY SamePlaces
<1>2. ASSUME causes = {} PROVE MeshSays'
  <2>1. MeshSays
    BY <1>2 DEF IInv, SayWhatIsThere
  <2> QED BY <1>1, <2>1 DEF MeshSays, ChainsStay
<1>3. /\ ("moved" \notin causes => NodesSay)'
      /\ (causes \cap {"moved", "replaced"} = {} => BoundariesSay)'
      /\ (causes \cap {"moved", "replaced", "relinked"} = {} => ElementsSay)'
  BY AskedSay
<1> QED BY <1>2, <1>3 DEF IInv, SayWhatIsThere

LEMMA ChainsStayThemselves == ASSUME NEW s PROVE ChainsStay(s, s)
BY DEF ChainsStay

LEMMA NodeHashKeeps ==
  ASSUME IInv, NEW n \in Nodes, NEW t \in Types, NEW force \in BOOLEAN, NodeHash(n, t, force)
  PROVE  IInv'
<1>1. /\ node' = [node EXCEPT ![n] = Made(@, NodeText(n, t), force)]
      /\ element' = element /\ boundary' = boundary /\ mesh' = mesh /\ causes' = causes
  BY DEF NodeHash, Call
<1>2. TypeOKFingerprint /\ node[n] \in NodeStates /\ <<NodeText(n, t)>> \in Seq(NodeTexts)
  BY NodeTextType DEF IInv, TypeOKFingerprint
<1> DEFINE x == Made(node[n], NodeText(n, t), force)
<1>3. /\ x \in NodeStates /\ x.place = node[n].place /\ x.depth = node[n].depth
      /\ x.position = node[n].position
      /\ x.hash = node[n].hash \/ x.hash = <<NodeText(n, t)>>
  BY <1>2 DEF Made, NodeStates
<1> HIDE DEF x
<1>4. node' = [node EXCEPT ![n] = x]
  BY <1>1 DEF x
<1>5. TypeOKFingerprint'
  BY <1>1, <1>2, <1>3, <1>4 DEF TypeOKFingerprint
<1>6. NodesStay
  BY <1>2, <1>3, <1>4 DEF TypeOKFingerprint, NodesStay, Position
<1> QED BY <1>1, <1>5, <1>6, Asked, ChainsStayThemselves

LEMMA PositionHashKeeps ==
  ASSUME IInv, NEW n \in Nodes, NEW force \in BOOLEAN, PositionHash(n, force)
  PROVE  IInv'
<1> DEFINE p == IF force THEN <<node[n].place>> ELSE Position(node[n])
           x == [node[n] EXCEPT !.position = p]
<1>1. /\ node' = [node EXCEPT ![n].position = p]
      /\ element' = element /\ boundary' = boundary /\ mesh' = mesh /\ causes' = causes
  BY DEF PositionHash, Call
<1>2. TypeOKFingerprint /\ node[n] \in NodeStates /\ p \in Seq(Places)
  BY PositionType DEF IInv, TypeOKFingerprint
<1>3. p # NoHash /\ (p = Position(node[n]) \/ p = <<node[n].place>>)
  BY DEF Position, NoHash
<1> HIDE DEF p
<1>4. /\ x \in NodeStates /\ x.place = node[n].place /\ x.depth = node[n].depth
      /\ x.hash = node[n].hash /\ x.position = p
  BY <1>2 DEF NodeStates
<1>5. node' = [node EXCEPT ![n] = x]
  BY <1>1
<1> HIDE DEF x
<1>6. TypeOKFingerprint'
  BY <1>1, <1>2, <1>4, <1>5 DEF TypeOKFingerprint
<1>7. Position(x) = p
  BY <1>3, <1>4 DEF Position
<1>8. NodesStay
  BY <1>2, <1>3, <1>4, <1>5, <1>7 DEF TypeOKFingerprint, NodesStay
<1> QED BY <1>1, <1>6, <1>8, Asked, ChainsStayThemselves

(* Hashing chains leaves the nodes where they are. *)
LEMMA PositionedStay ==
  ASSUME TypeOKFingerprint, NEW set
  PROVE  /\ Positioned(set) \in [Nodes -> NodeStates]
         /\ \A n \in Nodes :
              /\ Positioned(set)[n].place = node[n].place /\ Positioned(set)[n].depth = node[n].depth
              /\ Positioned(set)[n].hash = node[n].hash
              /\ Position(Positioned(set)[n]) = Position(node[n])
<1> SUFFICES ASSUME NEW n \in Nodes
             PROVE  /\ Positioned(set)[n] \in NodeStates
                    /\ Positioned(set)[n].place = node[n].place /\ Positioned(set)[n].depth = node[n].depth
                    /\ Positioned(set)[n].hash = node[n].hash
                    /\ Position(Positioned(set)[n]) = Position(node[n])
  BY DEF Positioned
<1> DEFINE p == Position(node[n])
           x == [node[n] EXCEPT !.position = p]
<1>1. node[n] \in NodeStates /\ p \in Seq(Places) /\ p # NoHash
  <2>1. node[n] \in NodeStates
    BY DEF TypeOKFingerprint
  <2> QED BY <2>1, PositionType DEF Position, NoHash
<1>2. Positioned(set)[n] = x \/ Positioned(set)[n] = node[n]
  BY DEF Positioned
<1> HIDE DEF p
<1>3. /\ x \in NodeStates /\ x.place = node[n].place /\ x.depth = node[n].depth
      /\ x.hash = node[n].hash /\ x.position = p
  BY <1>1 DEF NodeStates
<1> HIDE DEF x
<1>4. Position(x) = p
  BY <1>1, <1>3 DEF Position
<1> QED BY <1>1, <1>2, <1>3, <1>4 DEF p

(* A hash that is made is of the nodes as they are cached, and is there. *)
(* What Made() leaves of x when asked for the given text. *)
MadeOf(y, x, text, force) ==
  /\ y.nodes = x.nodes /\ y.hash # NoHash
  /\ y.hash = x.hash \/ y.hash = <<text>>
  /\ force => y.hash = <<text>>

LEMMA ChainMade ==
  ASSUME TypeOKFingerprint, NEW N, N = Triangles \/ N = Chains,
         NEW x \in ChainStates(N), NEW t \in Types, NEW force \in BOOLEAN
  PROVE  /\ Made(x, ChainText(x.nodes, t, Cached), force) \in ChainStates(N)
         /\ MadeOf(Made(x, ChainText(x.nodes, t, Cached), force), x, ChainText(x.nodes, t, Cached), force)
<1> DEFINE text == ChainText(x.nodes, t, Cached)
<1>1. x.nodes \in Triangles \/ x.nodes \in Chains
  BY DEF ChainStates
<1>2. <<text>> \in Seq(ChainTexts)
  BY <1>1, CachedType, ChainTextType
<1> HIDE DEF text
<1>3. Made(x, text, force) \in ChainStates(N) /\ MadeOf(Made(x, text, force), x, text, force)
  BY <1>2 DEF Made, MadeOf, NoHash, ChainStates
<1> QED BY <1>3 DEF text

LEMMA OneMade ==
  ASSUME TypeOKFingerprint, NEW N, N = Triangles \/ N = Chains,
         NEW s \in Seq(ChainStates(N)), NEW e \in DOMAIN s, NEW t \in Types, NEW force \in BOOLEAN
  PROVE  LET new == [s EXCEPT ![e] = Made(@, ChainText(@.nodes, t, Cached), force)]
         IN  new \in Seq(ChainStates(N)) /\ ChainsStay(new, s)
<1> DEFINE y == Made(s[e], ChainText(s[e].nodes, t, Cached), force)
           new == [s EXCEPT ![e] = y]
<1>1. s[e] \in ChainStates(N) /\ e \in 1..Len(s)
  BY ElementOfSeq
<1>2. y \in ChainStates(N) /\ MadeOf(y, s[e], ChainText(s[e].nodes, t, Cached), force)
  BY <1>1, ChainMade
<1> HIDE DEF y
<1>3. new \in Seq(ChainStates(N))
  BY <1>1, <1>2, ExceptSeq
<1>4. ChainsStay(new, s)
  BY <1>2 DEF ChainsStay, MadeOf
<1> QED BY <1>3, <1>4 DEF y

LEMMA AllAreMade ==
  ASSUME TypeOKFingerprint, NEW N, N = Triangles \/ N = Chains,
         NEW s \in Seq(ChainStates(N)), NEW t \in Types, NEW force \in BOOLEAN
  PROVE  LET new == AllMade(s, t, force)
         IN  /\ new \in Seq(ChainStates(N)) /\ ChainsStay(new, s)
             /\ \A i \in DOMAIN s : MadeOf(new[i], s[i], ChainText(s[i].nodes, t, Cached), force)
<1> DEFINE y(i) == Made(s[i], ChainText(s[i].nodes, t, Cached), force)
           new == AllMade(s, t, force)
<1>1. DOMAIN s = 1..Len(s) /\ Len(s) \in Nat
  OBVIOUS
<1>2. ASSUME NEW i \in DOMAIN s
      PROVE  y(i) \in ChainStates(N) /\ MadeOf(y(i), s[i], ChainText(s[i].nodes, t, Cached), force)
  <2>1. s[i] \in ChainStates(N)
    BY <1>1, ElementOfSeq
  <2> QED BY <2>1, ChainMade
<1>3. new = [i \in 1..Len(s) |-> y(i)]
  BY <1>1 DEF AllMade
<1> HIDE DEF y, new
<1>4. new \in Seq(ChainStates(N))
  BY <1>1, <1>2, <1>3, IsASeq
<1>5. \A i \in DOMAIN s : MadeOf(new[i], s[i], ChainText(s[i].nodes, t, Cached), force)
  BY <1>1, <1>2, <1>3
<1>6. ChainsStay(new, s)
  BY <1>1, <1>3, <1>5 DEF ChainsStay, MadeOf
<1> QED BY <1>4, <1>5, <1>6 DEF new

LEMMA PositionedNodesStay ==
  ASSUME TypeOKFingerprint, NEW set, node' = Positioned(set)
  PROVE  node' \in [Nodes -> NodeStates] /\ NodesStay
BY PositionedStay DEF NodesStay

LEMMA ElementHashKeeps ==
  ASSUME IInv, NEW e, NEW t \in Types, NEW force \in BOOLEAN, ElementHash(e, t, force)
  PROVE  IInv'
<1>1. TypeOKFingerprint
  BY DEF IInv
<1>2. e \in DOMAIN element /\ element \in Seq(ChainStates(Triangles))
  BY <1>1 DEF ElementHash, TypeOKFingerprint
<1>3. element' \in Seq(ChainStates(Triangles)) /\ ChainsStay(element', element)
  BY <1>1, <1>2, OneMade DEF ElementHash
<1>4. PICK set : node' = Positioned(set)
  BY DEF ElementHash
<1>5. node' \in [Nodes -> NodeStates] /\ NodesStay
  BY <1>1, <1>4, PositionedNodesStay
<1>6. boundary' = boundary /\ mesh' = mesh /\ causes' = causes
  BY DEF ElementHash, Call
<1>7. TypeOKFingerprint'
  BY <1>1, <1>3, <1>5, <1>6 DEF TypeOKFingerprint
<1> QED BY <1>3, <1>5, <1>6, <1>7, Asked, ChainsStayThemselves

LEMMA BoundaryHashKeeps ==
  ASSUME IInv, NEW b, NEW t \in Types, NEW force \in BOOLEAN, BoundaryHash(b, t, force)
  PROVE  IInv'
<1>1. TypeOKFingerprint
  BY DEF IInv
<1>2. b \in DOMAIN boundary /\ boundary \in Seq(ChainStates(Chains))
  BY <1>1 DEF BoundaryHash, TypeOKFingerprint
<1>3. boundary' \in Seq(ChainStates(Chains)) /\ ChainsStay(boundary', boundary)
  BY <1>1, <1>2, OneMade DEF BoundaryHash
<1>4. PICK set : node' = Positioned(set)
  BY DEF BoundaryHash
<1>5. node' \in [Nodes -> NodeStates] /\ NodesStay
  BY <1>1, <1>4, PositionedNodesStay
<1>6. element' = element /\ mesh' = mesh /\ causes' = causes
  BY DEF BoundaryHash, Call
<1>7. TypeOKFingerprint'
  BY <1>1, <1>3, <1>5, <1>6 DEF TypeOKFingerprint
<1> QED BY <1>3, <1>5, <1>6, <1>7, Asked, ChainsStayThemselves

(* The nodes as hash() of the mesh leaves them. *)
AllNodesMade(set, t, force) == [n \in Nodes |-> Made(Positioned(set)[n], NodeText(n, t), force)]

LEMMA NodesMade ==
  ASSUME TypeOKFingerprint, NEW set, NEW t \in Types, NEW force \in BOOLEAN,
         node' = AllNodesMade(set, t, force)
  PROVE  /\ node' \in [Nodes -> NodeStates] /\ NodesStay
         /\ \A n \in Nodes : /\ node'[n].hash # NoHash
                             /\ force => node'[n].hash = <<NodeText(n, t)>>
<1>1. ASSUME NEW n \in Nodes
      PROVE  /\ node'[n] \in NodeStates
             /\ node'[n].place = node[n].place /\ node'[n].depth = node[n].depth
             /\ Position(node'[n]) = Position(node[n])
             /\ node'[n].hash = node[n].hash \/ node'[n].hash = <<NodeText(n, t)>>
             /\ node'[n].hash # NoHash
             /\ force => node'[n].hash = <<NodeText(n, t)>>
  <2> DEFINE x == Positioned(set)[n]
  <2>1. /\ x \in NodeStates /\ x.place = node[n].place /\ x.depth = node[n].depth
        /\ x.hash = node[n].hash /\ Position(x) = Position(node[n])
    BY PositionedStay
  <2>2. node'[n] = Made(x, NodeText(n, t), force)
    BY DEF AllNodesMade
  <2>3. <<NodeText(n, t)>> \in Seq(NodeTexts)
    BY NodeTextType
  <2> HIDE DEF x
  <2> DEFINE text == <<NodeText(n, t)>>
  <2>a. text \in Seq(NodeTexts) /\ text # NoHash
    BY <2>3 DEF NoHash
  <2>b. node'[n] = x \/ node'[n] = [x EXCEPT !.hash = text]
    BY <2>2 DEF Made
  <2>c. node'[n] = x => x.hash # NoHash /\ (force => x.hash = text)
    BY <2>1, <2>2, <2>a DEF Made, NodeStates
  <2> HIDE DEF text
  <2>4. node'[n].position = x.position /\ node'[n].place = x.place /\ node'[n].depth = x.depth
    BY <2>1, <2>b DEF NodeStates
  <2>5. /\ node'[n] \in NodeStates
        /\ node'[n].hash = x.hash \/ node'[n].hash = text
        /\ node'[n].hash # NoHash
        /\ force => node'[n].hash = text
    BY <2>1, <2>a, <2>b, <2>c DEF NodeStates
  <2>6. Position(node'[n]) = Position(x)
    BY <2>4 DEF Position
  <2> QED BY <2>1, <2>4, <2>5, <2>6 DEF text
<1>2. NodesStay
  BY <1>1 DEF NodesStay
<1>3. node' \in [Nodes -> NodeStates]
  BY <1>1 DEF AllNodesMade
<1> QED BY <1>1, <1>2, <1>3

(* What hash() of a mesh does when it makes one. *)
LEMMA MeshHashMade ==
  ASSUME TypeOKFingerprint, NEW force \in BOOLEAN, MeshHash(force), mesh.hash = NoHash \/ force
  PROVE  LET t == mesh.type
         IN  /\ \E set : node' = AllNodesMade(set, t, force)
             /\ element' = AllMade(element, t, force) /\ boundary' = AllMade(boundary, t, force)
             /\ mesh' = [mesh EXCEPT !.hash = Digest(t, Hashes(node'), Hashes(element'), Hashes(boundary'))]
             /\ causes' = causes
BY DEF MeshHash, AllNodesMade, Call

LEMMA HashesType ==
  ASSUME NEW N, NEW s \in Seq(ChainStates(N))
  PROVE  Hashes(s) \in Seq(Seq(ChainTexts)) /\ \A i \in DOMAIN s : Hashes(s)[i] = s[i].hash
<1> DEFINE h(i) == s[i].hash
<1>1. DOMAIN s = 1..Len(s) /\ Len(s) \in Nat
  OBVIOUS
<1>2. ASSUME NEW i \in 1..Len(s) PROVE h(i) \in Seq(ChainTexts)
  <2>1. s[i] \in ChainStates(N)
    BY ElementOfSeq
  <2> QED BY <2>1 DEF ChainStates
<1>3. Hashes(s) = [i \in 1..Len(s) |-> h(i)]
  BY <1>1 DEF Hashes
<1> HIDE DEF h
<1>4. Hashes(s) \in Seq(Seq(ChainTexts))
  BY <1>1, <1>2, <1>3, IsASeq
<1> QED BY <1>1, <1>3, <1>4 DEF h

LEMMA MeshHashKeeps ==
  ASSUME IInv, NEW force \in BOOLEAN, MeshHash(force)
  PROVE  IInv'
<1>1. TypeOKFingerprint /\ mesh.type \in Types
  BY DEF IInv, TypeOKFingerprint, MeshStates
<1>2. CASE ~(mesh.hash = NoHash \/ force)
  <2>1. UNCHANGED <<node, element, boundary, mesh, causes>>
    BY <1>2 DEF MeshHash, Call
  <2>2. TypeOKFingerprint'
    BY <1>1, <2>1 DEF TypeOKFingerprint
  <2>3. NodesStay
    BY <1>1, <2>1 DEF TypeOKFingerprint, NodesStay
  <2> QED BY <2>1, <2>2, <2>3, Asked, ChainsStayThemselves
<1>3. CASE mesh.hash = NoHash \/ force
  <2> DEFINE t == mesh.type
             d == [type |-> t, nodes |-> Hashes(node'), elements |-> Hashes(element'), boundaries |-> Hashes(boundary')]
  <2>1. /\ \E set : node' = AllNodesMade(set, t, force)
        /\ element' = AllMade(element, t, force) /\ boundary' = AllMade(boundary, t, force)
        /\ mesh' = [mesh EXCEPT !.hash = <<d>>] /\ causes' = causes
    BY <1>1, <1>3, MeshHashMade DEF Digest
  <2>2. /\ node' \in [Nodes -> NodeStates] /\ NodesStay
        /\ \A n \in Nodes : node'[n].hash # NoHash
    BY <1>1, <2>1, NodesMade
  <2>3. /\ element' \in Seq(ChainStates(Triangles)) /\ ChainsStay(element', element)
        /\ \A i \in DOMAIN element : element'[i].hash # NoHash
    BY <1>1, <2>1, AllAreMade DEF TypeOKFingerprint, MadeOf
  <2>4. /\ boundary' \in Seq(ChainStates(Chains)) /\ ChainsStay(boundary', boundary)
        /\ \A i \in DOMAIN boundary : boundary'[i].hash # NoHash
    BY <1>1, <2>1, AllAreMade DEF TypeOKFingerprint, MadeOf
  <2>5. /\ Hashes(element') \in Seq(Seq(ChainTexts)) /\ Hashes(boundary') \in Seq(Seq(ChainTexts))
        /\ \A i \in DOMAIN element' : Hashes(element')[i] = element'[i].hash
        /\ \A i \in DOMAIN boundary' : Hashes(boundary')[i] = boundary'[i].hash
    BY <2>3, <2>4, HashesType
  <2>6. /\ Hashes(node') \in [Nodes -> Seq(NodeTexts)]
        /\ \A n \in Nodes : Hashes(node')[n] = node'[n].hash
    BY <2>2 DEF Hashes, NodeStates
  <2>7. d \in Digests
    BY <1>1, <2>5, <2>6 DEF Digests
  <2>8. /\ d.type = t /\ d.nodes = Hashes(node') /\ d.elements = Hashes(element')
        /\ d.boundaries = Hashes(boundary')
    OBVIOUS
  <2> HIDE DEF d
  <2>9. mesh' \in MeshStates /\ mesh'.type = t /\ mesh'.hash = <<d>>
    <3>1. mesh \in MeshStates /\ <<d>> \in Seq(Digests) /\ mesh' = [mesh EXCEPT !.hash = <<d>>]
      BY <1>1, <2>1, <2>7 DEF TypeOKFingerprint
    <3> HIDE DEF t
    <3>2. mesh' \in MeshStates /\ mesh'.type = mesh.type /\ mesh'.hash = <<d>>
      BY <3>1 DEF MeshStates
    <3> QED BY <3>2 DEF t
  <2>10. TypeOKFingerprint'
    BY <1>1, <2>1, <2>2, <2>3, <2>4, <2>9 DEF TypeOKFingerprint
  <2>11. /\ ("moved" \notin causes => NodesSay)'
         /\ (causes \cap {"moved", "replaced"} = {} => BoundariesSay)'
         /\ (causes \cap {"moved", "replaced", "relinked"} = {} => ElementsSay)'
    BY <2>1, <2>2, <2>3, <2>4, AskedSay
  <2>12. ASSUME causes' = {} PROVE MeshSays'
    <3>1. NodesSay' /\ BoundariesSay' /\ ElementsSay'
      BY <2>11, <2>12
    <3>2. mesh'.hash[1] = d
      BY <2>9
    <3>3. \A n \in Nodes : \E u \in Types : d.nodes[n] = <<NodeText(n, u)>>'
      BY <2>2, <2>6, <2>8, <3>1 DEF NodesSay
    <3>4. \A i \in DOMAIN element' : \E u \in Types : d.elements[i] = <<ChainText(element[i].nodes, u, Exact)>>'
      BY <2>3, <2>5, <2>8, <3>1 DEF ElementsSay, ChainsStay
    <3>5. \A i \in DOMAIN boundary' : \E u \in Types : d.boundaries[i] = <<ChainText(boundary[i].nodes, u, Exact)>>'
      BY <2>4, <2>5, <2>8, <3>1 DEF BoundariesSay, ChainsStay
    <3> QED BY <2>8, <2>9, <3>2, <3>3, <3>4, <3>5 DEF MeshSays
  <2> QED BY <2>10, <2>11, <2>12 DEF IInv, SayWhatIsThere
<1> QED BY <1>2, <1>3

-----------------------------------------------------------------------------
(* Editing. *)

Causes == {"moved", "replaced", "relinked", "rebounded", "retyped"}

LEMMA NodePut ==
  ASSUME IInv, NEW n \in Nodes, NEW x \in NodeStates, node' = [node EXCEPT ![n] = x],
         element' = element, boundary' = boundary, mesh' = mesh,
         NEW c \in {"moved", "replaced"}, causes' = causes \cup {c},
         c = "replaced" => x.hash = NoHash /\ x.position = NoHash
  PROVE  IInv'
<1>1. TypeOKFingerprint
  BY DEF IInv
<1>2. TypeOKFingerprint'
  BY <1>1 DEF TypeOKFingerprint
<1>3. "moved" \notin causes' => NodesSay'
  <2> SUFFICES ASSUME "moved" \notin causes' PROVE NodesSay'
    OBVIOUS
  <2>1. NodesSay /\ Position(x) = <<x.place>> /\ x.hash = NoHash
    BY DEF IInv, SayWhatIsThere, Position
  <2>2. node \in [Nodes -> NodeStates]
    BY <1>1 DEF TypeOKFingerprint
  <2>3. ASSUME NEW m \in Nodes
        PROVE  /\ Position(node'[m]) = <<node'[m].place>>
               /\ node'[m].hash # NoHash => \E t \in Types : node'[m].hash = <<NodeText(m, t)>>'
    <3>1. CASE m = n
      <4>1. node'[m] = x
        BY <2>2, <3>1
      <4> QED BY <2>1, <4>1
    <3>2. CASE m # n
      <4>1. node'[m] = node[m]
        BY <2>2, <3>2
      <4> QED BY <2>1, <4>1 DEF NodesSay, NodeText
    <3> QED BY <3>1, <3>2
  <2> QED BY <2>3 DEF NodesSay
<1>4. causes' \cap {"moved", "replaced"} # {}
  OBVIOUS
<1>5. /\ causes' \cap {"moved", "replaced", "relinked"} # {}
      /\ causes' # {}
  BY <1>4
<1> QED BY <1>2, <1>3, <1>4, <1>5 DEF IInv, SayWhatIsThere

LEMMA MovedType ==
  ASSUME NEW x \in NodeStates, NEW p \in Places, NEW z \in Depths
  PROVE  Moved(x, p, z) \in NodeStates
BY DEF Moved, NodeStates

LEMMA FreshType ==
  ASSUME NEW x, NEW p \in Places, NEW z \in Depths
  PROVE  Fresh(x, p, z) \in NodeStates
<1>1. NoHash \in Seq(NodeTexts) /\ NoHash \in Seq(Places)
  BY DEF NoHash
<1> QED BY <1>1 DEF Fresh, NodeStates

LEMMA NodeEditsKeep ==
  ASSUME IInv, NEW n \in Nodes, NEW p \in Places, NEW z \in Depths,
         Move(n, p, z) \/ SetNode(n, p, z) \/ AddNode(n, p, z)
  PROVE  IInv'
<1>1. TypeOKFingerprint /\ node[n] \in NodeStates
  BY DEF IInv, TypeOKFingerprint
<1>2. element' = element /\ boundary' = boundary /\ mesh' = mesh
  BY DEF Move, SetNode, AddNode
<1>3. CASE Move(n, p, z)
  <2>1. node' = [node EXCEPT ![n] = Moved(node[n], p, z)] /\ causes' = causes \cup {"moved"}
    BY <1>3 DEF Move, Call
  <2> QED BY <1>1, <1>2, <2>1, MovedType, NodePut
<1>4. CASE SetNode(n, p, z)
  <2> DEFINE x == Moved(node[n], p, z)
             text == [type |-> Default, place |-> p, depth |-> z]
             y == IF x.hash = NoHash THEN x ELSE [x EXCEPT !.hash = <<text>>]
  <2>1. node' = [node EXCEPT ![n] = y] /\ causes' = causes \cup {"moved"}
    BY <1>4 DEF SetNode, Call
  <2>2. x \in NodeStates
    BY <1>1, MovedType
  <2>3. text \in NodeTexts
    BY FingerprintAssumption DEF NodeTexts
  <2> HIDE DEF x, text
  <2>4. <<text>> \in Seq(NodeTexts)
    BY <2>3
  <2>5. x \in NodeStates /\ [x EXCEPT !.hash = <<text>>] \in NodeStates
    BY <2>2, <2>4 DEF NodeStates
  <2>6. y \in NodeStates
    BY <2>5
  <2> HIDE DEF y
  <2> QED BY <1>2, <2>1, <2>6, NodePut
<1>5. CASE AddNode(n, p, z)
  <2>1. node' = [node EXCEPT ![n] = Fresh(node[n], p, z)] /\ causes' = causes \cup {"replaced"}
    BY <1>5 DEF AddNode, Call
  <2>2. Fresh(node[n], p, z).hash = NoHash /\ Fresh(node[n], p, z).position = NoHash
    BY DEF Fresh
  <2> QED BY <1>2, <2>1, <2>2, FreshType, NodePut
<1> QED BY <1>3, <1>4, <1>5

LEMMA ReprojectKeeps ==
  ASSUME IInv, Reproject
  PROVE  IInv'
<1>1. TypeOKFingerprint
  BY DEF IInv
<1>2. /\ node' = [n \in Nodes |-> [node[n] EXCEPT !.place = Project(@)]]
      /\ element' = element /\ boundary' = boundary /\ mesh' = mesh /\ causes' = causes \cup {"moved"}
  BY DEF Reproject, Call
<1>3. ASSUME NEW n \in Nodes PROVE [node[n] EXCEPT !.place = Project(@)] \in NodeStates
  <2>1. node[n] \in NodeStates
    BY <1>1 DEF TypeOKFingerprint
  <2>2. node[n].place \in Places
    BY <2>1 DEF NodeStates
  <2>3. Project(node[n].place) \in Places
    BY <2>2, FingerprintAssumption
  <2> QED BY <2>1, <2>3 DEF NodeStates
<1>4. TypeOKFingerprint'
  BY <1>1, <1>2, <1>3 DEF TypeOKFingerprint
<1> QED BY <1>2, <1>4 DEF IInv, SayWhatIsThere

LEMMA SetHashTypeKeeps ==
  ASSUME IInv, NEW t \in Types, SetHashType(t)
  PROVE  IInv'
<1>1. TypeOKFingerprint
  BY DEF IInv
<1>2. /\ node' = node /\ element' = element /\ boundary' = boundary
      /\ mesh' = [mesh EXCEPT !.type = t] /\ causes' = causes \cup {"retyped"}
  BY DEF SetHashType, Call
<1>3. mesh' \in MeshStates
  BY <1>1, <1>2 DEF TypeOKFingerprint, MeshStates
<1>4. TypeOKFingerprint'
  BY <1>1, <1>2, <1>3 DEF TypeOKFingerprint
<1>5. NodesStay
  BY <1>1, <1>2 DEF TypeOKFingerprint, NodesStay
<1>6. /\ ("moved" \notin causes => NodesSay)'
      /\ (causes \cap {"moved", "replaced"} = {} => BoundariesSay)'
      /\ (causes \cap {"moved", "replaced", "relinked"} = {} => ElementsSay)'
  BY <1>2, <1>5, AskedSay, ChainsStayThemselves
<1> QED BY <1>2, <1>4, <1>6 DEF IInv, SayWhatIsThere

(* Elements given other nodes. *)
LEMMA Relinked ==
  ASSUME IInv, node' = node, boundary' = boundary, mesh' = mesh,
         element' \in Seq(ChainStates(Triangles)), causes' = causes \cup {"relinked"}
  PROVE  IInv'
<1>1. TypeOKFingerprint
  BY DEF IInv
<1>2. TypeOKFingerprint'
  BY <1>1 DEF TypeOKFingerprint
<1>3. NodesStay
  BY <1>1 DEF TypeOKFingerprint, NodesStay
<1>4. /\ ("moved" \notin causes => NodesSay)'
      /\ (causes \cap {"moved", "replaced"} = {} => BoundariesSay)'
  BY <1>3, AskedSay, ChainsStayThemselves
<1>5. causes' \cap {"moved", "replaced", "relinked"} # {} /\ causes' # {}
  OBVIOUS
<1> QED BY <1>2, <1>4, <1>5 DEF IInv, SayWhatIsThere

LEMMA SetVertexKeeps ==
  ASSUME IInv, NEW e, NEW chain \in Triangles, SetVertex(e, chain)
  PROVE  IInv'
<1>1. /\ e \in 1..Len(element) /\ element \in Seq(ChainStates(Triangles))
      /\ element' = [element EXCEPT ![e].nodes = chain]
      /\ node' = node /\ boundary' = boundary /\ mesh' = mesh /\ causes' = causes \cup {"relinked"}
  BY DEF SetVertex, Call, IInv, TypeOKFingerprint
<1> DEFINE x == [element[e] EXCEPT !.nodes = chain]
<1>2. element[e] \in ChainStates(Triangles)
  BY <1>1, ElementOfSeq
<1>3. x \in ChainStates(Triangles) /\ element' = [element EXCEPT ![e] = x]
  BY <1>1, <1>2 DEF ChainStates
<1> HIDE DEF x
<1>4. element' \in Seq(ChainStates(Triangles))
  BY <1>1, <1>3, ExceptSeq
<1> QED BY <1>1, <1>4, Relinked

LEMMA AppendElementKeeps ==
  ASSUME IInv, NEW chain \in Triangles, NEW moves \in BOOLEAN, AppendElement(chain, moves)
  PROVE  IInv'
<1>1. /\ element \in Seq(ChainStates(Triangles))
      /\ element' = Append(IF moves THEN Unhashed(element) ELSE element, Blank(chain))
      /\ node' = node /\ boundary' = boundary /\ mesh' = mesh /\ causes' = causes \cup {"relinked"}
  BY DEF AppendElement, Call, IInv, TypeOKFingerprint
<1> DEFINE b(i) == Blank(element[i].nodes)
<1>2. Blank(chain) \in ChainStates(Triangles)
  BY DEF Blank, ChainStates, NoHash
<1>3. ASSUME NEW i \in 1..Len(element) PROVE b(i) \in ChainStates(Triangles)
  <2>1. element[i] \in ChainStates(Triangles)
    BY <1>1, ElementOfSeq
  <2> QED BY <2>1 DEF Blank, ChainStates, NoHash
<1>4. DOMAIN element = 1..Len(element) /\ Len(element) \in Nat
  BY <1>1
<1>5. Unhashed(element) = [i \in 1..Len(element) |-> b(i)]
  BY <1>4 DEF Unhashed
<1> HIDE DEF b
<1>6. Unhashed(element) \in Seq(ChainStates(Triangles))
  BY <1>3, <1>4, <1>5, IsASeq
<1>7. (IF moves THEN Unhashed(element) ELSE element) \in Seq(ChainStates(Triangles))
  BY <1>1, <1>6
<1>8. element' \in Seq(ChainStates(Triangles))
  BY <1>1, <1>2, <1>7, AppendProperties
<1> QED BY <1>1, <1>8, Relinked

LEMMA DeleteElementKeeps ==
  ASSUME IInv, NEW e, DeleteElement(e)
  PROVE  IInv'
<1> DEFINE d(i) == IF i < e THEN element[i] ELSE [element[i] EXCEPT !.nodes = element[i + 1].nodes]
<1>1. /\ e \in DOMAIN element /\ element \in Seq(ChainStates(Triangles))
      /\ element' = [i \in 1..Len(element) - 1 |-> d(i)]
      /\ node' = node /\ boundary' = boundary /\ mesh' = mesh /\ causes' = causes \cup {"relinked"}
  BY DEF DeleteElement, Call, IInv, TypeOKFingerprint
<1>2. Len(element) \in Nat \ {0} /\ Len(element) - 1 \in Nat
  BY <1>1
<1>3. ASSUME NEW i \in 1..Len(element) - 1 PROVE d(i) \in ChainStates(Triangles)
  <2>1. i \in 1..Len(element) /\ i + 1 \in 1..Len(element)
    BY <1>2
  <2>2. element[i] \in ChainStates(Triangles) /\ element[i + 1] \in ChainStates(Triangles)
    BY <1>1, <2>1, ElementOfSeq
  <2> QED BY <2>2 DEF ChainStates
<1> HIDE DEF d
<1>4. element' \in Seq(ChainStates(Triangles))
  BY <1>1, <1>2, <1>3, IsASeq
<1> QED BY <1>1, <1>4, Relinked

LEMMA ChainPut ==
  ASSUME NEW chain \in Chains, NEW i \in 1..BoundaryLength, NEW n \in Nodes
  PROVE  [chain EXCEPT ![i] = n] \in Chains
BY DEF Chains

LEMMA SetNode1Keeps ==
  ASSUME IInv, NEW b, NEW i \in 1..BoundaryLength, NEW n \in Nodes, SetNode1(b, i, n)
  PROVE  IInv'
<1> DEFINE chain == [boundary[b].nodes EXCEPT ![i] = n]
           text == ChainText(chain, Default, Cached)
           x == IF boundary[b].hash = NoHash THEN [boundary[b] EXCEPT !.nodes = chain]
                ELSE [nodes |-> chain, hash |-> <<text>>]
<1>1. TypeOKFingerprint /\ b \in 1..Len(boundary) /\ boundary \in Seq(ChainStates(Chains))
  BY DEF SetNode1, IInv, TypeOKFingerprint
<1>2. element' = element /\ mesh' = mesh /\ causes' = causes \cup {"rebounded"}
  BY DEF SetNode1, Call
<1>3. boundary[b] \in ChainStates(Chains)
  BY <1>1, ElementOfSeq
<1>4. chain \in Chains
  BY <1>3, ChainPut DEF ChainStates
<1>5. <<text>> \in Seq(ChainTexts)
  BY <1>1, <1>4, CachedType, ChainTextType, FingerprintAssumption
<1>6. /\ boundary' = [boundary EXCEPT ![b] = x]
      /\ node' = node \/ \E set : node' = Positioned(set)
  <2>1. CASE boundary[b].hash = NoHash
    BY <1>1, <2>1 DEF SetNode1
  <2>2. CASE boundary[b].hash # NoHash
    BY <2>2 DEF SetNode1
  <2> QED BY <2>1, <2>2
<1> HIDE DEF chain, text
<1>7. /\ x \in ChainStates(Chains)
      /\ x.hash = NoHash \/ (x.nodes = chain /\ x.hash = <<text>>)
  BY <1>3, <1>4, <1>5 DEF ChainStates
<1> HIDE DEF x
<1>8. boundary' \in Seq(ChainStates(Chains)) /\ DOMAIN boundary' = DOMAIN boundary
  BY <1>1, <1>6, <1>7, ExceptSeq
<1>9. node' \in [Nodes -> NodeStates] /\ NodesStay
  <2>1. CASE node' = node
    BY <1>1, <2>1 DEF TypeOKFingerprint, NodesStay
  <2>2. CASE \E set : node' = Positioned(set)
    BY <1>1, <2>2, PositionedNodesStay
  <2> QED BY <1>6, <2>1, <2>2
<1>10. TypeOKFingerprint'
  BY <1>1, <1>2, <1>8, <1>9 DEF TypeOKFingerprint
<1>11. /\ ("moved" \notin causes => NodesSay)'
       /\ (causes \cap {"moved", "replaced", "relinked"} = {} => ElementsSay)'
  BY <1>2, <1>9, AskedSay, ChainsStayThemselves
<1>12. ASSUME causes' \cap {"moved", "replaced"} = {} PROVE BoundariesSay'
  <2>1. BoundariesSay /\ Cached = Exact
    BY <1>1, <1>2, <1>12, CachedType DEF IInv, SayWhatIsThere
  <2>2. Exact' = Exact
    BY <1>9, SamePlaces
  <2>3. ASSUME NEW j \in DOMAIN boundary, boundary'[j].hash # NoHash
        PROVE  \E t \in Types : boundary'[j].hash = <<ChainText(boundary'[j].nodes, t, Exact)>>
    <3>1. CASE j = b
      <4>1. boundary'[j] = x
        BY <1>1, <1>6, <3>1
      <4>2. x.nodes = chain /\ x.hash = <<ChainText(chain, Default, Exact)>>
        BY <1>7, <2>1, <2>3, <4>1 DEF text
      <4> QED BY <4>1, <4>2, FingerprintAssumption
    <3>2. CASE j # b
      <4>1. boundary'[j] = boundary[j]
        BY <1>6, <3>2
      <4> QED BY <2>1, <2>3, <4>1 DEF BoundariesSay
    <3> QED BY <3>1, <3>2
  <2> QED BY <1>8, <2>2, <2>3 DEF BoundariesSay
<1> QED BY <1>2, <1>10, <1>11, <1>12 DEF IInv, SayWhatIsThere

-----------------------------------------------------------------------------
(* Reading. *)

LEMMA HeldType ==
  ASSUME NEW N, NEW s \in Seq(ChainStates(N)), NEW moves \in BOOLEAN, NEW i
  PROVE  Held(s, moves, i) \in Seq(ChainTexts)
<1>1. CASE i \in DOMAIN s /\ ~moves
  <2>1. i \in 1..Len(s)
    BY <1>1
  <2>2. s[i] \in ChainStates(N)
    BY <2>1, ElementOfSeq
  <2> QED BY <1>1, <2>2 DEF Held, ChainStates
<1>2. CASE ~(i \in DOMAIN s /\ ~moves)
  BY <1>2 DEF Held, NoHash
<1> QED BY <1>1, <1>2

(* Nodes just read say what is there, hashed or not since. *)
LEMMA ReadNodes ==
  ASSUME NEW f \in Files, NEW met,
         LET nodes == [n \in Nodes |-> Fresh(node[n], f.place[n], f.depth[n])]
         IN  node' = [n \in Nodes |-> IF n \in met THEN [nodes[n] EXCEPT !.position = Position(nodes[n])]
                                      ELSE nodes[n]]
  PROVE  /\ node' \in [Nodes -> NodeStates] /\ NodesSay'
         /\ \A n \in Nodes : /\ node'[n].place = f.place[n]
                             /\ Position(Fresh(node[n], f.place[n], f.depth[n])) = <<f.place[n]>>
<1>1. ASSUME NEW n \in Nodes
      PROVE  /\ node'[n] \in NodeStates /\ Position(node'[n]) = <<node'[n].place>>
             /\ node'[n].hash = NoHash /\ node'[n].place = f.place[n]
             /\ Position(Fresh(node[n], f.place[n], f.depth[n])) = <<f.place[n]>>
  <2> DEFINE x == Fresh(node[n], f.place[n], f.depth[n])
             p == <<f.place[n]>>
  <2>1. f.place[n] \in Places /\ f.depth[n] \in Depths
    BY FingerprintAssumption
  <2>2. x \in NodeStates
    BY <2>1, FreshType
  <2>3. x.place = f.place[n] /\ x.hash = NoHash /\ x.position = NoHash
    BY DEF Fresh
  <2> HIDE DEF x
  <2>4. Position(x) = p
    BY <2>3 DEF Position
  <2>5. p \in Seq(Places) /\ p # NoHash
    BY <2>1 DEF NoHash
  <2>6. node'[n] = x \/ node'[n] = [x EXCEPT !.position = p]
    BY <2>4 DEF x
  <2> HIDE DEF p
  <2>7. /\ node'[n] \in NodeStates /\ node'[n].place = f.place[n] /\ node'[n].hash = NoHash
        /\ node'[n].position = NoHash \/ node'[n].position = p
    BY <2>2, <2>3, <2>5, <2>6 DEF NodeStates
  <2>8. Position(node'[n]) = p
    BY <2>7, <2>5 DEF Position, p
  <2> QED BY <2>4, <2>7, <2>8 DEF x, p
<1>2. NodesSay'
  BY <1>1 DEF NodesSay
<1>3. node' \in [Nodes -> NodeStates]
  BY <1>1
<1> QED BY <1>1, <1>2, <1>3

(* A sequence of chains, each with a hash. *)
LEMMA ChainsType ==
  ASSUME NEW N, NEW s \in Seq(N), NEW h, \A i \in DOMAIN s : h[i] \in Seq(ChainTexts)
  PROVE  [i \in DOMAIN s |-> [nodes |-> s[i], hash |-> h[i]]] \in Seq(ChainStates(N))
<1> DEFINE c(i) == [nodes |-> s[i], hash |-> h[i]]
<1>1. DOMAIN s = 1..Len(s) /\ Len(s) \in Nat
  OBVIOUS
<1>2. ASSUME NEW i \in 1..Len(s) PROVE c(i) \in ChainStates(N)
  <2>1. s[i] \in N
    BY ElementOfSeq
  <2> QED BY <1>1, <2>1 DEF ChainStates
<1> HIDE DEF c
<1>3. [i \in 1..Len(s) |-> c(i)] \in Seq(ChainStates(N))
  BY <1>1, <1>2, IsASeq
<1> QED BY <1>1, <1>3 DEF c

LEMMA ReadKeeps ==
  ASSUME IInv, NEW f \in Files, NEW dflow \in BOOLEAN, NEW moves \in BOOLEAN, Read(f, dflow, moves)
  PROVE  IInv'
<1> DEFINE elementMoves  == moves /\ Len(f.elements) > Len(element)
           boundaryMoves == moves /\ Len(f.boundaries) > Len(boundary)
           rehashed == {i \in DOMAIN f.boundaries : Held(boundary, boundaryMoves, i) # NoHash}
           nodes == [n \in Nodes |-> Fresh(node[n], f.place[n], f.depth[n])]
           at == [n \in Nodes |-> Position(nodes[n])]
           eh == [i \in DOMAIN f.elements |-> Held(element, elementMoves, i)]
           bh == [i \in DOMAIN f.boundaries |->
                   IF i \in rehashed THEN <<ChainText(f.boundaries[i], Default, at)>> ELSE NoHash]
<1>1. TypeOKFingerprint
  BY DEF IInv
<1>2. /\ f.elements \in Seq(Triangles) /\ f.boundaries \in Seq(Chains) /\ Default \in Types
  BY FingerprintAssumption
<1>3. PICK met : node' = [n \in Nodes |-> IF n \in met THEN [nodes[n] EXCEPT !.position = Position(nodes[n])]
                                          ELSE nodes[n]]
  <2>1. \E met : node' = [n \in Nodes |-> IF n \in met THEN [nodes[n] EXCEPT !.position = at[n]] ELSE nodes[n]]
    BY DEF Read
  <2> QED BY <2>1
<1>4. element' = [i \in DOMAIN f.elements |-> [nodes |-> f.elements[i], hash |-> eh[i]]]
  BY DEF Read
<1>5. boundary' = IF dflow THEN boundary
                  ELSE [i \in DOMAIN f.boundaries |-> [nodes |-> f.boundaries[i], hash |-> bh[i]]]
  BY DEF Read
<1>6. mesh' = [mesh EXCEPT !.hash = NoHash]
  BY DEF Read
<1>7. causes' = {c \in {"relinked", "replaced"} :
                   \/ c = "relinked" /\ \E i \in DOMAIN f.elements : eh[i] # NoHash
                   \/ c = "replaced" /\ dflow /\ \E i \in DOMAIN boundary : boundary[i].hash # NoHash}
  BY DEF Read
<1>8. /\ node' \in [Nodes -> NodeStates] /\ NodesSay'
      /\ \A n \in Nodes : /\ node'[n].place = f.place[n]
                          /\ Position(Fresh(node[n], f.place[n], f.depth[n])) = <<f.place[n]>>
  BY <1>3, ReadNodes
<1>9. at = Exact' /\ at \in [Nodes -> Seq(Places)]
  <2>1. at = Exact'
    BY <1>8 DEF Exact
  <2>2. \A n \in Nodes : <<f.place[n]>> \in Seq(Places)
    <3>1. \A n \in Nodes : f.place[n] \in Places
      BY FingerprintAssumption
    <3> QED BY <3>1
  <2> QED BY <1>8, <2>1, <2>2
<1>10. \A i \in DOMAIN f.elements : eh[i] \in Seq(ChainTexts)
  BY <1>1, HeldType DEF TypeOKFingerprint
<1>11. \A i \in DOMAIN f.boundaries : bh[i] \in Seq(ChainTexts)
  <2> HIDE DEF at, rehashed
  <2> SUFFICES ASSUME NEW i \in DOMAIN f.boundaries PROVE bh[i] \in Seq(ChainTexts)
    OBVIOUS
  <2>1. f.boundaries[i] \in Chains
    BY <1>2, ElementOfSeq
  <2>2. <<ChainText(f.boundaries[i], Default, at)>> \in Seq(ChainTexts)
    BY <1>2, <1>9, <2>1, ChainTextType
  <2> QED BY <2>2 DEF NoHash
<1>12. \A i \in DOMAIN f.boundaries : bh[i] = NoHash \/ bh[i] = <<ChainText(f.boundaries[i], Default, Exact')>>
  BY <1>9
<1> HIDE DEF eh, bh, at, nodes, rehashed
<1>13. element' \in Seq(ChainStates(Triangles))
  BY <1>2, <1>4, <1>10, ChainsType
<1>14. boundary' \in Seq(ChainStates(Chains))
  <2>1. [i \in DOMAIN f.boundaries |-> [nodes |-> f.boundaries[i], hash |-> bh[i]]] \in Seq(ChainStates(Chains))
    BY <1>2, <1>11, ChainsType
  <2> QED BY <1>1, <1>5, <2>1 DEF TypeOKFingerprint
<1>15. mesh' \in MeshStates /\ mesh'.hash = NoHash
  <2>1. mesh \in MeshStates /\ NoHash \in Seq(Digests)
    BY <1>1 DEF TypeOKFingerprint, NoHash
  <2> QED BY <1>6, <2>1 DEF MeshStates
<1>16. TypeOKFingerprint'
  BY <1>7, <1>8, <1>13, <1>14, <1>15 DEF TypeOKFingerprint
<1>17. ASSUME causes' \cap {"moved", "replaced", "relinked"} = {} PROVE ElementsSay'
  <2>1. "relinked" \notin causes'
    BY <1>17
  <2>2. \A i \in DOMAIN f.elements : eh[i] = NoHash
    BY <1>7, <2>1
  <2> QED BY <1>4, <2>2 DEF ElementsSay
<1>18. ASSUME causes' \cap {"moved", "replaced"} = {} PROVE BoundariesSay'
  <2>1. CASE dflow
    <3>1. "replaced" \notin causes'
      BY <1>18
    <3>2. \A i \in DOMAIN boundary : boundary[i].hash = NoHash
      BY <1>7, <2>1, <3>1
    <3> QED BY <1>5, <2>1, <3>2 DEF BoundariesSay
  <2>2. CASE ~dflow
    <3>1. boundary' = [i \in DOMAIN f.boundaries |-> [nodes |-> f.boundaries[i], hash |-> bh[i]]]
      BY <1>5, <2>2
    <3>2. ASSUME NEW i \in DOMAIN boundary', boundary'[i].hash # NoHash
          PROVE  \E t \in Types : boundary'[i].hash = <<ChainText(boundary'[i].nodes, t, Exact')>>
      <4>1. i \in DOMAIN f.boundaries /\ boundary'[i].nodes = f.boundaries[i] /\ boundary'[i].hash = bh[i]
        BY <3>1
      <4>2. boundary'[i].hash = <<ChainText(boundary'[i].nodes, Default, Exact')>>
        BY <1>12, <3>2, <4>1
      <4> QED BY <1>2, <4>2
    <3> QED BY <3>2 DEF BoundariesSay, ChainText
  <2> QED BY <2>1, <2>2
<1>19. MeshSays'
  BY <1>15 DEF MeshSays
<1> QED BY <1>8, <1>16, <1>17, <1>18, <1>19 DEF IInv, SayWhatIsThere

-----------------------------------------------------------------------------
(* The invariant. *)

LEMMA InitKeeps == Init => IInv
<1> SUFFICES ASSUME Init PROVE IInv
  OBVIOUS
<1>1. PICK f \in Files :
        /\ node = [n \in Nodes |-> [place |-> f.place[n], depth |-> f.depth[n], hash |-> NoHash, position |-> NoHash]]
        /\ element = [i \in DOMAIN f.elements |-> Blank(f.elements[i])]
        /\ boundary = [i \in DOMAIN f.boundaries |-> Blank(f.boundaries[i])]
  BY DEF Init
<1>2. /\ f.elements \in Seq(Triangles) /\ f.boundaries \in Seq(Chains) /\ Default \in Types
      /\ \A n \in Nodes : f.place[n] \in Places /\ f.depth[n] \in Depths
  BY FingerprintAssumption
<1>3. NoHash \in Seq(NodeTexts) /\ NoHash \in Seq(Places) /\ NoHash \in Seq(ChainTexts) /\ NoHash \in Seq(Digests)
  BY DEF NoHash
<1>4. node \in [Nodes -> NodeStates]
  BY <1>1, <1>2, <1>3 DEF NodeStates
<1> DEFINE eh == [i \in DOMAIN f.elements |-> NoHash]
           bh == [i \in DOMAIN f.boundaries |-> NoHash]
<1>5. /\ element = [i \in DOMAIN f.elements |-> [nodes |-> f.elements[i], hash |-> eh[i]]]
      /\ boundary = [i \in DOMAIN f.boundaries |-> [nodes |-> f.boundaries[i], hash |-> bh[i]]]
      /\ \A i \in DOMAIN f.elements : eh[i] \in Seq(ChainTexts)
      /\ \A i \in DOMAIN f.boundaries : bh[i] \in Seq(ChainTexts)
  BY <1>1, <1>3 DEF Blank
<1> HIDE DEF eh, bh
<1>6. element \in Seq(ChainStates(Triangles)) /\ boundary \in Seq(ChainStates(Chains))
  BY <1>2, <1>5, ChainsType
<1>7. mesh \in MeshStates /\ mesh.hash = NoHash /\ causes = {}
  BY <1>2, <1>3 DEF Init, MeshStates
<1>8. TypeOKFingerprint
  BY <1>4, <1>6, <1>7 DEF TypeOKFingerprint
<1>9. NodesSay
  BY <1>1 DEF NodesSay, Position
<1>10. ElementsSay /\ BoundariesSay
  BY <1>1 DEF ElementsSay, BoundariesSay, Blank
<1>11. MeshSays
  BY <1>7 DEF MeshSays
<1> QED BY <1>8, <1>9, <1>10, <1>11 DEF IInv, SayWhatIsThere

LEMMA NextKeeps == IInv /\ [Next]_vars => IInv'
<1> SUFFICES ASSUME IInv, [Next]_vars PROVE IInv'
  OBVIOUS
<1>1. ASSUME NEW n \in Nodes, NEW t \in Types, NEW force \in BOOLEAN, NodeHash(n, t, force) PROVE IInv'
  BY <1>1, NodeHashKeeps
<1>2. ASSUME NEW n \in Nodes, NEW force \in BOOLEAN, PositionHash(n, force) PROVE IInv'
  BY <1>2, PositionHashKeeps
<1>3. ASSUME NEW n \in Nodes, NEW p \in Places, NEW z \in Depths,
             Move(n, p, z) \/ SetNode(n, p, z) \/ AddNode(n, p, z)
      PROVE  IInv'
  BY <1>3, NodeEditsKeep
<1>4. ASSUME NEW n \in Nodes, NEW b, NEW i \in 1..BoundaryLength, SetNode1(b, i, n) PROVE IInv'
  BY <1>4, SetNode1Keeps
<1>5. CASE Reproject
  BY <1>5, ReprojectKeeps
<1>6. ASSUME NEW e, NEW t \in Types, NEW force \in BOOLEAN, ElementHash(e, t, force) PROVE IInv'
  BY <1>6, ElementHashKeeps
<1>7. ASSUME NEW e, NEW chain \in Triangles, SetVertex(e, chain) PROVE IInv'
  BY <1>7, SetVertexKeeps
<1>8. ASSUME NEW e, DeleteElement(e) PROVE IInv'
  BY <1>8, DeleteElementKeeps
<1>9. ASSUME NEW chain \in Triangles, NEW moves \in BOOLEAN, AppendElement(chain, moves) PROVE IInv'
  BY <1>9, AppendElementKeeps
<1>10. ASSUME NEW b, NEW t \in Types, NEW force \in BOOLEAN, BoundaryHash(b, t, force) PROVE IInv'
  BY <1>10, BoundaryHashKeeps
<1>11. ASSUME NEW force \in BOOLEAN, MeshHash(force) PROVE IInv'
  BY <1>11, MeshHashKeeps
<1>12. ASSUME NEW t \in Types, SetHashType(t) PROVE IInv'
  BY <1>12, SetHashTypeKeeps
<1>13. ASSUME NEW f \in Files, NEW dflow \in BOOLEAN, NEW moves \in BOOLEAN, Read(f, dflow, moves) PROVE IInv'
  BY <1>13, ReadKeeps
<1>14. CASE UNCHANGED vars
  <2>1. UNCHANGED <<node, element, boundary, mesh, causes>>
    BY <1>14 DEF vars
  <2>2. TypeOKFingerprint'
    BY <2>1 DEF IInv, TypeOKFingerprint
  <2>3. NodesStay
    BY <2>1 DEF IInv, TypeOKFingerprint, NodesStay
  <2> QED BY <2>1, <2>2, <2>3, Asked, ChainsStayThemselves
<1> QED BY <1>1, <1>2, <1>3, <1>4, <1>5, <1>6, <1>7, <1>8, <1>9, <1>10, <1>11, <1>12, <1>13, <1>14 DEF Next

(* Objects keep their shape, and what is cached says what is there as far as *)
(* nothing among the causes stands against it.                               *)
THEOREM InvariantAlways == Spec => []IInv
BY InitKeeps, NextKeeps, PTL DEF Spec

(* No sequence of calls gives an object a digest of another kind.            *)
THEOREM TypeAlways == Spec => []TypeOKFingerprint
<1>1. IInv => TypeOKFingerprint
  BY DEF IInv
<1> QED BY <1>1, InvariantAlways, PTL

-----------------------------------------------------------------------------
(* What is stale, and why. *)

LEMMA UntypedNode ==
  ASSUME NEW n, NEW t
  PROVE  Untyped(<<NodeText(n, t)>>) = NodeText(n, Default)
BY DEF Untyped, NodeText

LEMMA UntypedChain ==
  ASSUME NEW chain, NEW t, NEW at
  PROVE  Untyped(<<ChainText(chain, t, at)>>) = ChainText(chain, Default, at)
<1> DEFINE p == [i \in DOMAIN chain |-> at[chain[i]]]
<1>1. ChainText(chain, t, at) = [type |-> t, positions |-> p] /\ ChainText(chain, Default, at) = [type |-> Default, positions |-> p]
  BY DEF ChainText
<1> HIDE DEF p
<1>2. [[type |-> t, positions |-> p] EXCEPT !.type = Default] = [type |-> Default, positions |-> p]
  OBVIOUS
<1> QED BY <1>1, <1>2 DEF Untyped

LEMMA SayingExplains == IInv => StaleExplained
<1> SUFFICES ASSUME IInv PROVE StaleExplained
  OBVIOUS
<1>1. ASSUME "moved" \notin causes, NEW n \in Nodes
      PROVE  /\ Position(node[n]) = Exact[n]
             /\ node[n].hash # NoHash => Untyped(node[n].hash) = NodeText(n, Default)
  <2>1. NodesSay
    BY <1>1 DEF IInv, SayWhatIsThere
  <2>2. Position(node[n]) = Exact[n]
    BY <2>1 DEF NodesSay, Exact
  <2>3. ASSUME node[n].hash # NoHash PROVE Untyped(node[n].hash) = NodeText(n, Default)
    <3>1. PICK t \in Types : node[n].hash = <<NodeText(n, t)>>
      BY <2>1, <2>3 DEF NodesSay
    <3> QED BY <3>1, UntypedNode
  <2> QED BY <2>2, <2>3
<1>2. ASSUME causes \cap {"moved", "replaced"} = {}, NEW i \in DOMAIN boundary, boundary[i].hash # NoHash
      PROVE  Untyped(boundary[i].hash) = ChainText(boundary[i].nodes, Default, Exact)
  <2>1. PICK t \in Types : boundary[i].hash = <<ChainText(boundary[i].nodes, t, Exact)>>
    BY <1>2 DEF IInv, SayWhatIsThere, BoundariesSay
  <2> QED BY <2>1, UntypedChain
<1>3. ASSUME causes \cap {"moved", "replaced", "relinked"} = {}, NEW i \in DOMAIN element, element[i].hash # NoHash
      PROVE  Untyped(element[i].hash) = ChainText(element[i].nodes, Default, Exact)
  <2>1. PICK t \in Types : element[i].hash = <<ChainText(element[i].nodes, t, Exact)>>
    BY <1>3 DEF IInv, SayWhatIsThere, ElementsSay
  <2> QED BY <2>1, UntypedChain
<1>4. ASSUME causes = {}, mesh.hash # NoHash
      PROVE  /\ mesh.hash[1].type = mesh.type
             /\ \A n \in Nodes : Untyped(mesh.hash[1].nodes[n]) = NodeText(n, Default)
             /\ \A i \in DOMAIN element : Untyped(mesh.hash[1].elements[i]) = ChainText(element[i].nodes, Default, Exact)
             /\ \A i \in DOMAIN boundary : Untyped(mesh.hash[1].boundaries[i]) = ChainText(boundary[i].nodes, Default, Exact)
  <2>1. MeshSays
    BY <1>4 DEF IInv, SayWhatIsThere
  <2>2. /\ mesh.hash[1].type = mesh.type
        /\ \A n \in Nodes : \E t \in Types : mesh.hash[1].nodes[n] = <<NodeText(n, t)>>
        /\ \A i \in DOMAIN element :
             \E t \in Types : mesh.hash[1].elements[i] = <<ChainText(element[i].nodes, t, Exact)>>
        /\ \A i \in DOMAIN boundary :
             \E t \in Types : mesh.hash[1].boundaries[i] = <<ChainText(boundary[i].nodes, t, Exact)>>
    BY <1>4, <2>1 DEF MeshSays
  <2>3. \A n \in Nodes : Untyped(mesh.hash[1].nodes[n]) = NodeText(n, Default)
    BY <2>2, UntypedNode
  <2>4. ASSUME NEW i \in DOMAIN element
        PROVE  Untyped(mesh.hash[1].elements[i]) = ChainText(element[i].nodes, Default, Exact)
    <3>1. PICK t \in Types : mesh.hash[1].elements[i] = <<ChainText(element[i].nodes, t, Exact)>>
      BY <2>2
    <3> QED BY <3>1, UntypedChain
  <2>5. ASSUME NEW i \in DOMAIN boundary
        PROVE  Untyped(mesh.hash[1].boundaries[i]) = ChainText(boundary[i].nodes, Default, Exact)
    <3>1. PICK t \in Types : mesh.hash[1].boundaries[i] = <<ChainText(boundary[i].nodes, t, Exact)>>
      BY <2>2
    <3> QED BY <3>1, UntypedChain
  <2> QED BY <2>2, <2>3, <2>4, <2>5
<1> QED BY <1>1, <1>2, <1>3, <1>4 DEF StaleExplained

(* A cached hash of a node, an element, a boundary or the mesh is of what is *)
(* there, unless a call that forgets it is among the causes.                 *)
THEOREM StaleAlways == Spec => []StaleExplained
BY InvariantAlways, SayingExplains, PTL

-----------------------------------------------------------------------------
(* The forced hash of a mesh. *)

(* Chains hashed by force are right exactly when their nodes' positions are. *)
LEMMA ChainsExact ==
  ASSUME NEW N, N = Triangles \/ N = Chains, NEW s \in Seq(ChainStates(N)), NEW t
  PROVE  [i \in DOMAIN s |-> <<ChainText(s[i].nodes, t, Cached)>>] = [i \in DOMAIN s |-> <<ChainText(s[i].nodes, t, Exact)>>]
           <=> \A n \in OnAll(s) : Cached[n] = Exact[n]
<1> DEFINE c(i) == ChainText(s[i].nodes, t, Cached)
           x(i) == ChainText(s[i].nodes, t, Exact)
<1>1. ASSUME NEW i \in DOMAIN s PROVE c(i) = x(i) <=> \A n \in On(s[i].nodes) : Cached[n] = Exact[n]
  <2>1. s[i] \in ChainStates(N)
    BY ElementOfSeq
  <2>2. s[i].nodes \in Triangles \/ s[i].nodes \in Chains
    BY <2>1 DEF ChainStates
  <2>3. c(i) = x(i) => \A n \in On(s[i].nodes) : Cached[n] = Exact[n]
    BY <2>2, ChainTextEqual
  <2>4. (\A n \in On(s[i].nodes) : Cached[n] = Exact[n]) => c(i) = x(i)
    BY ChainTextSame
  <2> QED BY <2>3, <2>4
<1>2. (\A n \in OnAll(s) : Cached[n] = Exact[n])
        <=> \A i \in DOMAIN s : \A n \in On(s[i].nodes) : Cached[n] = Exact[n]
  BY DEF OnAll
<1> HIDE DEF c, x
<1>3. [i \in DOMAIN s |-> <<c(i)>>] = [i \in DOMAIN s |-> <<x(i)>>] <=> \A i \in DOMAIN s : c(i) = x(i)
  <2>1. ASSUME [i \in DOMAIN s |-> <<c(i)>>] = [i \in DOMAIN s |-> <<x(i)>>], NEW i \in DOMAIN s
        PROVE  c(i) = x(i)
    <3>1. [j \in DOMAIN s |-> <<c(j)>>][i] = [j \in DOMAIN s |-> <<x(j)>>][i]
      BY <2>1
    <3>2. <<c(i)>> = <<x(i)>>
      BY <3>1
    <3> QED BY <3>2
  <2> QED BY <2>1
<1>4. [i \in DOMAIN s |-> <<c(i)>>] = [i \in DOMAIN s |-> <<x(i)>>] <=> \A n \in OnAll(s) : Cached[n] = Exact[n]
  BY <1>1, <1>2, <1>3
<1> QED BY <1>4 DEF c, x

LEMMA ForcedStep ==
  IInv => (MeshHash(TRUE) =>
             (mesh'.hash = MeshTruth(mesh.type) <=> \A n \in Depends : Position(node[n]) = Exact[n]))
<1> SUFFICES ASSUME IInv, MeshHash(TRUE)
             PROVE  mesh'.hash = MeshTruth(mesh.type) <=> \A n \in Depends : Position(node[n]) = Exact[n]
  OBVIOUS
<1> DEFINE t == mesh.type
           es(at) == [i \in DOMAIN element |-> <<ChainText(element[i].nodes, t, at)>>]
           bs(at) == [i \in DOMAIN boundary |-> <<ChainText(boundary[i].nodes, t, at)>>]
           ns == [n \in Nodes |-> <<NodeText(n, t)>>]
<1>1. /\ TypeOKFingerprint /\ t \in Types
      /\ element \in Seq(ChainStates(Triangles)) /\ boundary \in Seq(ChainStates(Chains))
  BY DEF IInv, TypeOKFingerprint, MeshStates
<1>2. /\ \E set : node' = AllNodesMade(set, t, TRUE)
      /\ element' = AllMade(element, t, TRUE) /\ boundary' = AllMade(boundary, t, TRUE)
      /\ mesh' = [mesh EXCEPT !.hash = Digest(t, Hashes(node'), Hashes(element'), Hashes(boundary'))]
  BY <1>1, MeshHashMade
<1>3. Hashes(node') = ns
  BY <1>1, <1>2, NodesMade DEF Hashes
<1>4. Hashes(element') = es(Cached)
  <2>1. /\ DOMAIN element' = DOMAIN element
        /\ \A i \in DOMAIN element : element'[i].hash = <<ChainText(element[i].nodes, t, Cached)>>
    BY <1>1, <1>2, AllAreMade DEF ChainsStay, MadeOf
  <2> QED BY <2>1 DEF Hashes
<1>5. Hashes(boundary') = bs(Cached)
  <2>1. /\ DOMAIN boundary' = DOMAIN boundary
        /\ \A i \in DOMAIN boundary : boundary'[i].hash = <<ChainText(boundary[i].nodes, t, Cached)>>
    BY <1>1, <1>2, AllAreMade DEF ChainsStay, MadeOf
  <2> QED BY <2>1 DEF Hashes
<1>6. mesh'.hash = Digest(t, ns, es(Cached), bs(Cached))
  <2>1. mesh \in MeshStates
    BY <1>1 DEF TypeOKFingerprint
  <2> HIDE DEF t, ns, es, bs
  <2> QED BY <1>2, <1>3, <1>4, <1>5, <2>1 DEF MeshStates
<1>7. MeshTruth(t) = Digest(t, ns, es(Exact), bs(Exact))
  BY DEF MeshTruth
<1>8. es(Cached) = es(Exact) <=> \A n \in OnAll(element) : Cached[n] = Exact[n]
  BY <1>1, ChainsExact
<1>9. bs(Cached) = bs(Exact) <=> \A n \in OnAll(boundary) : Cached[n] = Exact[n]
  BY <1>1, ChainsExact
<1>10. \A n \in Depends : n \in Nodes
  <2>1. ASSUME NEW N, N = Triangles \/ N = Chains, NEW s \in Seq(ChainStates(N)), NEW n \in OnAll(s)
        PROVE  n \in Nodes
    <3>1. PICK i \in DOMAIN s : n \in On(s[i].nodes)
      BY DEF OnAll
    <3>2. s[i] \in ChainStates(N)
      BY ElementOfSeq
    <3>3. s[i].nodes \in Triangles \/ s[i].nodes \in Chains
      BY <2>1, <3>2 DEF ChainStates
    <3> QED BY <3>1, <3>3, ChainType DEF On
  <2> QED BY <1>1, <2>1 DEF Depends
<1>11. (\A n \in Depends : Cached[n] = Exact[n]) <=> \A n \in Depends : Position(node[n]) = Exact[n]
  BY <1>10 DEF Cached
<1> HIDE DEF t, ns, es, bs
<1>12. Digest(t, ns, es(Cached), bs(Cached)) = Digest(t, ns, es(Exact), bs(Exact))
         <=> es(Cached) = es(Exact) /\ bs(Cached) = bs(Exact)
  BY DEF Digest
<1>13. (\A n \in Depends : Cached[n] = Exact[n])
         <=> (\A n \in OnAll(element) : Cached[n] = Exact[n]) /\ (\A n \in OnAll(boundary) : Cached[n] = Exact[n])
  BY DEF Depends
<1>14. mesh'.hash = MeshTruth(t) <=> \A n \in Depends : Position(node[n]) = Exact[n]
  BY <1>6, <1>7, <1>8, <1>9, <1>11, <1>12, <1>13
<1> QED BY <1>14 DEF t

(* The forced hash of a mesh is of the mesh as it is, all of one type, exactly *)
(* when no node on an element or a boundary holds the position hash of another *)
(* place: no hash cached before has any other part in it.                      *)
THEOREM ForcedAlways == Spec => ForcedExact
BY InvariantAlways, ForcedStep, PTL DEF ForcedExact
=============================================================================
