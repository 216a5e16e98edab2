------------------------- MODULE NodalAttributesProofs -------------------------
(***************************************************************************)
(* What the nodal attributes keep to for all files, meshes and bounds and  *)
(* every order of calls.                                                   *)
(*                                                                         *)
(* First how read() fills a row and where it may stop, then the lines that *)
(* write() makes of one, which it numbers by rank; a call is then looked   *)
(* at once for the types and once for the promises.                        *)
(***************************************************************************)
EXTENDS NodalAttributes, FiniteSetTheorems, SequenceTheorems, WellFoundedInduction, TLAPS

-----------------------------------------------------------------------------
(* Numbers and sequences. *)

(* A set of natural numbers has a first element. *)
LEMMA FirstOf ==
  ASSUME NEW S \in SUBSET Nat, S # {}
  PROVE  \E i \in S : \A j \in S : i <= j
<1> DEFINE R == OpToRel(<, Nat)
<1>1. IsWellFoundedOn(R, Nat)
  BY NatLessThanWellFounded
<1> HIDE DEF R
<1>2. PICK i \in S : \A j \in S : <<j, i>> \notin R
  BY <1>1, WFMin
<1>3. ASSUME NEW j \in S, j < i PROVE FALSE
  <2>1. <<j, i>> \in R
    BY <1>3 DEF R, OpToRel
  <2> QED BY <1>2, <2>1
<1> QED BY <1>3

(* A set of positions has a last one: the mirror image has a first. *)
LEMMA LastOf ==
  ASSUME NEW n \in Nat, NEW S \in SUBSET (1..n), S # {}
  PROVE  \E i \in S : \A j \in S : j <= i
<1> DEFINE T == {n - i : i \in S}
<1>1. T \in SUBSET Nat
  OBVIOUS
<1>2. T # {}
  <2>1. PICK i \in S : TRUE
    OBVIOUS
  <2>2. n - i \in T
    BY <2>1
  <2> QED BY <2>2
<1>3. PICK t \in T : \A u \in T : t <= u
  <2> HIDE DEF T
  <2> QED BY <1>1, <1>2, FirstOf
<1>4. PICK i \in S : t = n - i
  OBVIOUS
<1>5. \A j \in S : n - i <= n - j
  BY <1>3, <1>4
<1> QED BY <1>5

LEMMA IsRow ==
  ASSUME NEW S, NEW n \in Nat, NEW s \in [1..n -> S]
  PROVE  s \in Seq(S) /\ Len(s) = n /\ DOMAIN s = 1..n
<1>1. s \in Seq(S)
  BY SeqDef
<1> QED BY <1>1, LenProperties

-----------------------------------------------------------------------------
(* Ranks: the position an element of a set of numbers has in its order. *)

Upto(S, j) == {k \in S : k <= j}

LEMMA UptoFinite ==
  ASSUME NEW n \in Nat, NEW S \in SUBSET (1..n), NEW j
  PROVE  /\ IsFiniteSet(S) /\ Cardinality(S) \in Nat
         /\ IsFiniteSet(Upto(S, j)) /\ Cardinality(Upto(S, j)) \in Nat
         /\ Cardinality(Upto(S, j)) <= Cardinality(S)
<1>1. IsFiniteSet(1..n)
  BY FS_Interval
<1>2. IsFiniteSet(S)
  BY <1>1, FS_Subset
<1>3. Upto(S, j) \in SUBSET S
  BY DEF Upto
<1> QED BY <1>2, <1>3, FS_Subset, FS_CardinalityType

LEMMA FewerElements ==
  ASSUME NEW B, IsFiniteSet(B), NEW A \in SUBSET B, NEW x \in B, x \notin A
  PROVE  Cardinality(A) < Cardinality(B)
<1>1. /\ IsFiniteSet(A)
      /\ Cardinality(A) <= Cardinality(B)
      /\ Cardinality(B) = Cardinality(A) => B = A
  BY FS_Subset
<1>2. Cardinality(A) \in Nat /\ Cardinality(B) \in Nat
  BY <1>1, FS_CardinalityType
<1>3. A # B
  OBVIOUS
<1>4. Cardinality(A) # Cardinality(B)
  BY <1>1, <1>3
<1> QED BY <1>1, <1>2, <1>4

(* Larger elements rank higher. *)
LEMMA RankRises ==
  ASSUME NEW n \in Nat, NEW S \in SUBSET (1..n), NEW j \in S, NEW k \in S, j < k
  PROVE  Cardinality(Upto(S, j)) < Cardinality(Upto(S, k))
<1> j \in Nat /\ k \in Nat /\ \A i \in S : i \in Nat
  OBVIOUS
<1>1. Upto(S, j) \in SUBSET Upto(S, k)
  <2>1. \A i \in S : i <= j => i <= k
    OBVIOUS
  <2> QED BY <2>1 DEF Upto
<1>2. k \in Upto(S, k) /\ k \notin Upto(S, j)
  BY DEF Upto
<1>3. IsFiniteSet(Upto(S, k))
  BY UptoFinite
<1> QED BY <1>1, <1>2, <1>3, FewerElements

(* Every rank up to the number of elements is that of an element: the least *)
(* number with as many elements up to it.                                   *)
LEMMA RankTaken ==
  ASSUME NEW n \in Nat, NEW S \in SUBSET (1..n), NEW r \in 1..Cardinality(S)
  PROVE  \E j \in S : Cardinality(Upto(S, j)) = r
<1> DEFINE T == {j \in 1..n : r <= Cardinality(Upto(S, j))}
<1>1. Cardinality(S) \in Nat
  BY UptoFinite
<1>2. Upto(S, n) = S /\ Upto(S, 0) = {}
  <2>1. \A i \in S : i \in Nat /\ i <= n /\ ~(i <= 0)
    OBVIOUS
  <2> QED BY <2>1 DEF Upto
<1>3. n # 0
  <2> SUFFICES ASSUME n = 0 PROVE FALSE
    OBVIOUS
  <2>1. S = {}
    OBVIOUS
  <2> QED BY <1>1, <2>1, FS_EmptySet
<1>4. n \in T
  BY <1>1, <1>2, <1>3
<1>5. PICK m \in T : \A k \in T : m <= k
  <2>1. T \in SUBSET Nat /\ T # {}
    BY <1>4
  <2> HIDE DEF T
  <2> QED BY <2>1, FirstOf
<1>6. Cardinality(Upto(S, m - 1)) < r /\ Cardinality(Upto(S, m - 1)) \in Nat
  <2>1. Cardinality(Upto(S, m - 1)) \in Nat
    BY UptoFinite
  <2>2. CASE m = 1
    BY <1>1, <1>2, <2>1, <2>2, FS_EmptySet
  <2>3. CASE m # 1
    <3>1. m - 1 \in 1..n /\ m - 1 \notin T
      BY <1>5, <2>3
    <3> QED BY <1>1, <2>1, <3>1
  <2> QED BY <2>2, <2>3
<1>7. Cardinality(Upto(S, m)) >= r /\ Cardinality(Upto(S, m)) \in Nat
  BY UptoFinite
<1>8. m \in S
  <2> SUFFICES ASSUME m \notin S PROVE FALSE
    OBVIOUS
  <2>1. \A i \in S : i <= m <=> i <= m - 1
    <3>1. \A i \in S : i # m /\ i \in Nat /\ m \in Nat
      OBVIOUS
    <3> QED BY <3>1
  <2>2. Upto(S, m) = Upto(S, m - 1)
    BY <2>1 DEF Upto
  <2> QED BY <1>1, <1>6, <1>7, <2>2
<1>9. Cardinality(Upto(S, m)) = Cardinality(Upto(S, m - 1)) + 1
  <2>0. /\ \A i \in S : i <= m <=> i <= m - 1 \/ i = m
        /\ ~(m <= m - 1)
    <3>1. m \in Nat /\ \A i \in S : i \in Nat
      OBVIOUS
    <3> QED BY <3>1
  <2>1. Upto(S, m) = Upto(S, m - 1) \cup {m} /\ m \notin Upto(S, m - 1)
    BY <1>8, <2>0 DEF Upto
  <2>2. IsFiniteSet(Upto(S, m - 1))
    BY UptoFinite
  <2> QED BY <2>1, <2>2, FS_AddElement
<1> QED BY <1>1, <1>6, <1>7, <1>8, <1>9

(* The element of a rank. *)
OfRank(S, r) == CHOOSE j \in S : Cardinality(Upto(S, j)) = r

LEMMA OfRankIs ==
  ASSUME NEW n \in Nat, NEW S \in SUBSET (1..n)
  PROVE  /\ \A r \in 1..Cardinality(S) : OfRank(S, r) \in S
         /\ \A j \in S : \E r \in 1..Cardinality(S) : OfRank(S, r) = j
<1>1. ASSUME NEW r \in 1..Cardinality(S)
      PROVE  OfRank(S, r) \in S /\ Cardinality(Upto(S, OfRank(S, r))) = r
  BY RankTaken DEF OfRank
<1>2. ASSUME NEW j \in S
      PROVE  \E r \in 1..Cardinality(S) : OfRank(S, r) = j
  <2> DEFINE r == Cardinality(Upto(S, j))
  <2>1. r \in Nat /\ Cardinality(S) \in Nat /\ r <= Cardinality(S) /\ IsFiniteSet(Upto(S, j))
    BY UptoFinite
  <2>2. r # 0
    <3>1. j \in Upto(S, j)
      BY DEF Upto
    <3> QED BY <2>1, <3>1, FS_EmptySet
  <2>3. r \in 1..Cardinality(S)
    BY <2>1, <2>2
  <2>4. OfRank(S, r) \in S /\ Cardinality(Upto(S, OfRank(S, r))) = r
    BY <1>1, <2>3
  <2> HIDE DEF r
  <2>5. ~(OfRank(S, r) < j) /\ ~(j < OfRank(S, r))
    <3>1. CASE OfRank(S, r) < j
      <4>1. Cardinality(Upto(S, OfRank(S, r))) < Cardinality(Upto(S, j))
        BY <2>4, <3>1, RankRises
      <4> QED BY <2>1, <2>4, <4>1 DEF r
    <3>2. CASE j < OfRank(S, r)
      <4>1. Cardinality(Upto(S, j)) < Cardinality(Upto(S, OfRank(S, r)))
        BY <2>4, <3>2, RankRises
      <4> QED BY <2>1, <2>4, <4>1 DEF r
    <3> QED BY <3>1, <3>2
  <2>6. OfRank(S, r) \in Nat /\ j \in Nat
    <3>1. \A i \in S : i \in Nat
      OBVIOUS
    <3> QED BY <2>4, <3>1
  <2>7. OfRank(S, r) = j
    BY <2>5, <2>6
  <2> QED BY <2>3, <2>7
<1> QED BY <1>1, <1>2

-----------------------------------------------------------------------------
(* Meshes and files. *)

AllNames == Names \cup {Unnamed}

LEMMA MeshTyped ==
  ASSUME mesh \in Meshes \cup {NoMesh}
  PROVE  /\ mesh \in Seq(Nat) /\ Len(mesh) \in Nat /\ DOMAIN mesh = 1..Len(mesh)
         /\ \A j \in 1..Len(mesh) : mesh[j] \in Nat
<1>1. NoMesh \in Seq(Nat)
  BY EmptySeq DEF NoMesh
<1>2. mesh \in Seq(Nat)
  BY <1>1, AttributesAssumption
<1> QED BY <1>2, LenProperties, ElementOfSeq

(* A number of the mesh is found at a place that has it, any at some place. *)
LEMMA NodeFound ==
  ASSUME mesh \in Meshes \cup {NoMesh}
  PROVE  /\ \A n \in Nat : IndexById(n) \in Nat
         /\ \A j \in 1..Len(mesh) : /\ IndexById(mesh[j]) \in 1..Len(mesh)
                                     /\ mesh[IndexById(mesh[j])] = mesh[j]
<1>1. Len(mesh) \in Nat /\ DOMAIN mesh = 1..Len(mesh)
  BY MeshTyped
<1>2. ASSUME NEW n, PlacesOf(n) # {}
      PROVE  (CHOOSE j \in PlacesOf(n) : \A k \in PlacesOf(n) : k <= j) \in PlacesOf(n)
  <2>1. PlacesOf(n) \in SUBSET (1..Len(mesh))
    BY <1>1 DEF PlacesOf
  <2>2. \E j \in PlacesOf(n) : \A k \in PlacesOf(n) : k <= j
    BY <1>1, <1>2, <2>1, LastOf
  <2> QED BY <2>2
<1>3. ASSUME NEW n, PlacesOf(n) # {}, ~Ordered
      PROVE  IndexById(n) \in 1..Len(mesh) /\ mesh[IndexById(n)] = n
  BY <1>1, <1>2, <1>3 DEF IndexById, PlacesOf
<1>4. ASSUME NEW n \in Nat PROVE IndexById(n) \in Nat
  <2>1. CASE Ordered \/ PlacesOf(n) = {}
    BY <2>1 DEF IndexById
  <2>2. CASE ~(Ordered \/ PlacesOf(n) = {})
    BY <1>1, <1>3, <2>2
  <2> QED BY <2>1, <2>2
<1>5. ASSUME NEW j \in 1..Len(mesh)
      PROVE  IndexById(mesh[j]) \in 1..Len(mesh) /\ mesh[IndexById(mesh[j])] = mesh[j]
  <2>1. CASE Ordered
    BY <1>1, <2>1 DEF IndexById, Ordered
  <2>2. CASE ~Ordered
    <3>1. j \in PlacesOf(mesh[j])
      BY <1>1 DEF PlacesOf
    <3> QED BY <1>3, <2>2, <3>1
  <2> QED BY <2>1, <2>2
<1> QED BY <1>4, <1>5

(* In a mesh that gives no number twice that place is the only one. *)
LEMMA NodeFoundOnce ==
  ASSUME mesh \in Meshes \cup {NoMesh}, Distinct(mesh), NEW j \in 1..Len(mesh)
  PROVE  IndexById(mesh[j]) = j
<1>1. DOMAIN mesh = 1..Len(mesh)
  BY MeshTyped
<1>2. IndexById(mesh[j]) \in 1..Len(mesh) /\ mesh[IndexById(mesh[j])] = mesh[j]
  BY NodeFound
<1> QED BY <1>1, <1>2 DEF Distinct

LEMMA FileTyped ==
  ASSUME NEW f \in Fort13
  PROVE  /\ f \in File /\ f.nodes \in Nat /\ f.count \in Nat
         /\ f.header \in Seq(Metadata) /\ Len(f.header) = f.count
         /\ DOMAIN f.header = 1..f.count
         /\ \A i \in 1..f.count :
              /\ f.header[i] \in Metadata /\ f.header[i].name \in AllNames
              /\ f.header[i].size \in Nat \ {0}
              /\ f.header[i].default \in Seq(Values)
              /\ ~ShortDefault(f) => Len(f.header[i].default) = f.header[i].size
              /\ f.body[i].name \in AllNames /\ f.body[i].count \in Nat
              /\ Len(Entries(f, i)) \in Nat /\ Len(Entries(f, i)) <= f.body[i].count
              /\ DOMAIN Entries(f, i) = 1..Len(Entries(f, i))
              /\ \A k \in 1..Len(Entries(f, i)) :
                   /\ Entries(f, i)[k].node \in Nat
                   /\ Entries(f, i)[k].values \in Seq(Values)
<1>1. f \in File
  BY AttributesAssumption
<1>2. /\ f.nodes \in Nat /\ f.count \in Nat
      /\ f.header \in Seq(Metadata) /\ f.body \in Seq(Section)
  BY <1>1 DEF File
<1>3. Len(f.header) = f.count /\ Len(f.body) = f.count
  BY AttributesAssumption
<1>4. ASSUME NEW i \in 1..f.count
      PROVE  /\ f.header[i] \in Metadata /\ f.header[i].name \in AllNames
             /\ f.header[i].size \in Nat \ {0}
             /\ f.header[i].default \in Seq(Values)
             /\ ~ShortDefault(f) => Len(f.header[i].default) = f.header[i].size
  <2>1. f.header[i] \in Metadata
    BY <1>2, <1>3, ElementOfSeq
  <2>2. /\ f.header[i].size > 0
        /\ Len(f.header[i].default) <= f.header[i].size
        /\ i < f.count => Len(f.header[i].default) = f.header[i].size
    BY AttributesAssumption
  <2>3. f.header[i].size \in Nat /\ f.header[i].default \in Seq(Values)
    BY <2>1 DEF Metadata
  <2>4. ~ShortDefault(f) => Len(f.header[i].default) = f.header[i].size
    <3>1. Len(f.header[i].default) \in Nat
      BY <2>3, LenProperties
    <3>2. i < f.count \/ i = f.count
      BY <1>2
    <3> QED BY <1>2, <2>2, <2>3, <3>1, <3>2 DEF ShortDefault
  <2> QED BY <2>1, <2>2, <2>3, <2>4 DEF Metadata, AllNames
<1>5. ASSUME NEW i \in 1..f.count
      PROVE  /\ f.body[i].name \in AllNames /\ f.body[i].count \in Nat
             /\ Len(Entries(f, i)) \in Nat /\ Len(Entries(f, i)) <= f.body[i].count
             /\ DOMAIN Entries(f, i) = 1..Len(Entries(f, i))
             /\ \A k \in 1..Len(Entries(f, i)) :
                  /\ Entries(f, i)[k].node \in Nat
                  /\ Entries(f, i)[k].values \in Seq(Values)
  <2> DEFINE E == [node : Nat, values : Seq(Values)]
  <2>1. f.body[i] \in Section
    BY <1>2, <1>3, ElementOfSeq
  <2>2. f.body[i].name \in AllNames /\ f.body[i].count \in Nat /\ f.body[i].entries \in Seq(E)
    BY <2>1 DEF Section, AllNames
  <2>3. Len(f.body[i].entries) <= f.body[i].count
    BY AttributesAssumption
  <2>4. /\ Len(f.body[i].entries) \in Nat
        /\ DOMAIN f.body[i].entries = 1..Len(f.body[i].entries)
        /\ \A k \in 1..Len(f.body[i].entries) : f.body[i].entries[k] \in E
    BY <2>2, LenProperties, ElementOfSeq
  <2> QED BY <2>2, <2>3, <2>4 DEF Entries
<1>6. DOMAIN f.header = 1..f.count
  BY <1>2, <1>3, LenProperties
<1> QED BY <1>1, <1>2, <1>3, <1>4, <1>5, <1>6

-----------------------------------------------------------------------------
(* Rows. *)

(* What the calls of read() need of the object they find. *)
Rowed ==
  /\ mesh \in Meshes \cup {NoMesh}
  /\ numNodes \in Nat
  /\ data \in Seq(Seq(Attribute))

LEMMA RowsTyped ==
  ASSUME Rowed
  PROVE  /\ Len(data) \in Nat /\ DOMAIN data = 1..Len(data)
         /\ \A i \in 1..Len(data) :
              /\ data[i] \in Seq(Attribute)
              /\ Len(data[i]) \in Nat /\ DOMAIN data[i] = 1..Len(data[i])
              /\ \A j \in 1..Len(data[i]) : data[i][j] \in Attribute
<1>1. Len(data) \in Nat /\ DOMAIN data = 1..Len(data)
      /\ \A i \in 1..Len(data) : data[i] \in Seq(Attribute)
  BY LenProperties, ElementOfSeq DEF Rowed
<1> QED BY <1>1, LenProperties, ElementOfSeq

(* The row is numbered as far as the mesh goes. *)
NumberedRow(f, row) ==
  /\ row \in Seq(Attribute) /\ Len(row) = RowsOf(f) /\ DOMAIN row = 1..RowsOf(f)
  /\ \A j \in 1..RowsOf(f) : mesh = NoMesh \/ j <= Len(mesh) => row[j].id = NumberAt(j)

LEMMA RowsOfTyped ==
  ASSUME Rowed, NEW f \in Fort13
  PROVE  RowsOf(f) \in Nat
  BY FileTyped DEF Rowed, RowsOf

LEMMA ResizedRow ==
  ASSUME Rowed, NEW f \in Fort13, NEW i \in 1..f.count
  PROVE  NumberedRow(f, Resized(f, i))
<1> DEFINE Fresh == [id |-> 0, values |-> <<0>>, node |-> 0]
           old(j) == IF i <= Len(data) /\ j <= Len(data[i]) THEN data[i][j] ELSE Fresh
<1>1. RowsOf(f) \in Nat
  BY RowsOfTyped
<1>2. Fresh \in Attribute
  <2>1. <<0>> \in Seq(Values)
    BY AttributesAssumption
  <2> QED BY <2>1 DEF Attribute
<1>3. ASSUME NEW j \in 1..RowsOf(f) PROVE old(j) \in Attribute
  <2>1. CASE i <= Len(data) /\ j <= Len(data[i])
    <3>1. f.count \in Nat /\ Len(data) \in Nat
      BY FileTyped, RowsTyped
    <3>2. i \in 1..Len(data)
      BY <2>1, <3>1
    <3>3. j \in 1..Len(data[i])
      BY <1>1, <2>1, <3>2, RowsTyped
    <3> QED BY <2>1, <3>2, <3>3, RowsTyped
  <2>2. CASE ~(i <= Len(data) /\ j <= Len(data[i]))
    BY <1>2, <2>2
  <2> QED BY <2>1, <2>2
<1> HIDE DEF old
<1>4. ASSUME NEW j \in 1..RowsOf(f), mesh = NoMesh \/ j <= Len(mesh)
      PROVE  NumberAt(j) \in Nat
  <2>1. CASE mesh = NoMesh
    BY <1>1, <2>1 DEF NumberAt
  <2>2. CASE mesh # NoMesh
    <3>1. j \in 1..Len(mesh)
      BY <1>1, <1>4, <2>2, MeshTyped DEF Rowed
    <3> QED BY <2>2, <3>1, MeshTyped DEF Rowed, NumberAt
  <2> QED BY <2>1, <2>2
<1> DEFINE new(j) == IF mesh = NoMesh \/ j <= Len(mesh)
                       THEN [old(j) EXCEPT !.id = NumberAt(j)] ELSE old(j)
<1>5. ASSUME NEW j \in 1..RowsOf(f)
      PROVE  /\ new(j) \in Attribute
             /\ mesh = NoMesh \/ j <= Len(mesh) => new(j).id = NumberAt(j)
  BY <1>3, <1>4 DEF Attribute
<1>6. Resized(f, i) = [j \in 1..RowsOf(f) |-> new(j)]
  BY DEF Resized, old
<1> HIDE DEF new
<1>7. Resized(f, i) \in [1..RowsOf(f) -> Attribute]
  BY <1>5, <1>6
<1> QED BY <1>1, <1>5, <1>6, <1>7, IsRow DEF NumberedRow

LEMMA FilledRow ==
  ASSUME Rowed, NEW f \in Fort13, NEW i \in 1..f.count
  PROVE  /\ NumberedRow(f, Filled(f, i))
         /\ \A j \in 1..RowsOf(f) : Filled(f, i)[j].values = f.header[i].default
<1>1. RowsOf(f) \in Nat
  BY RowsOfTyped
<1>2. NumberedRow(f, Resized(f, i))
  BY ResizedRow
<1>3. f.header[i].default \in Seq(Values)
  BY FileTyped
<1>4. ASSUME NEW j \in 1..RowsOf(f)
      PROVE  /\ [Resized(f, i)[j] EXCEPT !.values = f.header[i].default] \in Attribute
             /\ Filled(f, i)[j].id = Resized(f, i)[j].id
             /\ Filled(f, i)[j].values = f.header[i].default
  <2>1. Resized(f, i)[j] \in Attribute
    BY <1>1, <1>2, ElementOfSeq DEF NumberedRow
  <2> QED BY <1>3, <2>1 DEF Filled, Attribute
<1>5. Filled(f, i) \in [1..RowsOf(f) -> Attribute]
  BY <1>4 DEF Filled
<1> QED BY <1>1, <1>2, <1>4, <1>5, IsRow DEF NumberedRow

-----------------------------------------------------------------------------
(* The table of names. *)

LocationsTyped(table) ==
  /\ DOMAIN table \subseteq AllNames
  /\ \A n \in DOMAIN table : table[n] \in Nat \ {0}

LEMMA LocatedIs ==
  ASSUME LocationsTyped(locations), NEW f, f.count \in Int,
         \A i \in 1..f.count : f.header[i].name \in AllNames
  PROVE  /\ LocationsTyped(Located(f))
         /\ \A i \in 1..f.count :
              LET n == f.header[i].name IN
                /\ n \in DOMAIN Located(f)
                /\ Located(f)[n] \in 1..f.count
                /\ f.header[Located(f)[n]].name = n
<1> DEFINE Having(n) == {i \in 1..f.count : f.header[i].name = n}
           dom == DOMAIN locations \cup {f.header[i].name : i \in 1..f.count}
           last(n) == CHOOSE i \in 1..f.count :
                        /\ f.header[i].name = n
                        /\ \A k \in 1..f.count : f.header[k].name = n => k <= i
<1>1. ASSUME NEW n, \E i \in 1..f.count : f.header[i].name = n
      PROVE  last(n) \in 1..f.count /\ f.header[last(n)].name = n
  <2>1. Having(n) \in SUBSET (1..f.count) /\ Having(n) # {} /\ f.count \in Nat
    BY <1>1
  <2> HIDE DEF Having
  <2>2. PICK i \in Having(n) : \A k \in Having(n) : k <= i
    BY <2>1, LastOf
  <2>3. \E m \in 1..f.count : /\ f.header[m].name = n
                              /\ \A k \in 1..f.count : f.header[k].name = n => k <= m
    BY <2>2 DEF Having
  <2> QED BY <2>3
<1> HIDE DEF last
<1>2. Located(f) = [n \in dom |-> IF \E i \in 1..f.count : f.header[i].name = n
                                    THEN last(n) ELSE locations[n]]
  BY DEF Located, last
<1>3. ASSUME NEW n \in dom PROVE n \in AllNames /\ Located(f)[n] \in Nat \ {0}
  BY <1>1, <1>2 DEF LocationsTyped
<1>4. LocationsTyped(Located(f))
  BY <1>2, <1>3 DEF LocationsTyped
<1>5. ASSUME NEW i \in 1..f.count
      PROVE  LET n == f.header[i].name IN
               /\ n \in DOMAIN Located(f)
               /\ Located(f)[n] \in 1..f.count
               /\ f.header[Located(f)[n]].name = n
  BY <1>1, <1>2
<1> QED BY <1>4, <1>5

LEMMA NamedIs ==
  ASSUME LocationsTyped(locations), NEW f \in Fort13, NEW i \in 1..f.count
  PROVE  /\ Named(f, i) \in Nat \ {0}
         /\ \A h \in 1..f.count :
              f.body[i].name = f.header[h].name =>
                /\ Named(f, i) \in 1..f.count
                /\ f.header[Named(f, i)].name = f.header[h].name
                /\ f.body[i].name \in DOMAIN Located(f)
<1>1. /\ f.count \in Int
      /\ \A h \in 1..f.count : f.header[h].name \in AllNames
  BY FileTyped
<1> QED BY <1>1, LocatedIs DEF Named, LocationsTyped

LEMMA NamesMetTyped ==
  ASSUME LocationsTyped(locations), NEW f \in Fort13, NEW last \in 0..f.count
  PROVE  LocationsTyped(NamesMet(f, last))
<1>1. /\ f.count \in Nat
      /\ \A h \in 1..f.count : f.header[h].name \in AllNames /\ f.body[h].name \in AllNames
  BY FileTyped
<1>2. LocationsTyped(Located(f))
  BY <1>1, LocatedIs
<1>3. \A h \in 1..last : h \in 1..f.count
  BY <1>1
<1> QED BY <1>1, <1>2, <1>3 DEF NamesMet, LocationsTyped

-----------------------------------------------------------------------------
(* The body: the lines read, and where reading stops. *)

(* The first n lines of section i are there and read well. *)
LinesRead(f, i, n) ==
  /\ n \in Nat
  /\ Named(f, i) \in 1..f.count
  /\ \A k \in 1..n : LineEnds(f, i, k) = "ok"

LEMMA LineRead ==
  ASSUME Rowed, NEW f \in Fort13, NEW i \in 1..f.count, NEW n, LinesRead(f, i, n),
         NEW k \in 1..n
  PROVE  LET line == Entries(f, i)[k] IN
         /\ k \in 1..Len(Entries(f, i))
         /\ line.node \in Nat /\ Place(line.node) \in 1..RowsOf(f)
         /\ Entered(f, i, line.values) \in Seq(Values)
         /\ f.header[Named(f, i)].size # 1 => Len(line.values) = f.header[i].size
         /\ line.values \in Seq(Values) /\ line.values # <<>>
<1> DEFINE line == Entries(f, i)[k]
<1>1. /\ Len(Entries(f, i)) \in Nat
      /\ \A l \in 1..Len(Entries(f, i)) :
           Entries(f, i)[l].node \in Nat /\ Entries(f, i)[l].values \in Seq(Values)
  BY FileTyped
<1>2. LineEnds(f, i, k) = "ok" /\ n \in Nat
  BY DEF LinesRead
<1>3. /\ ~(k > Len(Entries(f, i))) /\ line.values # <<>>
      /\ Place(line.node) \in 1..RowsOf(f)
      /\ f.header[Named(f, i)].size # 1 => Len(line.values) = f.header[i].size
  BY <1>2 DEF LineEnds, Rows
<1>4. k \in 1..Len(Entries(f, i)) /\ line.node \in Nat /\ line.values \in Seq(Values)
  BY <1>1, <1>2, <1>3
<1> HIDE DEF line
<1>5. Entered(f, i, line.values) \in Seq(Values)
  <2>1. line.values[1] \in Values
    <3>1. Len(line.values) \in Nat /\ Len(line.values) # 0
      BY <1>3, <1>4, LenProperties, EmptySeq
    <3> QED BY <1>4, <3>1, ElementOfSeq
  <2>2. f.header[i].size \in Nat
    BY FileTyped
  <2>3. [x \in 1..f.header[i].size |-> line.values[1]] \in Seq(Values)
    BY <2>1, <2>2, IsASeq
  <2> QED BY <1>4, <2>3 DEF Entered
<1> QED BY <1>3, <1>4, <1>5 DEF line

(* The lines of a section that are for row j. *)
LinesFor(f, i, n, j) == {k \in 1..n : Place(Entries(f, i)[k].node) = j}

LEMMA ReadRow ==
  ASSUME Rowed, NEW f \in Fort13, NEW i \in 1..f.count, NEW n, LinesRead(f, i, n)
  PROVE  /\ RowAfter(f, i, n) \in Seq(Attribute)
         /\ Len(RowAfter(f, i, n)) = RowsOf(f)
         /\ DOMAIN RowAfter(f, i, n) = 1..RowsOf(f)
         /\ \A j \in 1..RowsOf(f) :
              \/ LinesFor(f, i, n, j) = {} /\ RowAfter(f, i, n)[j] = Filled(f, i)[j]
              \/ \E last \in LinesFor(f, i, n, j) :
                   /\ \A k \in LinesFor(f, i, n, j) : k <= last
                   /\ RowAfter(f, i, n)[j].id = Entries(f, i)[last].node
                   /\ RowAfter(f, i, n)[j].values = Entered(f, i, Entries(f, i)[last].values)
<1> DEFINE for(j) == LinesFor(f, i, n, j)
           final(j) == CHOOSE k \in for(j) : \A l \in for(j) : l <= k
           new(j) == IF for(j) = {} THEN Filled(f, i)[j]
                     ELSE [Filled(f, i)[j] EXCEPT
                             !.id = Entries(f, i)[final(j)].node,
                             !.values = Entered(f, i, Entries(f, i)[final(j)].values)]
<1>1. RowsOf(f) \in Nat /\ NumberedRow(f, Filled(f, i))
  BY RowsOfTyped, FilledRow
<1>2. RowAfter(f, i, n) = [j \in 1..RowsOf(f) |-> new(j)]
  BY DEF RowAfter, Rows, LinesFor
<1>3. ASSUME NEW j \in 1..RowsOf(f), for(j) # {}
      PROVE  final(j) \in for(j) /\ \A l \in for(j) : l <= final(j)
  <2>1. n \in Nat /\ for(j) \in SUBSET (1..n)
    BY DEF LinesRead, LinesFor
  <2>2. \E k \in for(j) : \A l \in for(j) : l <= k
    BY <1>3, <2>1, LastOf
  <2> QED BY <2>2
<1>4. ASSUME NEW j \in 1..RowsOf(f) PROVE Filled(f, i)[j] \in Attribute
  BY <1>1, ElementOfSeq DEF NumberedRow
<1>5. ASSUME NEW j \in 1..RowsOf(f)
      PROVE  /\ new(j) \in Attribute
             /\ for(j) # {} => /\ new(j).id = Entries(f, i)[final(j)].node
                               /\ new(j).values = Entered(f, i, Entries(f, i)[final(j)].values)
  <2>1. CASE for(j) = {}
    BY <1>4, <2>1
  <2>2. CASE for(j) # {}
    <3>1. final(j) \in 1..n
      BY <1>3, <2>2 DEF LinesFor
    <3> HIDE DEF final, for
    <3>2. /\ Entries(f, i)[final(j)].node \in Nat
          /\ Entered(f, i, Entries(f, i)[final(j)].values) \in Seq(Values)
      BY <3>1, LineRead
    <3> QED BY <1>4, <2>2, <3>2 DEF Attribute
  <2> QED BY <2>1, <2>2
<1> HIDE DEF new, for, final
<1>6. RowAfter(f, i, n) \in [1..RowsOf(f) -> Attribute]
  BY <1>2, <1>5
<1>7. ASSUME NEW j \in 1..RowsOf(f)
      PROVE  \/ for(j) = {} /\ RowAfter(f, i, n)[j] = Filled(f, i)[j]
             \/ \E last \in for(j) :
                  /\ \A k \in for(j) : k <= last
                  /\ RowAfter(f, i, n)[j].id = Entries(f, i)[last].node
                  /\ RowAfter(f, i, n)[j].values = Entered(f, i, Entries(f, i)[last].values)
  <2>1. CASE for(j) = {}
    BY <1>2, <2>1 DEF new
  <2>2. CASE for(j) # {}
    BY <1>2, <1>3, <1>5, <2>2
  <2> QED BY <2>1, <2>2
<1> QED BY <1>1, <1>6, <1>7, IsRow DEF for

LEMMA StopsAre ==
  ASSUME NEW f \in Fort13
  PROVE  /\ \A i \in 1..f.count : StopsIn(f, i) \in SUBSET Nat
         /\ \A a \in Stops(f) : \E i \in 1..f.count : \E k \in StopsIn(f, i) : a = <<i, k>>
         /\ \A i \in 1..f.count : \A k \in StopsIn(f, i) : <<i, k>> \in Stops(f)
<1>1. ASSUME NEW i \in 1..f.count PROVE StopsIn(f, i) \in SUBSET Nat
  <2>1. f.body[i].count \in Nat
    BY FileTyped
  <2> QED BY <2>1 DEF StopsIn
<1>2. \A a \in Stops(f) : \E i \in 1..f.count : \E k \in StopsIn(f, i) : a = <<i, k>>
  BY DEF Stops
<1>3. \A i \in 1..f.count : \A k \in StopsIn(f, i) : <<i, k>> \in Stops(f)
  BY DEF Stops
<1> QED BY <1>1, <1>2, <1>3

(* Reading stops in the first section where it may, at its first line. *)
LEMMA StopIs ==
  ASSUME NEW f \in Fort13, Stops(f) # {}
  PROVE  /\ Stop(f)[1] \in 1..f.count
         /\ Stop(f)[2] \in StopsIn(f, Stop(f)[1])
         /\ \A k \in StopsIn(f, Stop(f)[1]) : Stop(f)[2] <= k
         /\ \A i \in 1..f.count : i < Stop(f)[1] => StopsIn(f, i) = {}
<1> DEFINE I == {i \in 1..f.count : StopsIn(f, i) # {}}
<1>1. I \in SUBSET Nat
  OBVIOUS
<1>2. I # {}
  BY StopsAre
<1>3. PICK i \in I : \A j \in I : i <= j
  <2> HIDE DEF I
  <2> QED BY <1>1, <1>2, FirstOf
<1>4. StopsIn(f, i) \in SUBSET Nat /\ StopsIn(f, i) # {}
  BY StopsAre
<1>5. PICK k \in StopsIn(f, i) : \A l \in StopsIn(f, i) : k <= l
  BY <1>4, FirstOf
<1>6. <<i, k>> \in Stops(f)
  BY StopsAre
<1>7. ASSUME NEW b \in Stops(f) PROVE Before(<<i, k>>, b)
  <2>1. PICK j \in 1..f.count : \E l \in StopsIn(f, j) : b = <<j, l>>
    BY StopsAre
  <2> PICK l \in StopsIn(f, j) : b = <<j, l>>
    BY <2>1
  <2>2. i <= j /\ i \in Nat /\ j \in Nat
    BY <1>3
  <2>3. i < j \/ i = j
    BY <2>2
  <2> QED BY <1>5, <2>1, <2>3 DEF Before
<1>8. /\ Stop(f) \in Stops(f)
      /\ \A b \in Stops(f) : Before(Stop(f), b)
  BY <1>6, <1>7 DEF Stop
<1>9. PICK p \in 1..f.count : \E q \in StopsIn(f, p) : Stop(f) = <<p, q>>
  BY <1>8, StopsAre
<1> PICK q \in StopsIn(f, p) : Stop(f) = <<p, q>>
  BY <1>9
<1>10. q \in Nat /\ p \in Nat
  BY StopsAre
<1>11. ASSUME NEW l \in StopsIn(f, p) PROVE q <= l
  <2>1. Before(<<p, q>>, <<p, l>>)
    BY <1>8, <1>9, StopsAre
  <2> QED BY <1>10, <2>1 DEF Before
<1>12. ASSUME NEW j \in 1..f.count, j < p PROVE StopsIn(f, j) = {}
  <2> SUFFICES ASSUME NEW l \in StopsIn(f, j) PROVE FALSE
    OBVIOUS
  <2>1. Before(<<p, q>>, <<j, l>>)
    BY <1>8, <1>9, StopsAre
  <2> QED BY <1>10, <1>12, <2>1 DEF Before
<1> QED BY <1>9, <1>11, <1>12

(* Before that the lines are read well. *)
LEMMA SectionRead ==
  ASSUME LocationsTyped(locations), NEW f \in Fort13, NEW i \in 1..f.count
  PROVE  /\ StopsIn(f, i) = {} => /\ LinesRead(f, i, f.body[i].count)
                                  /\ f.body[i].count = Len(Entries(f, i))
         /\ \A k \in StopsIn(f, i) :
              /\ k = 0 => ~(Named(f, i) \in 1..f.count)
              /\ k > 0 /\ (\A l \in StopsIn(f, i) : k <= l) => LinesRead(f, i, k - 1)
              /\ k > 0 => LineEnds(f, i, k) # "ok"
<1> DEFINE n == f.body[i].count
<1>1. /\ n \in Nat /\ f.count \in Nat
      /\ Len(Entries(f, i)) \in Nat /\ Len(Entries(f, i)) <= n
  BY FileTyped
<1>2. Named(f, i) \in Nat \ {0}
  BY NamedIs
<1> HIDE DEF n
<1>3. CASE Named(f, i) > f.count
  <2>1. StopsIn(f, i) = {0}
    BY <1>3 DEF StopsIn
  <2> QED BY <1>1, <1>2, <1>3, <2>1
<1>4. CASE ~(Named(f, i) > f.count)
  <2>1. Named(f, i) \in 1..f.count
    BY <1>1, <1>2, <1>4
  <2>2. StopsIn(f, i) = {k \in 1..n : LineEnds(f, i, k) # "ok"}
    BY <1>4 DEF StopsIn, n
  <2>3. ASSUME StopsIn(f, i) = {} PROVE LinesRead(f, i, n) /\ n = Len(Entries(f, i))
    <3>1. \A k \in 1..n : LineEnds(f, i, k) = "ok"
      BY <2>2, <2>3
    <3>2. n <= Len(Entries(f, i))
      <4>1. CASE n = 0
        BY <1>1, <4>1
      <4>2. CASE n # 0
        <5>1. n \in 1..n
          BY <1>1, <4>2
        <5>2. LineEnds(f, i, n) = "ok"
          BY <3>1, <5>1
        <5>3. ~(n > Len(Entries(f, i)))
          BY <5>2 DEF LineEnds
        <5> QED BY <1>1, <5>3
      <4> QED BY <4>1, <4>2
    <3> QED BY <1>1, <2>1, <3>1, <3>2 DEF LinesRead
  <2>4. ASSUME NEW k \in StopsIn(f, i), \A l \in StopsIn(f, i) : k <= l
        PROVE  LinesRead(f, i, k - 1)
    <3>1. k \in 1..n
      BY <2>2
    <3>2. ASSUME NEW l \in 1..(k - 1) PROVE LineEnds(f, i, l) = "ok"
      <4>1. l \in 1..n /\ ~(k <= l)
        BY <1>1, <3>1
      <4>2. l \notin StopsIn(f, i)
        BY <2>4, <4>1
      <4> QED BY <2>2, <4>1, <4>2
    <3> QED BY <1>1, <2>1, <3>1, <3>2 DEF LinesRead
  <2>5. \A k \in StopsIn(f, i) : k \in 1..n /\ k # 0 /\ LineEnds(f, i, k) # "ok"
    BY <1>1, <2>2
  <2> QED BY <2>3, <2>4, <2>5 DEF n
<1> QED BY <1>3, <1>4

-----------------------------------------------------------------------------
(* Types. *)

LEMMA TypesSay ==
  ASSUME TypeOKAttributes
  PROVE  Rowed /\ LocationsTyped(locations) /\ params \in Seq(Metadata) /\ Len(params) \in Nat
BY LenProperties DEF TypeOKAttributes, Rowed, LocationsTyped, AllNames

LEMMA MappedRow ==
  ASSUME Rowed, NEW row \in Seq(Attribute)
  PROVE  /\ MapNodes(row) \in Seq(Attribute)
         /\ Len(MapNodes(row)) = Len(row) /\ DOMAIN MapNodes(row) = 1..Len(row)
         /\ \A j \in 1..Len(row) :
              /\ MapNodes(row)[j].id = row[j].id
              /\ MapNodes(row)[j].values = row[j].values
              /\ mesh # NoMesh => MapNodes(row)[j].node = IndexById(row[j].id)
<1>1. Len(row) \in Nat /\ DOMAIN row = 1..Len(row) /\ \A j \in 1..Len(row) : row[j] \in Attribute
  BY LenProperties, ElementOfSeq
<1>2. CASE mesh = NoMesh
  BY <1>1, <1>2 DEF MapNodes
<1>3. CASE mesh # NoMesh
  <2>1. MapNodes(row) = [j \in 1..Len(row) |-> [row[j] EXCEPT !.node = IndexById(row[j].id)]]
    BY <1>1, <1>3 DEF MapNodes
  <2>2. ASSUME NEW j \in 1..Len(row)
        PROVE  /\ [row[j] EXCEPT !.node = IndexById(row[j].id)] \in Attribute
               /\ MapNodes(row)[j].id = row[j].id
               /\ MapNodes(row)[j].values = row[j].values
               /\ MapNodes(row)[j].node = IndexById(row[j].id)
    <3>1. row[j] \in Attribute
      BY <1>1
    <3>2. IndexById(row[j].id) \in Nat
      BY <3>1, NodeFound DEF Rowed, Attribute
    <3> QED BY <2>1, <3>1, <3>2 DEF Attribute
  <2>3. MapNodes(row) \in [1..Len(row) -> Attribute]
    BY <2>1, <2>2
  <2> QED BY <1>1, <2>2, <2>3, IsRow
<1> QED BY <1>2, <1>3

(* What a vector of metadata may hold while a file is read. *)
LEMMA MetadataAround ==
  ASSUME params \in Seq(Metadata), NEW f \in Fort13, NEW i \in 1..f.count
  PROVE  f.header[i] \in Metadata /\ (IF i <= Len(params) THEN params[i] ELSE Blank) \in Metadata
<1>1. f.count \in Nat /\ f.header[i] \in Metadata
  BY FileTyped
<1>2. Len(params) \in Nat /\ \A k \in 1..Len(params) : params[k] \in Metadata
  BY LenProperties, ElementOfSeq
<1>3. Blank \in Metadata
  <2>1. <<0>> \in Seq(Values)
    BY AttributesAssumption
  <2> QED BY <2>1 DEF Blank, Metadata
<1> QED BY <1>1, <1>2, <1>3

(* What any way read() ends leaves behind: vectors of equal length. *)
TablesRead(f) ==
  /\ numParameters' = f.count
  /\ numNodes' \in Nat
  /\ params' \in Seq(Metadata) /\ Len(params') = f.count
  /\ data' \in Seq(Seq(Attribute)) /\ Len(data') = f.count
  /\ LocationsTyped(locations')

LEMMA TooManyRowsRead ==
  ASSUME TypeOKAttributes, NEW f \in Fort13, ReadTooManyRows(f)
  PROVE  TablesRead(f)
<1> DEFINE row(i) == IF i = 1 THEN Resized(f, i) ELSE IF i <= Len(data) THEN data[i] ELSE <<>>
<1>1. /\ numParameters' = f.count /\ numNodes' = numNodes /\ locations' = locations
      /\ params' = [i \in 1..f.count |-> IF i <= Len(params) THEN params[i] ELSE Blank]
      /\ data' = [i \in 1..f.count |-> row(i)]
  BY DEF ReadTooManyRows
<1>2. Rowed /\ LocationsTyped(locations) /\ params \in Seq(Metadata) /\ f.count \in Nat
  BY TypesSay, FileTyped
<1>3. params' \in Seq(Metadata) /\ Len(params') = f.count
  <2>1. params' \in [1..f.count -> Metadata]
    BY <1>1, <1>2, MetadataAround
  <2> QED BY <1>2, <2>1, IsRow
<1>4. ASSUME NEW i \in 1..f.count PROVE row(i) \in Seq(Attribute)
  <2>1. <<>> \in Seq(Attribute)
    BY EmptySeq
  <2>2. i <= Len(data) => i \in 1..Len(data)
    BY <1>2, RowsTyped
  <2> QED BY <1>2, <2>1, <2>2, ResizedRow, RowsTyped DEF NumberedRow
<1> HIDE DEF row
<1>5. data' \in Seq(Seq(Attribute)) /\ Len(data') = f.count
  <2>1. data' \in [1..f.count -> Seq(Attribute)]
    BY <1>1, <1>4
  <2> QED BY <1>2, <2>1, IsRow
<1> QED BY <1>1, <1>2, <1>3, <1>5 DEF TablesRead, Rowed

LEMMA BadDefaultRead ==
  ASSUME TypeOKAttributes, NEW f \in Fort13, ReadBadDefault(f)
  PROVE  TablesRead(f)
<1>1. /\ numParameters' = f.count /\ numNodes' = RowsOf(f)
      /\ params' = [i \in 1..f.count |-> IF i < f.count THEN f.header[i]
                                          ELSE IF i <= Len(params) THEN params[i] ELSE Blank]
      /\ data' = [i \in 1..f.count |-> Resized(f, i)]
      /\ locations' = Located([f EXCEPT !.count = f.count - 1])
  BY DEF ReadBadDefault
<1>2. Rowed /\ LocationsTyped(locations) /\ params \in Seq(Metadata) /\ f.count \in Nat
  BY TypesSay, FileTyped
<1>3. params' \in Seq(Metadata) /\ Len(params') = f.count
  <2>1. params' \in [1..f.count -> Metadata]
    BY <1>1, <1>2, MetadataAround
  <2> QED BY <1>2, <2>1, IsRow
<1>4. \A i \in 1..f.count : Resized(f, i) \in Seq(Attribute)
  BY <1>2, ResizedRow DEF NumberedRow
<1>5. data' \in Seq(Seq(Attribute)) /\ Len(data') = f.count
  <2>1. data' \in [1..f.count -> Seq(Attribute)]
    BY <1>1, <1>4
  <2> QED BY <1>2, <2>1, IsRow
<1>6. LocationsTyped(locations')
  <2> DEFINE g == [f EXCEPT !.count = f.count - 1]
  <2>1. g.count = f.count - 1 /\ g.header = f.header
    BY FileTyped DEF File
  <2>2. \A i \in 1..g.count : g.header[i].name \in AllNames
    <3>1. \A i \in 1..(f.count - 1) : i \in 1..f.count
      BY <1>2
    <3> QED BY <2>1, <3>1, FileTyped
  <2>3. g.count \in Int
    BY <1>2, <2>1
  <2> HIDE DEF g
  <2>4. LocationsTyped(Located(g))
    BY <1>2, <2>2, <2>3, LocatedIs
  <2> QED BY <1>1, <2>4 DEF g
<1>7. RowsOf(f) \in Nat
  BY <1>2, RowsOfTyped
<1> QED BY <1>1, <1>3, <1>5, <1>6, <1>7 DEF TablesRead

LEMMA CutBodyRead ==
  ASSUME TypeOKAttributes, NEW f \in Fort13, ReadCutBody(f)
  PROVE  TablesRead(f) /\ ret' \in {"error", "dead"}
<1> DEFINE s1 == Stop(f)[1]
           s2 == Stop(f)[2]
           row(i) == IF i < s1 THEN RowAfter(f, i, Len(Entries(f, i)))
                     ELSE IF i = s1 /\ s2 > 0 THEN RowAfter(f, i, s2 - 1)
                     ELSE Filled(f, i)
<1>1. /\ numParameters' = f.count /\ numNodes' = RowsOf(f) /\ params' = f.header
      /\ ret' = IF s2 = 0 THEN "dead" ELSE LineEnds(f, s1, s2)
      /\ data' = [i \in 1..f.count |-> row(i)]
      /\ locations' = NamesMet(f, s1)
      /\ Stops(f) # {}
  BY DEF ReadCutBody, Read13
<1>2. /\ Rowed /\ LocationsTyped(locations)
      /\ f.count \in Nat /\ f.header \in Seq(Metadata) /\ Len(f.header) = f.count
  BY TypesSay, FileTyped
<1>3. /\ s1 \in 1..f.count /\ s2 \in StopsIn(f, s1) /\ s2 \in Nat
      /\ \A k \in StopsIn(f, s1) : s2 <= k
      /\ \A i \in 1..f.count : i < s1 => StopsIn(f, i) = {}
  BY <1>1, StopIs, StopsAre
<1> HIDE DEF s1, s2
<1>4. ASSUME NEW i \in 1..f.count PROVE row(i) \in Seq(Attribute)
  <2>1. CASE i < s1
    <3>1. LinesRead(f, i, Len(Entries(f, i)))
      BY <1>2, <1>3, <2>1, SectionRead
    <3> QED BY <1>2, <2>1, <3>1, ReadRow
  <2>2. CASE i = s1 /\ s2 > 0
    <3>1. LinesRead(f, i, s2 - 1)
      BY <1>2, <1>3, <2>2, SectionRead
    <3>2. RowAfter(f, i, s2 - 1) \in Seq(Attribute)
      BY <1>2, <3>1, ReadRow
    <3>3. ~(i < s1)
      BY <1>3, <2>2
    <3> QED BY <2>2, <3>2, <3>3
  <2>3. CASE ~(i < s1) /\ ~(i = s1 /\ s2 > 0)
    BY <1>2, <2>3, FilledRow DEF NumberedRow
  <2> QED BY <2>1, <2>2, <2>3
<1> HIDE DEF row
<1>5. data' \in Seq(Seq(Attribute)) /\ Len(data') = f.count
  <2>1. data' \in [1..f.count -> Seq(Attribute)]
    BY <1>1, <1>4
  <2> QED BY <1>2, <2>1, IsRow
<1>6. LocationsTyped(locations')
  <2>1. s1 \in 0..f.count
    BY <1>2, <1>3
  <2> QED BY <1>1, <1>2, <2>1, NamesMetTyped
<1>7. ret' \in {"error", "dead"}
  <2>1. CASE s2 = 0
    BY <1>1, <2>1
  <2>2. CASE s2 # 0
    <3>1. s2 > 0
      BY <1>3, <2>2
    <3>2. LineEnds(f, s1, s2) # "ok"
      BY <1>2, <1>3, <3>1, SectionRead
    <3>3. LineEnds(f, s1, s2) \in {"ok", "error", "dead"}
      BY DEF LineEnds
    <3> QED BY <1>1, <2>2, <3>2, <3>3
  <2> QED BY <2>1, <2>2
<1>8. RowsOf(f) \in Nat
  BY <1>2, RowsOfTyped
<1> QED BY <1>1, <1>2, <1>5, <1>6, <1>7, <1>8 DEF TablesRead

(* A file read whole: each row is that of its section, with the nodes.      *)
LEMMA WholeRead ==
  ASSUME TypeOKAttributes, NEW f \in Fort13, ReadWhole(f)
  PROVE  /\ TablesRead(f) /\ DOMAIN data' = 1..f.count
         /\ numNodes' = RowsOf(f) /\ params' = f.header /\ locations' = NamesMet(f, f.count)
         /\ \A i \in 1..f.count :
              /\ LinesRead(f, i, Len(Entries(f, i)))
              /\ data'[i] = MapNodes(RowAfter(f, i, Len(Entries(f, i))))
              /\ data'[i] \in Seq(Attribute)
              /\ Len(data'[i]) = RowsOf(f) /\ DOMAIN data'[i] = 1..RowsOf(f)
<1> DEFINE row(i) == MapNodes(RowAfter(f, i, f.body[i].count))
<1>1. /\ numParameters' = f.count /\ numNodes' = RowsOf(f) /\ params' = f.header
      /\ data' = [i \in 1..f.count |-> row(i)]
      /\ locations' = NamesMet(f, f.count)
      /\ Stops(f) = {}
  BY DEF ReadWhole, Read13
<1>2. /\ Rowed /\ LocationsTyped(locations)
      /\ f.count \in Nat /\ f.header \in Seq(Metadata) /\ Len(f.header) = f.count
  BY TypesSay, FileTyped
<1>3. ASSUME NEW i \in 1..f.count
      PROVE  /\ LinesRead(f, i, Len(Entries(f, i)))
             /\ f.body[i].count = Len(Entries(f, i))
             /\ row(i) \in Seq(Attribute)
             /\ Len(row(i)) = RowsOf(f) /\ DOMAIN row(i) = 1..RowsOf(f)
  <2>1. StopsIn(f, i) = {}
    BY <1>1, StopsAre
  <2>2. LinesRead(f, i, f.body[i].count) /\ f.body[i].count = Len(Entries(f, i))
    BY <1>2, <2>1, SectionRead
  <2>3. /\ RowAfter(f, i, f.body[i].count) \in Seq(Attribute)
        /\ Len(RowAfter(f, i, f.body[i].count)) = RowsOf(f)
    BY <1>2, <2>2, ReadRow
  <2> QED BY <1>2, <2>2, <2>3, MappedRow
<1>4. \A i \in 1..f.count : data'[i] = row(i) /\ data'[i] = MapNodes(RowAfter(f, i, Len(Entries(f, i))))
  BY <1>1, <1>3
<1> HIDE DEF row
<1>5. data' \in Seq(Seq(Attribute)) /\ Len(data') = f.count /\ DOMAIN data' = 1..f.count
  <2>1. data' \in [1..f.count -> Seq(Attribute)]
    BY <1>1, <1>3
  <2> QED BY <1>2, <2>1, IsRow
<1>6. LocationsTyped(locations')
  BY <1>1, <1>2, NamesMetTyped
<1>7. RowsOf(f) \in Nat
  BY <1>2, RowsOfTyped
<1>8. TablesRead(f)
  BY <1>1, <1>2, <1>5, <1>6, <1>7 DEF TablesRead
<1> QED BY <1>1, <1>3, <1>4, <1>5, <1>8

-----------------------------------------------------------------------------
(* Lines written. *)

Due(p) == {j \in NonDefaults(p) : j <= numNodes}

(* A section lists the rows that are due, in their order. *)
LEMMA LinesAre ==
  ASSUME TypeOKAttributes, NEW p \in 1..Len(data)
  PROVE  /\ Due(p) \in SUBSET (1..numNodes) /\ NonDefaults(p) \in SUBSET (1..Len(data[p]))
         /\ Cardinality(Due(p)) \in Nat /\ Cardinality(NonDefaults(p)) \in Nat
         /\ Lines(p) = [r \in 1..Cardinality(Due(p)) |-> Line(data[p][OfRank(Due(p), r)])]
         /\ Len(Lines(p)) = Cardinality(Due(p))
         /\ SectionOf(p).entries \in Seq([node : Nat, values : Seq(Values)])
<1>1. /\ Rowed /\ numNodes \in Nat
  BY TypesSay DEF Rowed
<1>2. /\ Len(data[p]) \in Nat /\ DOMAIN data[p] = 1..Len(data[p])
      /\ \A j \in 1..Len(data[p]) : data[p][j] \in Attribute
  BY <1>1, RowsTyped
<1>3. NonDefaults(p) \in SUBSET (1..Len(data[p]))
  BY <1>2 DEF NonDefaults
<1>4. Due(p) \in SUBSET (1..numNodes) /\ Due(p) \in SUBSET (1..Len(data[p]))
  BY <1>1, <1>2, <1>3 DEF Due
<1>5. Cardinality(Due(p)) \in Nat /\ Cardinality(NonDefaults(p)) \in Nat
  BY <1>1, <1>2, <1>3, <1>4, UptoFinite
<1>6. Lines(p) = [r \in 1..Cardinality(Due(p)) |-> Line(data[p][OfRank(Due(p), r)])]
  BY DEF Lines, Due, OfRank, Upto
<1>7. ASSUME NEW r \in 1..Cardinality(Due(p))
      PROVE  Line(data[p][OfRank(Due(p), r)]) \in [node : Nat, values : Seq(Values)]
  <2>1. OfRank(Due(p), r) \in 1..Len(data[p])
    BY <1>1, <1>4, OfRankIs
  <2>2. data[p][OfRank(Due(p), r)] \in Attribute
    BY <1>2, <2>1
  <2> QED BY <2>2 DEF Line, Attribute
<1>8. /\ Lines(p) \in Seq([node : Nat, values : Seq(Values)])
      /\ Len(Lines(p)) = Cardinality(Due(p))
  <2>1. Lines(p) \in [1..Cardinality(Due(p)) -> [node : Nat, values : Seq(Values)]]
    BY <1>6, <1>7
  <2> QED BY <1>5, <2>1, IsRow
<1> QED BY <1>3, <1>4, <1>5, <1>6, <1>8 DEF SectionOf

(* The vectors of parameters and of rows are of one length. *)
Paired == Len(params) = Len(data)

LEMMA FileWritten ==
  ASSUME TypeOKAttributes, Paired, Covered
  PROVE  [nodes |-> numNodes, count |-> numParameters, header |-> params,
          body |-> [p \in 1..numParameters |-> SectionOf(p)], bad |-> "nothing"] \in File
<1>1. /\ numNodes \in Nat /\ numParameters \in Nat /\ params \in Seq(Metadata)
      /\ Len(params) \in Nat /\ \A p \in 1..Len(params) : params[p] \in Metadata
  BY TypesSay, LenProperties, ElementOfSeq DEF TypeOKAttributes
<1>2. numParameters <= Len(params)
  BY DEF Covered
<1>3. ASSUME NEW p \in 1..numParameters PROVE SectionOf(p) \in Section
  <2>1. p \in 1..Len(params) /\ p \in 1..Len(data)
    BY <1>1, <1>2 DEF Paired
  <2>2. params[p].name \in Names \cup {Unnamed}
    BY <1>1, <2>1 DEF Metadata
  <2>3. /\ Cardinality(NonDefaults(p)) \in Nat
        /\ Lines(p) \in Seq([node : Nat, values : Seq(Values)])
    BY <2>1, LinesAre DEF SectionOf
  <2> QED BY <2>2, <2>3 DEF SectionOf, Section
<1>4. [p \in 1..numParameters |-> SectionOf(p)] \in Seq(Section)
  <2>1. [p \in 1..numParameters |-> SectionOf(p)] \in [1..numParameters -> Section]
    BY <1>3
  <2> QED BY <1>1, <2>1, IsRow
<1> QED BY <1>1, <1>4 DEF File

-----------------------------------------------------------------------------
(* Types. *)

LEMMA TypesStart == Init => TypeOKAttributes /\ Paired
<1> SUFFICES ASSUME Init PROVE TypeOKAttributes /\ Paired
  OBVIOUS
<1>1. numNodes \in Nat
  <2>1. CASE mesh = NoMesh
    BY <2>1, AttributesAssumption DEF Init
  <2>2. CASE mesh # NoMesh
    BY <2>2, MeshTyped DEF Init
  <2> QED BY <2>1, <2>2
<1>2. /\ params = <<>> /\ data = <<>> /\ locations = <<>> /\ written = NoFile
      /\ numParameters = 0 /\ ret = "none" /\ loaded = {} /\ lapses = {} /\ calls = 0
      /\ mesh \in Meshes \cup {NoMesh}
  BY DEF Init
<1>3. NoFile \in File
  BY EmptySeq DEF NoFile, File
<1>4. params \in Seq(Metadata) /\ data \in Seq(Seq(Attribute)) /\ Paired /\ DOMAIN locations = {}
  BY <1>2, EmptySeq DEF Paired
<1>5. calls \in 0..MaxCalls
  BY <1>2, AttributesAssumption
<1> QED BY <1>1, <1>2, <1>3, <1>4, <1>5 DEF TypeOKAttributes

Lapses == {"remeshed", "failed", "uneven", "foreign", "short"}

(* read() keeps the types however it ends. *)
LEMMA ReadTyped ==
  ASSUME TypeOKAttributes, Paired, Read
  PROVE  TypeOKAttributes' /\ Paired'
<1>1. PICK f \in Fort13 :
        \/ ReadBadCounts(f) \/ ReadOtherMesh(f) \/ ReadTooManyRows(f)
        \/ ReadBadDefault(f) \/ ReadCutBody(f) \/ ReadWhole(f)
  BY DEF Read
<1>2. f.count \in Nat /\ calls \in 0..MaxCalls /\ MaxCalls \in Nat
  BY FileTyped, AttributesAssumption DEF TypeOKAttributes
<1>3. /\ mesh' = mesh /\ written' = written
      /\ ret' \in {"error", "dead", "ok"}
      /\ loaded' \subseteq Fort13 /\ lapses' \subseteq Lapses
      /\ calls' \in 0..MaxCalls
  <2>1. calls < MaxCalls /\ calls' = calls + 1 /\ mesh' = mesh /\ written' = written
    BY <1>1 DEF ReadBadCounts, ReadOtherMesh, ReadTooManyRows, ReadBadDefault, ReadCutBody,
                ReadWhole, ReadError, Change
  <2>2. calls' \in 0..MaxCalls
    BY <1>2, <2>1
  <2>3. ret' \in {"error", "dead", "ok"}
    BY <1>1, CutBodyRead DEF ReadBadCounts, ReadOtherMesh, ReadTooManyRows, ReadBadDefault,
                             ReadWhole, ReadError
  <2>4. loaded' \subseteq Fort13 /\ lapses' \subseteq Lapses
    <3>1. loaded' \subseteq Fort13
      BY <1>1 DEF ReadBadCounts, ReadOtherMesh, ReadTooManyRows, ReadBadDefault, ReadCutBody,
                  ReadWhole, ReadError
    <3>2. lapses \subseteq Lapses
      BY DEF TypeOKAttributes, Lapses
    <3>3. lapses' \subseteq Lapses
      BY <1>1, <3>2 DEF ReadBadCounts, ReadOtherMesh, ReadTooManyRows, ReadBadDefault,
                        ReadCutBody, ReadWhole, ReadError, Lapses
    <3> QED BY <3>1, <3>3
  <2> QED BY <2>1, <2>2, <2>3, <2>4
<1>4. /\ numNodes' \in Nat /\ numParameters' \in Nat
      /\ params' \in Seq(Metadata) /\ data' \in Seq(Seq(Attribute))
      /\ LocationsTyped(locations') /\ Paired'
  <2>1. CASE ReadBadCounts(f) \/ ReadOtherMesh(f)
    <3>1. UNCHANGED <<numNodes, tables>> /\ numParameters' \in {numParameters, f.count}
      BY <2>1 DEF ReadBadCounts, ReadOtherMesh, counts
    <3> QED BY <1>2, <3>1 DEF tables, TypeOKAttributes, LocationsTyped, AllNames, Paired
  <2>2. CASE ReadTooManyRows(f) \/ ReadBadDefault(f) \/ ReadCutBody(f) \/ ReadWhole(f)
    <3>1. TablesRead(f)
      BY <2>2, TooManyRowsRead, BadDefaultRead, CutBodyRead, WholeRead
    <3> QED BY <1>2, <3>1 DEF TablesRead, Paired
  <2> QED BY <1>1, <2>1, <2>2
<1> QED BY <1>3, <1>4 DEF TypeOKAttributes, Lapses, LocationsTyped, AllNames

LEMMA AddTyped ==
  ASSUME TypeOKAttributes, Paired,
         NEW md \in New, NEW length \in RowLengths, NEW v \in Values, AddAttribute(md, length, v)
  PROVE  TypeOKAttributes' /\ Paired'
<1> DEFINE a(j) == [id |-> j, values |-> [x \in 1..md.size |-> v], node |-> 0]
           row == [j \in 1..length |-> a(j)]
<1>1. /\ params' = Append(params, md) /\ data' = Append(data, row)
      /\ locations' = [n \in DOMAIN locations \cup {md.name} |->
                         IF n = md.name THEN Len(params) + 1 ELSE locations[n]]
      /\ numParameters' = Len(params) + 1
      /\ mesh' = mesh /\ numNodes' = numNodes /\ written' = written
      /\ ret' = "ok" /\ loaded' = {} /\ lapses' \subseteq lapses \cup {"uneven"}
      /\ calls < MaxCalls /\ calls' = calls + 1
  BY DEF AddAttribute, Change
<1>2. /\ md \in Metadata /\ length \in Nat /\ MaxCalls \in Nat
      /\ params \in Seq(Metadata) /\ Len(params) \in Nat /\ data \in Seq(Seq(Attribute))
  BY AttributesAssumption, TypesSay DEF Rowed
<1>3. row \in Seq(Attribute)
  <2>1. [x \in 1..md.size |-> v] \in Seq(Values)
    <3>1. md.size \in Nat
      BY <1>2 DEF Metadata
    <3>2. [x \in 1..md.size |-> v] \in [1..md.size -> Values]
      OBVIOUS
    <3> QED BY <3>1, <3>2, IsRow
  <2>2. row \in [1..length -> Attribute]
    BY <1>2, <2>1 DEF Attribute
  <2> QED BY <1>2, <2>2, IsRow
<1> HIDE DEF row
<1>4. /\ params' \in Seq(Metadata) /\ Len(params') = Len(params) + 1
      /\ data' \in Seq(Seq(Attribute)) /\ Len(data') = Len(data) + 1
  BY <1>1, <1>2, <1>3, AppendProperties
<1>5. /\ DOMAIN locations' \subseteq Names \cup {Unnamed}
      /\ \A n \in DOMAIN locations' : locations'[n] \in Nat \ {0}
  <2>1. md.name \in Names \cup {Unnamed}
    BY <1>2 DEF Metadata
  <2> QED BY <1>1, <1>2, <2>1 DEF TypeOKAttributes
<1>6. calls' \in 0..MaxCalls
  BY <1>1, <1>2 DEF TypeOKAttributes
<1> QED BY <1>1, <1>2, <1>4, <1>5, <1>6 DEF TypeOKAttributes, Paired

(* Setting a value changes neither the length of a row nor of the vector. *)
LEMMA SetValueShape ==
  ASSUME TypeOKAttributes, NEW p \in 1..Len(data), NEW n \in 1..Len(data[p]), NEW v \in Values,
         data' = [data EXCEPT ![p][n].values = [x \in DOMAIN data[p][n].values |-> v]]
  PROVE  /\ data' \in Seq(Seq(Attribute)) /\ Len(data') = Len(data)
         /\ \A i \in 1..Len(data) : Len(data'[i]) = Len(data[i])
<1> DEFINE vs == [x \in DOMAIN data[p][n].values |-> v]
           row == [data[p] EXCEPT ![n].values = vs]
<1>1. Rowed
  BY TypesSay
<1>2. /\ Len(data) \in Nat /\ DOMAIN data = 1..Len(data)
      /\ \A i \in 1..Len(data) : data[i] \in Seq(Attribute)
      /\ Len(data[p]) \in Nat /\ DOMAIN data[p] = 1..Len(data[p])
      /\ \A j \in 1..Len(data[p]) : data[p][j] \in Attribute
  BY <1>1, RowsTyped
<1>3. vs \in Seq(Values)
  <2>1. data[p][n].values \in Seq(Values)
    BY <1>2 DEF Attribute
  <2>2. /\ DOMAIN data[p][n].values = 1..Len(data[p][n].values)
        /\ Len(data[p][n].values) \in Nat
    BY <2>1, LenProperties
  <2>3. vs \in [1..Len(data[p][n].values) -> Values]
    BY <2>2
  <2> QED BY <2>2, <2>3, IsRow
<1> HIDE DEF vs
<1>4. row \in Seq(Attribute) /\ Len(row) = Len(data[p])
  <2>1. [data[p][n] EXCEPT !.values = vs] \in Attribute
    BY <1>2, <1>3 DEF Attribute
  <2>2. row = [j \in 1..Len(data[p]) |-> IF j = n THEN [data[p][n] EXCEPT !.values = vs] ELSE data[p][j]]
    BY <1>2
  <2>3. row \in [1..Len(data[p]) -> Attribute]
    BY <1>2, <2>1, <2>2
  <2> QED BY <1>2, <2>3, IsRow
<1>5. data' = [i \in 1..Len(data) |-> IF i = p THEN row ELSE data[i]]
  BY <1>2 DEF vs
<1> HIDE DEF row
<1>6. data' \in [1..Len(data) -> Seq(Attribute)]
  BY <1>2, <1>4, <1>5
<1> QED BY <1>2, <1>4, <1>5, <1>6, IsRow

LEMMA SetDefaultShape ==
  ASSUME TypeOKAttributes, NEW p \in 1..Len(params), NEW v \in Values,
         params' = [params EXCEPT ![p].default = [x \in DOMAIN params[p].default |-> v]]
  PROVE  params' \in Seq(Metadata) /\ Len(params') = Len(params)
<1> DEFINE vs == [x \in DOMAIN params[p].default |-> v]
<1>1. /\ Len(params) \in Nat /\ DOMAIN params = 1..Len(params)
      /\ \A i \in 1..Len(params) : params[i] \in Metadata
  BY TypesSay, LenProperties, ElementOfSeq
<1>2. vs \in Seq(Values)
  <2>1. params[p].default \in Seq(Values)
    BY <1>1 DEF Metadata
  <2>2. /\ DOMAIN params[p].default = 1..Len(params[p].default)
        /\ Len(params[p].default) \in Nat
    BY <2>1, LenProperties
  <2>3. vs \in [1..Len(params[p].default) -> Values]
    BY <2>2
  <2> QED BY <2>2, <2>3, IsRow
<1>3. params' = [i \in 1..Len(params) |-> IF i = p THEN [params[p] EXCEPT !.default = vs] ELSE params[i]]
  BY <1>1
<1> HIDE DEF vs
<1>4. [params[p] EXCEPT !.default = vs] \in Metadata
  BY <1>1, <1>2 DEF Metadata
<1>5. params' \in [1..Len(params) -> Metadata]
  BY <1>1, <1>3, <1>4
<1> QED BY <1>1, <1>5, IsRow

(* A call that changes nothing but how it ended. *)
Quiet == UNCHANGED <<mesh, counts, tables, history>>

LEMMA QuietTyped ==
  ASSUME TypeOKAttributes, Paired, Quiet, written' \in File,
         ret' \in {"none", "ok", "error", "written", "dead"}
  PROVE  TypeOKAttributes' /\ Paired'
BY DEF TypeOKAttributes, Paired, Quiet, counts, tables, history

(* A value set through its position or its name. *)
ValueSet ==
  \E p \in Nat \ {0}, n \in RowLengths \ {0}, v \in Values : SetValue(p, n, v)

LEMMA ValueCalls ==
  ASSUME TypeOKAttributes,
         \/ \E p \in 1..(MaxParams + 1), n \in RowLengths \ {0}, v \in Values : SetValue(p, n, v)
         \/ \E name \in Names, n \in RowLengths \ {0}, v \in Values : SetNamed(name, n, v)
  PROVE  ValueSet \/ Refused
<1>1. ASSUME NEW p \in 1..(MaxParams + 1) PROVE p \in Nat \ {0}
  BY AttributesAssumption
<1>2. ASSUME NEW name \in DOMAIN locations PROVE locations[name] \in Nat \ {0}
  BY DEF TypeOKAttributes
<1> QED BY <1>1, <1>2 DEF ValueSet, SetNamed

(* It is refused, ends the process, or changes one entry. *)
LEMMA ValueSetEnds ==
  ASSUME TypeOKAttributes, ValueSet
  PROVE  \/ Quiet /\ written' = written /\ ret' = "error"
         \/ /\ Quiet /\ written' = written /\ ret' = "dead"
            /\ ~(/\ Len(data) >= numParameters
                 /\ \A i \in 1..Len(data) : Len(data[i]) >= numNodes)
         \/ /\ data' \in Seq(Seq(Attribute)) /\ Len(data') = Len(data)
            /\ \A i \in 1..Len(data) : Len(data'[i]) = Len(data[i])
            /\ calls' \in 0..MaxCalls /\ ret' = "ok" /\ loaded' = {}
            /\ UNCHANGED <<mesh, counts, params, locations, written, lapses>>
<1>1. PICK p \in Nat \ {0}, n \in RowLengths \ {0}, v \in Values : SetValue(p, n, v)
  BY DEF ValueSet
<1>2. /\ n \in Nat /\ Len(data) \in Nat /\ numParameters \in Nat /\ numNodes \in Nat
      /\ \A i \in 1..Len(data) : Len(data[i]) \in Nat
      /\ MaxCalls \in Nat /\ calls \in 0..MaxCalls
  BY AttributesAssumption, TypesSay, RowsTyped DEF TypeOKAttributes
<1>3. CASE p > numParameters \/ n > numNodes
  BY <1>1, <1>2, <1>3 DEF SetValue, Refused, Quiet
<1>4. CASE /\ p <= numParameters /\ n <= numNodes
           /\ p > Len(data) \/ (p <= Len(data) /\ n > Len(data[p]))
  <2>1. /\ Dies
    BY <1>1, <1>2, <1>4 DEF SetValue
  <2>2. CASE p > Len(data)
    BY <1>2, <1>4, <2>1, <2>2 DEF Dies, Quiet
  <2>3. CASE p <= Len(data) /\ n > Len(data[p])
    <3>1. p \in 1..Len(data) /\ ~(Len(data[p]) >= numNodes)
      BY <1>2, <1>4, <2>3
    <3> QED BY <2>1, <3>1 DEF Dies, Quiet
  <2> QED BY <1>4, <2>2, <2>3
<1>5. CASE /\ p <= numParameters /\ n <= numNodes
           /\ p <= Len(data) /\ n <= Len(data[p])
  <2>1. p \in 1..Len(data) /\ n \in 1..Len(data[p])
    BY <1>2, <1>5
  <2>2. /\ data' = [data EXCEPT ![p][n].values = [x \in DOMAIN data[p][n].values |-> v]]
        /\ calls < MaxCalls /\ calls' = calls + 1 /\ ret' = "ok" /\ loaded' = {}
        /\ UNCHANGED <<mesh, counts, params, locations, written, lapses>>
    BY <1>1, <1>2, <1>5, <2>1 DEF SetValue, Change
  <2>3. /\ data' \in Seq(Seq(Attribute)) /\ Len(data') = Len(data)
        /\ \A i \in 1..Len(data) : Len(data'[i]) = Len(data[i])
    BY <2>1, <2>2, SetValueShape
  <2> QED BY <1>2, <2>2, <2>3
<1> QED BY <1>2, <1>3, <1>4, <1>5

DefaultSet == \E p \in 1..(MaxParams + 1), v \in Values : SetDefault(p, v)

LEMMA DefaultSetEnds ==
  ASSUME TypeOKAttributes, DefaultSet
  PROVE  \/ Quiet /\ written' = written /\ ret' = "error"
         \/ Quiet /\ written' = written /\ ret' = "dead" /\ ~(numParameters <= Len(params))
         \/ /\ params' \in Seq(Metadata) /\ Len(params') = Len(params)
            /\ calls' \in 0..MaxCalls /\ ret' = "ok" /\ loaded' = {}
            /\ UNCHANGED <<mesh, counts, data, locations, written, lapses>>
<1>1. PICK p \in 1..(MaxParams + 1), v \in Values : SetDefault(p, v)
  BY DEF DefaultSet
<1>2. /\ p \in Nat \ {0} /\ Len(params) \in Nat /\ numParameters \in Nat
      /\ MaxCalls \in Nat /\ calls \in 0..MaxCalls
  BY AttributesAssumption, TypesSay DEF TypeOKAttributes
<1>3. CASE p > numParameters
  BY <1>1, <1>2, <1>3 DEF SetDefault, Refused, Quiet
<1>4. CASE p <= numParameters /\ p > Len(params)
  BY <1>1, <1>2, <1>4 DEF SetDefault, Dies, Quiet
<1>5. CASE p <= numParameters /\ p <= Len(params)
  <2>1. /\ params' = [params EXCEPT ![p].default = [x \in DOMAIN params[p].default |-> v]]
        /\ calls < MaxCalls /\ calls' = calls + 1 /\ ret' = "ok" /\ loaded' = {}
        /\ UNCHANGED <<mesh, counts, data, locations, written, lapses>>
    BY <1>1, <1>2, <1>5 DEF SetDefault, Change
  <2>2. p \in 1..Len(params)
    BY <1>2, <1>5
  <2>3. params' \in Seq(Metadata) /\ Len(params') = Len(params)
    BY <2>1, <2>2, SetDefaultShape
  <2> QED BY <1>2, <2>1, <2>3
<1> QED BY <1>2, <1>3, <1>4, <1>5

LEMMA TypesKept == TypeOKAttributes /\ Paired /\ [Next]_vars => TypeOKAttributes' /\ Paired'
<1> SUFFICES ASSUME TypeOKAttributes, Paired, [Next]_vars
             PROVE  TypeOKAttributes' /\ Paired'
  OBVIOUS
<1>1. CASE \E m \in Meshes : SetMesh(m)
  <2>1. PICK m \in Meshes : SetMesh(m)
    BY <1>1
  <2>2. /\ mesh' = m /\ calls < MaxCalls /\ calls' = calls + 1 /\ ret' = "ok"
        /\ loaded' = {} /\ lapses' \subseteq lapses \cup {"remeshed"}
        /\ UNCHANGED <<numNodes, numParameters, params, data, locations, written>>
    BY <2>1 DEF SetMesh, Change, counts, tables
  <2>3. calls' \in 0..MaxCalls
    BY <2>2, AttributesAssumption DEF TypeOKAttributes
  <2> QED BY <2>2, <2>3 DEF TypeOKAttributes, Paired
<1>2. CASE Read
  BY <1>2, ReadTyped
<1>3. CASE \E md \in New, length \in RowLengths, v \in Values : AddAttribute(md, length, v)
  BY <1>3, AddTyped
<1>4. CASE ValueSet
  <2>1. CASE Quiet /\ written' = written /\ ret' \in {"error", "dead"}
    BY <2>1, QuietTyped DEF TypeOKAttributes
  <2>2. CASE /\ data' \in Seq(Seq(Attribute)) /\ Len(data') = Len(data)
             /\ calls' \in 0..MaxCalls /\ ret' = "ok" /\ loaded' = {}
             /\ UNCHANGED <<mesh, counts, params, locations, written, lapses>>
    BY <2>2 DEF TypeOKAttributes, Paired, counts
  <2> QED BY <1>4, <2>1, <2>2, ValueSetEnds
<1>5. CASE Refused
  BY <1>5, QuietTyped DEF Refused, Quiet, TypeOKAttributes
<1>6. CASE DefaultSet
  <2>1. CASE Quiet /\ written' = written /\ ret' \in {"error", "dead"}
    BY <2>1, QuietTyped DEF TypeOKAttributes
  <2>2. CASE /\ params' \in Seq(Metadata) /\ Len(params') = Len(params)
             /\ calls' \in 0..MaxCalls /\ ret' = "ok" /\ loaded' = {}
             /\ UNCHANGED <<mesh, counts, data, locations, written, lapses>>
    BY <2>2 DEF TypeOKAttributes, Paired, counts
  <2> QED BY <1>6, <2>1, <2>2, DefaultSetEnds
<1>7. CASE Write
  <2>1. CASE Dies
    BY <2>1, QuietTyped DEF Dies, Quiet, TypeOKAttributes
  <2>2. CASE ~Dies
    <3>1. /\ Covered /\ Quiet /\ ret' = "written"
          /\ written' = [nodes |-> numNodes, count |-> numParameters, header |-> params,
                         body |-> [p \in 1..numParameters |-> SectionOf(p)], bad |-> "nothing"]
      BY <1>7, <2>2 DEF Write, Quiet
    <3> QED BY <3>1, FileWritten, QuietTyped
  <2> QED BY <2>1, <2>2
<1>8. CASE UNCHANGED vars
  BY <1>8, QuietTyped DEF vars, Quiet, TypeOKAttributes
<1> QED BY <1>1, <1>2, <1>3, <1>4, <1>5, <1>6, <1>7, <1>8, ValueCalls DEF Next, DefaultSet

-----------------------------------------------------------------------------
(* What ends the process. *)

(* While nothing but the mesh has been changed under it, the counts are     *)
(* those of the vectors; while not even that, of the mesh.                  *)
Sized == Running /\ lapses \subseteq {"remeshed"} =>
           /\ numParameters = Len(params)
           /\ \A i \in 1..Len(data) : Len(data[i]) = numNodes
OfMesh == "remeshed" \notin lapses /\ mesh # NoMesh => numNodes = Len(mesh)

(* A file the object accepts gives each node of its own a row. *)
LEMMA NodesPlaced ==
  ASSUME TypeOKAttributes, OfMesh, "remeshed" \notin lapses, NEW f \in Fort13, Accepted(f)
  PROVE  /\ RowsOf(f) = f.nodes /\ f.nodes \in Nat
         /\ mesh # NoMesh => f.nodes = Len(mesh)
         /\ \A j \in 1..f.nodes : Place(NumberAt(j)) \in 1..f.nodes
<1>1. f.nodes \in Nat /\ mesh \in Meshes \cup {NoMesh}
  BY FileTyped DEF TypeOKAttributes
<1>2. CASE mesh = NoMesh
  BY <1>1, <1>2 DEF RowsOf, Place, NumberAt
<1>3. CASE mesh # NoMesh
  <2>1. RowsOf(f) = f.nodes /\ f.nodes = Len(mesh)
    BY <1>3 DEF Accepted, RowsOf, OfMesh
  <2> QED BY <1>1, <1>3, <2>1, NodeFound DEF Place, NumberAt
<1> QED BY <1>2, <1>3

(* read() dies only on a node or a name the file has not. *)
LEMMA BodyDies ==
  ASSUME TypeOKAttributes, OfMesh, NEW f \in Fort13, ReadCutBody(f), ret' = "dead"
  PROVE  lapses' # {}
<1> SUFFICES ASSUME lapses' = {} PROVE FALSE
  OBVIOUS
<1>1. ~Foreign(f) /\ "remeshed" \notin lapses /\ Accepted(f) /\ Stops(f) # {}
  BY DEF ReadCutBody, Read13, Headed
<1>2. LocationsTyped(locations) /\ Rowed
  BY TypesSay
<1> DEFINE i == Stop(f)[1]
           k == Stop(f)[2]
<1>3. i \in 1..f.count /\ k \in StopsIn(f, i) /\ k \in Nat
  BY <1>1, StopIs, StopsAre
<1>4. ret' = IF k = 0 THEN "dead" ELSE LineEnds(f, i, k)
  BY DEF ReadCutBody
<1> HIDE DEF i, k
<1>5. \E h \in 1..f.count : f.body[i].name = f.header[h].name
  BY <1>1, <1>3 DEF Foreign
<1>6. Named(f, i) \in 1..f.count
  BY <1>2, <1>3, <1>5, NamedIs
<1>7. k # 0
  BY <1>2, <1>3, <1>6, SectionRead
<1>8. LineEnds(f, i, k) = "dead"
  BY <1>4, <1>7
<1>9. ~(k > Len(Entries(f, i))) /\ Place(Entries(f, i)[k].node) \notin 1..RowsOf(f)
  BY <1>8 DEF LineEnds, Rows
<1>10. k \in DOMAIN Entries(f, i)
  <2>1. Len(Entries(f, i)) \in Nat /\ DOMAIN Entries(f, i) = 1..Len(Entries(f, i))
    BY <1>3, FileTyped
  <2> QED BY <1>3, <1>7, <1>9, <2>1
<1>11. \E j \in 1..f.nodes : Entries(f, i)[k].node = NumberAt(j)
  BY <1>1, <1>3, <1>10 DEF Foreign
<1> QED BY <1>1, <1>9, <1>11, NodesPlaced

LEMMA ReadSized ==
  ASSUME TypeOKAttributes, Paired, Sized, OfMesh, Read
  PROVE  Sized' /\ OfMesh' /\ DeathExplained13'
<1>1. PICK f \in Fort13 :
        \/ ReadBadCounts(f) \/ ReadOtherMesh(f) \/ ReadTooManyRows(f)
        \/ ReadBadDefault(f) \/ ReadCutBody(f) \/ ReadWhole(f)
  BY DEF Read
<1>2. CASE ReadBadCounts(f) \/ ReadOtherMesh(f) \/ ReadTooManyRows(f) \/ ReadBadDefault(f)
  <2>1. /\ lapses' = lapses \cup {"failed"} \/ lapses' = lapses \cup {"short"}
        /\ mesh' = mesh
        /\ numNodes' = numNodes \/ (mesh = NoMesh \/ numNodes' = numNodes)
    BY <1>2 DEF ReadBadCounts, ReadOtherMesh, ReadTooManyRows, ReadBadDefault, ReadError,
                counts, RowsOf
  <2> QED BY <2>1 DEF Sized, OfMesh, DeathExplained13, Running
<1>3. CASE ReadCutBody(f)
  <2>1. ret' \in {"error", "dead"}
    BY <1>3, CutBodyRead
  <2>2. /\ lapses \subseteq lapses' /\ mesh' = mesh
        /\ numNodes' = RowsOf(f) /\ numParameters' = f.count
        /\ ret' = "error" => "failed" \in lapses'
        /\ params' = f.header
    BY <1>3 DEF ReadCutBody, Read13
  <2>3. OfMesh'
    BY <2>2 DEF OfMesh, RowsOf
  <2>4. DeathExplained13'
    BY <1>3, BodyDies DEF DeathExplained13
  <2>5. Sized'
    BY <2>1, <2>2 DEF Sized, Running
  <2> QED BY <2>3, <2>4, <2>5
<1>4. CASE ReadWhole(f)
  <2>1. /\ ret' = "ok" /\ lapses' = lapses \cap {"remeshed"} /\ mesh' = mesh
    BY <1>4 DEF ReadWhole
  <2>2. /\ TablesRead(f) /\ numNodes' = RowsOf(f)
        /\ \A i \in 1..f.count : Len(data'[i]) = RowsOf(f)
    BY <1>4, WholeRead
  <2>3. Sized'
    BY <2>2 DEF TablesRead, Sized
  <2> QED BY <2>1, <2>2, <2>3 DEF OfMesh, DeathExplained13, RowsOf
<1> QED BY <1>1, <1>2, <1>3, <1>4

LEMMA AddSized ==
  ASSUME TypeOKAttributes, Paired, Sized, OfMesh,
         NEW md \in New, NEW length \in RowLengths, NEW v \in Values, AddAttribute(md, length, v)
  PROVE  Sized' /\ OfMesh' /\ DeathExplained13'
<1> DEFINE row == [j \in 1..length |->
                    [id |-> j, values |-> [x \in 1..md.size |-> v], node |-> 0]]
<1>1. /\ params' = Append(params, md) /\ data' = Append(data, row)
      /\ numParameters' = Len(params) + 1 /\ numNodes' = numNodes /\ mesh' = mesh
      /\ ret' = "ok" /\ Running
      /\ lapses' = lapses \cup (IF length = numNodes THEN {} ELSE {"uneven"})
  BY DEF AddAttribute, Change
<1>2. length \in Nat
  BY AttributesAssumption
<1>3. row \in Seq([id : 1..length, values : {[x \in 1..md.size |-> v]}, node : {0}]) /\ Len(row) = length
  <2>1. row \in [1..length -> [id : 1..length, values : {[x \in 1..md.size |-> v]}, node : {0}]]
    OBVIOUS
  <2> QED BY <1>2, <2>1, IsRow
<1> HIDE DEF row
<1>4. Len(params') = Len(params) + 1
  BY <1>1, TypesSay, AppendProperties, AttributesAssumption
<1>5. /\ Len(data) \in Nat /\ Len(data') = Len(data) + 1
      /\ \A i \in 1..Len(data) : data'[i] = data[i]
      /\ data'[Len(data) + 1] = row
  <2>1. Len(data) \in Nat
    BY TypesSay, RowsTyped
  <2>2. data \in Seq({data[i] : i \in 1..Len(data)} \cup {row})
    <3>1. DOMAIN data = 1..Len(data) /\ data \in Seq(Seq(Attribute))
      BY TypesSay, RowsTyped DEF Rowed
    <3>2. data \in [1..Len(data) -> {data[i] : i \in 1..Len(data)} \cup {row}]
      <4>1. data = [i \in 1..Len(data) |-> data[i]]
        BY <3>1, LenProperties
      <4> QED BY <4>1
    <3> QED BY <2>1, <3>2, IsRow
  <2> QED BY <1>1, <2>1, <2>2, AppendProperties
<1>6. Sized'
  <2> SUFFICES ASSUME lapses' \subseteq {"remeshed"}
               PROVE  /\ numParameters' = Len(params')
                      /\ \A i \in 1..Len(data') : Len(data'[i]) = numNodes'
    BY DEF Sized
  <2>1. length = numNodes /\ lapses \subseteq {"remeshed"}
    BY <1>1
  <2>2. \A i \in 1..Len(data) : Len(data[i]) = numNodes
    BY <1>1, <2>1 DEF Sized
  <2>3. \A i \in 1..Len(data') : i \in 1..Len(data) \/ i = Len(data) + 1
    BY <1>5
  <2> QED BY <1>1, <1>3, <1>4, <1>5, <2>1, <2>2, <2>3
<1>7. OfMesh' /\ DeathExplained13'
  BY <1>1 DEF OfMesh, DeathExplained13
<1> QED BY <1>6, <1>7

(* The counts, and what ends the process, through every call. *)
LEMMA SizedKept ==
  ASSUME TypeOKAttributes, Paired, Sized, OfMesh, DeathExplained13, [Next]_vars
  PROVE  Sized' /\ OfMesh' /\ DeathExplained13'
<1>1. /\ Len(data) \in Nat /\ Len(params) \in Nat /\ numParameters \in Nat /\ numNodes \in Nat
      /\ Len(params) = Len(data)
  BY TypesSay, RowsTyped DEF TypeOKAttributes, Paired
<1>2. ASSUME Quiet, Running, ret' # "dead" \/ ~(/\ Len(data) >= numParameters
                                               /\ \A i \in 1..Len(data) : Len(data[i]) >= numNodes)
      PROVE  Sized' /\ OfMesh' /\ DeathExplained13'
  <2>1. UNCHANGED <<mesh, numParameters, numNodes, params, data, lapses>>
    BY <1>2 DEF Quiet, counts, tables, history
  <2>2. Sized' /\ OfMesh'
    BY <1>2, <2>1 DEF Sized, OfMesh
  <2>3. lapses \subseteq {"remeshed"} => /\ Len(data) >= numParameters
                                        /\ \A i \in 1..Len(data) : Len(data[i]) >= numNodes
    BY <1>1, <1>2 DEF Sized
  <2>4. DeathExplained13'
    BY <1>2, <2>1, <2>3 DEF DeathExplained13
  <2> QED BY <2>2, <2>4
<1>3. CASE \E m \in Meshes : SetMesh(m)
  <2>1. PICK m \in Meshes : SetMesh(m)
    BY <1>3
  <2>2. /\ mesh' = m /\ ret' = "ok" /\ Running
        /\ UNCHANGED <<numNodes, numParameters, params, data>>
        /\ lapses' = IF Len(m) = numNodes THEN lapses \ {"remeshed"} ELSE lapses \cup {"remeshed"}
    BY <2>1 DEF SetMesh, Change, counts, tables
  <2> QED BY <2>2 DEF Sized, OfMesh, DeathExplained13
<1>4. CASE Read
  BY <1>4, ReadSized
<1>5. CASE \E md \in New, length \in RowLengths, v \in Values : AddAttribute(md, length, v)
  BY <1>5, AddSized
<1>6. CASE ValueSet
  <2>1. Running
    BY <1>6 DEF ValueSet, SetValue, Refused, Dies, Change
  <2>2. CASE Quiet
    BY <1>2, <1>6, <2>1, <2>2, ValueSetEnds
  <2>3. CASE /\ Len(data') = Len(data) /\ ret' = "ok"
             /\ \A i \in 1..Len(data) : Len(data'[i]) = Len(data[i])
             /\ UNCHANGED <<mesh, counts, params, lapses>>
    BY <2>1, <2>3 DEF Sized, OfMesh, DeathExplained13, counts
  <2> QED BY <1>6, <2>2, <2>3, ValueSetEnds
<1>7. CASE Refused
  BY <1>2, <1>7 DEF Refused, Quiet
<1>8. CASE DefaultSet
  <2>1. Running
    BY <1>8 DEF DefaultSet, SetDefault, Refused, Dies, Change
  <2>2. CASE Quiet /\ ret' = "error"
    BY <1>2, <2>1, <2>2
  <2>3. CASE Quiet /\ ret' = "dead" /\ ~(numParameters <= Len(params))
    BY <1>1, <1>2, <2>1, <2>3
  <2>4. CASE Len(params') = Len(params) /\ ret' = "ok" /\ UNCHANGED <<mesh, counts, data, lapses>>
    BY <2>1, <2>4 DEF Sized, OfMesh, DeathExplained13, counts
  <2> QED BY <1>8, <2>2, <2>3, <2>4, DefaultSetEnds
<1>9. CASE Write
  <2>1. CASE Dies /\ ~Covered
    <3>1. ~(/\ Len(data) >= numParameters /\ \A i \in 1..Len(data) : Len(data[i]) >= numNodes)
      <4> SUFFICES ASSUME Len(data) >= numParameters, \A i \in 1..Len(data) : Len(data[i]) >= numNodes
                   PROVE  FALSE
        OBVIOUS
      <4>1. \A p \in 1..numParameters : p \in 1..Len(data) /\ Len(data[p]) \in Nat
        BY <1>1, TypesSay, RowsTyped
      <4> QED BY <1>1, <2>1, <4>1 DEF Covered
    <3> QED BY <1>2, <2>1, <3>1 DEF Dies, Quiet
  <2>2. CASE Quiet /\ Running /\ ret' = "written"
    BY <1>2, <2>2
  <2> QED BY <1>9, <2>1, <2>2 DEF Write, Quiet
<1>10. CASE UNCHANGED vars
  BY <1>10 DEF vars, counts, tables, history, Sized, OfMesh, DeathExplained13, Running
<1> QED BY <1>3, <1>4, <1>5, <1>6, <1>7, <1>8, <1>9, <1>10, ValueCalls DEF Next, DefaultSet

-----------------------------------------------------------------------------
(* What files say. *)

(* Section i, of m lines, is the only one of its name. *)
SoleSection(f, i, name, m) ==
  /\ i \in 1..f.count /\ m \in Nat /\ DOMAIN Entries(f, i) = 1..m
  /\ i \in DOMAIN f.header /\ f.header[i].name = name
  /\ \A h \in DOMAIN f.header : f.header[h].name = name => h = i
  /\ \A h \in 1..f.count : f.body[h].name = name <=> h = i

LinesAbout(f, i, m, node) == {k \in 1..m : Entries(f, i)[k].node = node}

(* A file then says of a node what the last line about it says, and the     *)
(* default if there is none.                                                *)
LEMMA MeansIs ==
  ASSUME NEW f, NEW i, NEW name, NEW node, NEW m, SoleSection(f, i, name, m)
  PROVE  /\ LinesAbout(f, i, m, node) = {} => Means(f, name, node) = f.header[i].default
         /\ \A last \in LinesAbout(f, i, m, node) :
              (\A k \in LinesAbout(f, i, m, node) : k <= last) =>
                Means(f, name, node) = Entries(f, i)[last].values
<1> USE DEF SoleSection
<1> DEFINE K == LinesAbout(f, i, m, node)
           for == UNION {{h} \X {k \in DOMAIN Entries(f, h) : Entries(f, h)[k].node = node} :
                          h \in {h \in 1..f.count : f.body[h].name = name}}
           e == CHOOSE a \in for : \A b \in for : Before(b, a)
           named == CHOOSE h \in DOMAIN f.header : f.header[h].name = name
<1>1. {h \in 1..f.count : f.body[h].name = name} = {i}
  OBVIOUS
<1>2. for = {i} \X K
  BY <1>1 DEF LinesAbout
<1>3. named = i
  OBVIOUS
<1>4. Means(f, name, node) = IF for = {} THEN f.header[named].default ELSE Entries(f, e[1])[e[2]].values
  BY Zenon DEF Means
<1> HIDE DEF for, K, e, named
<1>5. K = {} => Means(f, name, node) = f.header[i].default
  BY <1>2, <1>3, <1>4
<1>6. ASSUME NEW last \in K, \A k \in K : k <= last
      PROVE  Means(f, name, node) = Entries(f, i)[last].values
  <2>1. \A k \in K : k \in Nat
    BY DEF K, LinesAbout
  <2>2. <<i, last>> \in for
    BY <1>2
  <2>3. \A b \in for : b = <<i, b[2]>> /\ b[2] \in K
    BY <1>2
  <2>4. \A b \in for : Before(b, <<i, last>>)
    BY <1>6, <2>3 DEF Before
  <2>5. e \in for /\ \A b \in for : Before(b, e)
    BY <2>2, <2>4 DEF e
  <2>6. e = <<i, e[2]>> /\ e[2] \in K
    BY <2>3, <2>5
  <2>7. Before(<<i, last>>, <<i, e[2]>>)
    BY <2>2, <2>5, <2>6
  <2>8. last <= e[2] \/ i < i
    BY <2>7 DEF Before
  <2>9. i \notin Int \/ ~(i < i)
    OBVIOUS
  <2>10. e[2] <= last
    BY <1>6, <2>6
  <2>11. e[2] = last
    BY <2>1, <2>6, <2>8, <2>9, <2>10
  <2> QED BY <1>4, <2>2, <2>6, <2>11
<1> QED BY <1>5, <1>6 DEF K

LEMMA ShortEntry ==
  ASSUME NEW values \in Seq(Values), values # <<>>, Len(values) <= 1
  PROVE  [x \in 1..1 |-> values[1]] = values
<1>1. Len(values) \in Nat /\ Len(values) # 0 /\ values = [x \in 1..Len(values) |-> values[x]]
  BY LenProperties, EmptySeq
<1>2. Len(values) = 1
  BY <1>1
<1> QED BY <1>1, <1>2

(* A node of the file is found at the position that has its number.         *)
LEMMA OwnPlace ==
  ASSUME TypeOKAttributes, Distinct(mesh), NEW f \in Fort13,
         mesh # NoMesh => f.nodes = Len(mesh),
         NEW node, node \in {NumberAt(j) : j \in 1..f.nodes}, NEW j \in 1..f.nodes
  PROVE  Place(node) = j <=> node = NumberAt(j)
<1>1. mesh \in Meshes \cup {NoMesh}
  BY DEF TypeOKAttributes
<1>2. CASE mesh = NoMesh
  BY <1>2 DEF Place, NumberAt
<1>3. CASE mesh # NoMesh
  <2>1. \A k \in 1..f.nodes : IndexById(mesh[k]) = k
    BY <1>1, <1>3, NodeFoundOnce
  <2>2. PICK k \in 1..f.nodes : node = mesh[k]
    BY <1>3 DEF NumberAt
  <2>3. Place(node) = k /\ NumberAt(j) = mesh[j] /\ IndexById(mesh[j]) = j
    BY <1>3, <2>1, <2>2 DEF Place, NumberAt
  <2>4. node = NumberAt(j) => k = j
    BY <2>1, <2>2, <2>3
  <2> QED BY <2>2, <2>3, <2>4
<1> QED BY <1>2, <1>3

(* The file read is in memory. *)
LEMMA ReadHonoured ==
  ASSUME TypeOKAttributes, OfMesh, NEW f \in Fort13, ReadWhole(f)
  PROVE  FileHonoured'
<1>1. /\ loaded' = {f} /\ lapses' = lapses \cap {"remeshed"} /\ mesh' = mesh /\ Accepted(f)
  BY DEF ReadWhole, Read13, Headed
<1>2. Orderly(f)' = Orderly(f) /\ \A j : NumberAt(j)' = NumberAt(j)
  BY <1>1 DEF Orderly, Foreign, NumberAt
<1> SUFFICES ASSUME "remeshed" \notin lapses, Distinct(mesh), Orderly(f), NEW i \in 1..f.count
             PROVE  LET n == f.header[i].name IN
                      /\ n \in DOMAIN locations'
                      /\ params'[locations'[n]] = f.header[i]
                      /\ Len(data'[locations'[n]]) = f.nodes
                      /\ \A j \in 1..f.nodes :
                           data'[locations'[n]][j].values = Means(f, n, NumberAt(j))
  BY <1>1, <1>2 DEF FileHonoured
<1> DEFINE n == f.header[i].name
           m == Len(Entries(f, i))
           row == RowAfter(f, i, m)
<1>3. /\ RowsOf(f) = f.nodes /\ f.nodes \in Nat
      /\ mesh # NoMesh => f.nodes = Len(mesh)
  BY <1>1, NodesPlaced
<1>4. Rowed /\ LocationsTyped(locations)
  BY TypesSay
<1>5. /\ DOMAIN f.header = 1..f.count /\ m \in Nat /\ DOMAIN Entries(f, i) = 1..m
      /\ f.header[i].size \in Nat
  BY FileTyped
<1>6. \A h \in 1..f.count : f.header[h].name = n => h = i
  BY <1>5 DEF Orderly, Distinct, NamesOf
<1>7. \A h \in 1..f.count : f.body[h].name = n <=> h = i
  BY <1>6 DEF Orderly
<1>8. Named(f, i) = i /\ f.body[i].name \in DOMAIN Located(f)
  BY <1>4, <1>6, <1>7, NamedIs
<1>9. n \in DOMAIN locations' /\ locations'[n] = i
  <2>1. locations' = NamesMet(f, f.count)
    BY WholeRead
  <2>2. f.body[i].name = n
    BY <1>7
  <2>3. Located(f)[n] = i /\ n \in DOMAIN Located(f)
    BY <1>8, <2>2 DEF Named
  <2> QED BY <2>1, <2>3 DEF NamesMet
<1>10. /\ params'[i] = f.header[i] /\ LinesRead(f, i, m)
       /\ data'[i] = MapNodes(row) /\ Len(data'[i]) = f.nodes
  BY <1>3, WholeRead
<1> HIDE DEF m, row
<1>11. /\ row \in Seq(Attribute) /\ Len(row) = f.nodes
  BY <1>3, <1>4, <1>10, ReadRow DEF row
<1>12. ASSUME NEW j \in 1..f.nodes
       PROVE  data'[i][j].values = Means(f, n, NumberAt(j))
  <2> DEFINE K == LinesAbout(f, i, m, NumberAt(j))
  <2>1. data'[i][j].values = row[j].values
    BY <1>4, <1>10, <1>11, MappedRow
  <2>2. K = LinesFor(f, i, m, j)
    <3>1. \A k \in 1..m : Entries(f, i)[k].node \in {NumberAt(l) : l \in 1..f.nodes}
      BY <1>5 DEF Orderly, Foreign
    <3>2. \A k \in 1..m : Place(Entries(f, i)[k].node) = j <=> Entries(f, i)[k].node = NumberAt(j)
      BY <1>3, <3>1, OwnPlace
    <3> QED BY <3>2 DEF LinesFor, LinesAbout
  <2>3. /\ K = {} => Means(f, n, NumberAt(j)) = f.header[i].default
        /\ \A last \in K : (\A k \in K : k <= last) =>
             Means(f, n, NumberAt(j)) = Entries(f, i)[last].values
    <3>1. SoleSection(f, i, n, m)
      BY <1>5, <1>6, <1>7 DEF SoleSection, m
    <3> QED BY <3>1, MeansIs
  <2> HIDE DEF K
  <2>4. CASE K = {} /\ row[j] = Filled(f, i)[j]
    BY <1>3, <1>4, <2>1, <2>3, <2>4, FilledRow
  <2>5. ASSUME NEW last \in K, \A k \in K : k <= last,
               row[j].values = Entered(f, i, Entries(f, i)[last].values)
        PROVE  data'[i][j].values = Means(f, n, NumberAt(j))
    <3> DEFINE vs == Entries(f, i)[last].values
    <3>1. last \in 1..m
      BY DEF K, LinesAbout
    <3>2. /\ vs \in Seq(Values) /\ vs # <<>>
      BY <1>4, <1>10, <3>1, LineRead
    <3>3. Len(vs) <= f.header[i].size
      BY <1>5, <3>1 DEF Orderly
    <3> HIDE DEF vs
    <3>4. Entered(f, i, vs) = vs
      <4>1. CASE f.header[i].size = 1
        <5>1. [x \in 1..1 |-> vs[1]] = vs
          BY <3>2, <3>3, <4>1, ShortEntry
        <5> QED BY <1>8, <4>1, <5>1 DEF Entered
      <4>2. CASE f.header[i].size # 1
        BY <1>8, <4>2 DEF Entered
      <4> QED BY <4>1, <4>2
    <3> QED BY <2>1, <2>3, <2>5, <3>4 DEF vs
  <2>6. \/ K = {} /\ row[j] = Filled(f, i)[j]
        \/ \E last \in K : /\ \A k \in K : k <= last
                           /\ row[j].values = Entered(f, i, Entries(f, i)[last].values)
    BY <1>3, <1>4, <1>10, <2>2, ReadRow DEF row
  <2> QED BY <2>4, <2>5, <2>6
<1> QED BY <1>9, <1>10, <1>12

(* Each row is attached to the node at its position. *)
LEMMA ReadAttached ==
  ASSUME TypeOKAttributes, NEW f \in Fort13, ReadWhole(f)
  PROVE  NodesAttached'
<1>1. /\ loaded' = {f} /\ mesh' = mesh /\ Accepted(f)
      /\ RowsOf(f) <= Len(mesh) \/ mesh = NoMesh \/ f.count = 0
  BY DEF ReadWhole, Read13, Headed
<1>2. Foreign(f)' = Foreign(f)
  BY <1>1 DEF Foreign, NumberAt
<1>3. DOMAIN data' = 1..f.count /\ \A i \in 1..f.count : DOMAIN data'[i] = 1..RowsOf(f)
  BY WholeRead
<1> SUFFICES ASSUME mesh # NoMesh, Distinct(mesh), ~Foreign(f),
                    NEW i \in 1..f.count, NEW j \in 1..RowsOf(f)
             PROVE  data'[i][j].id = mesh[j] /\ data'[i][j].node = j
  BY <1>1, <1>2, <1>3 DEF NodesAttached
<1> DEFINE m == Len(Entries(f, i))
           row == RowAfter(f, i, m)
<1>4. Rowed /\ f.nodes = Len(mesh) /\ Len(mesh) \in Nat /\ RowsOf(f) \in Nat
  BY <1>1, TypesSay, MeshTyped, RowsOfTyped DEF Accepted, Rowed
<1>5. j \in 1..Len(mesh)
  <2>1. RowsOf(f) <= Len(mesh)
    BY <1>1, FileTyped
  <2> QED BY <1>4, <2>1
<1>6. LinesRead(f, i, m) /\ data'[i] = MapNodes(row)
  BY WholeRead
<1>7. DOMAIN Entries(f, i) = 1..m
  BY FileTyped
<1> HIDE DEF m
<1>8. row \in Seq(Attribute) /\ Len(row) = RowsOf(f)
  BY <1>4, <1>6, ReadRow
<1>9. row[j].id = mesh[j]
  <2>1. CASE row[j] = Filled(f, i)[j]
    <3>1. Filled(f, i)[j].id = NumberAt(j)
      BY <1>4, <1>5, FilledRow DEF NumberedRow
    <3> QED BY <2>1, <3>1 DEF NumberAt
  <2>2. ASSUME NEW last \in LinesFor(f, i, m, j), row[j].id = Entries(f, i)[last].node
        PROVE  row[j].id = mesh[j]
    <3>1. last \in 1..m /\ Place(Entries(f, i)[last].node) = j
      BY DEF LinesFor
    <3>2. Entries(f, i)[last].node \in {NumberAt(l) : l \in 1..f.nodes}
      BY <1>7, <3>1 DEF Foreign
    <3>3. Entries(f, i)[last].node = NumberAt(j)
      BY <1>4, <1>5, <3>1, <3>2, OwnPlace
    <3> QED BY <2>2, <3>3 DEF NumberAt
  <2> HIDE DEF row
  <2>3. \/ row[j] = Filled(f, i)[j]
        \/ \E last \in LinesFor(f, i, m, j) : row[j].id = Entries(f, i)[last].node
    BY <1>4, <1>6, ReadRow DEF row
  <2> QED BY <2>1, <2>2, <2>3
<1> HIDE DEF row
<1>10. data'[i][j].id = row[j].id /\ data'[i][j].node = IndexById(row[j].id)
  BY <1>4, <1>6, <1>8, MappedRow
<1>11. IndexById(mesh[j]) = j
  BY <1>5, NodeFoundOnce DEF TypeOKAttributes
<1> QED BY <1>9, <1>10, <1>11

(* The file written says what the object holds. *)
LEMMA WriteHonoured ==
  ASSUME TypeOKAttributes, Paired, Write
  PROVE  WriteFaithful'
<1> SUFFICES ASSUME ret' = "written", numParameters' = Len(params'), Distinct(NamesOf(params')),
                    \A p \in DOMAIN data' : /\ Len(data'[p]) = numNodes'
                                            /\ Distinct([j \in DOMAIN data'[p] |-> data'[p][j].id]),
                    NEW p \in DOMAIN params'
             PROVE  /\ written'.body[p].count = Len(written'.body[p].entries)
                    /\ \A j \in 1..numNodes' :
                         data'[p][j].values = Means(written', params'[p].name, data'[p][j].id)
  BY DEF WriteFaithful
<1> DEFINE w == [nodes |-> numNodes, count |-> numParameters, header |-> params,
                 body |-> [q \in 1..numParameters |-> SectionOf(q)], bad |-> "nothing"]
<1>1. /\ written' = w
      /\ UNCHANGED <<numNodes, numParameters, params, data>>
  BY DEF Write, Dies, counts, tables
<1>2. /\ numNodes \in Nat /\ params \in Seq(Metadata)
      /\ Len(params) \in Nat /\ DOMAIN params = 1..Len(params)
      /\ Len(data) = Len(params) /\ numParameters = Len(params)
      /\ p \in 1..Len(params) /\ p \in 1..Len(data)
  BY <1>1, TypesSay, LenProperties DEF Paired, TypeOKAttributes
<1>3. /\ Len(data[p]) = numNodes /\ DOMAIN data[p] = 1..numNodes
      /\ \A j, k \in 1..numNodes : data[p][j].id = data[p][k].id => j = k
  <2>1. /\ DOMAIN data = 1..Len(data) /\ DOMAIN data[p] = 1..Len(data[p])
    BY <1>2, TypesSay, RowsTyped
  <2> QED BY <1>1, <1>2, <2>1 DEF Distinct
<1> DEFINE S == Due(p)
           c == Cardinality(S)
<1>4. /\ S \in SUBSET (1..numNodes) /\ c \in Nat
      /\ Lines(p) = [r \in 1..c |-> Line(data[p][OfRank(S, r)])] /\ Len(Lines(p)) = c
  BY <1>2, LinesAre
<1>5. S = NonDefaults(p)
  <2>1. \A j \in NonDefaults(p) : j \in 1..numNodes
    BY <1>2, <1>3, LinesAre
  <2>2. \A j \in 1..numNodes : j <= numNodes
    BY <1>2
  <2> QED BY <2>1, <2>2 DEF Due
<1>6. /\ w.count = numParameters /\ w.header = params /\ w.body[p].name = params[p].name
      /\ w.body[p].count = c /\ w.body[p].entries = Lines(p)
      /\ \A h \in 1..w.count : w.body[h].name = params[h].name
  BY <1>2, <1>5 DEF SectionOf
<1>7. \A h \in 1..Len(params) : params[h].name = params[p].name => h = p
  BY <1>1, <1>2 DEF Distinct, NamesOf
<1> HIDE DEF w, S, c
<1>8. ASSUME NEW j \in 1..numNodes
      PROVE  data[p][j].values = Means(w, params[p].name, data[p][j].id)
  <2> DEFINE name == params[p].name
             node == data[p][j].id
             K == LinesAbout(w, p, c, node)
  <2>1. Entries(w, p) = [r \in 1..c |-> Line(data[p][OfRank(S, r)])]
    BY <1>4, <1>6 DEF Entries
  <2>2. /\ K = {} => Means(w, name, node) = w.header[p].default
        /\ \A last \in K : (\A k \in K : k <= last) =>
             Means(w, name, node) = Entries(w, p)[last].values
    <3>1. SoleSection(w, p, name, c)
      BY <1>2, <1>4, <1>6, <1>7, <2>1 DEF SoleSection
    <3> QED BY <3>1, MeansIs
  <2>3. /\ \A r \in 1..c : OfRank(S, r) \in S
        /\ \A k \in S : \E r \in 1..c : OfRank(S, r) = k
    BY <1>2, <1>4, OfRankIs DEF c
  <2>4. \A r \in 1..c : /\ Entries(w, p)[r].node = data[p][OfRank(S, r)].id
                        /\ Entries(w, p)[r].values = data[p][OfRank(S, r)].values
    BY <2>1 DEF Line
  <2>5. \A r \in 1..c : r \in K <=> OfRank(S, r) = j
    BY <1>3, <1>4, <2>3, <2>4 DEF LinesAbout
  <2>6. K \in SUBSET (1..c)
    BY DEF LinesAbout
  <2> HIDE DEF K
  <2>7. CASE j \in S
    <3>1. K # {}
      BY <2>3, <2>5, <2>7
    <3>2. PICK last \in K : \A k \in K : k <= last
      BY <1>4, <2>6, <3>1, LastOf
    <3>3. Entries(w, p)[last].values = data[p][j].values
      BY <2>4, <2>5, <2>6, <3>2
    <3> QED BY <2>2, <3>2, <3>3
  <2>8. CASE j \notin S
    <3>1. K = {}
      BY <2>3, <2>5, <2>6, <2>8
    <3>2. data[p][j].values = params[p].default
      BY <1>3, <1>5, <2>8 DEF NonDefaults, IsDefault
    <3> QED BY <1>6, <2>2, <3>1, <3>2
  <2> QED BY <2>7, <2>8
<1> QED BY <1>1, <1>4, <1>6, <1>8

(* A call that neither reads nor writes promises nothing new. *)
LEMMA PromisesKept ==
  ASSUME FileHonoured, NodesAttached,
         loaded' = {} \/ UNCHANGED <<mesh, params, data, locations, loaded, lapses>>
  PROVE  FileHonoured' /\ NodesAttached'
<1>1. CASE loaded' = {}
  BY <1>1 DEF FileHonoured, NodesAttached
<1>2. CASE UNCHANGED <<mesh, params, data, locations, loaded, lapses>>
  <2>1. /\ \A f : Foreign(f)' = Foreign(f)
        /\ \A f : Orderly(f)' = Orderly(f)
        /\ \A j : NumberAt(j)' = NumberAt(j)
    BY <1>2 DEF Orderly, Foreign, NumberAt
  <2>2. FileHonoured'
    BY <1>2, <2>1 DEF FileHonoured
  <2>3. NodesAttached'
    BY <1>2, <2>1 DEF NodesAttached
  <2> QED BY <2>2, <2>3
<1> QED BY <1>1, <1>2

AttributesInv == /\ TypeOKAttributes /\ Paired /\ Sized /\ OfMesh /\ DeathExplained13
                 /\ FileHonoured /\ NodesAttached /\ WriteFaithful

LEMMA AttributesStart == Init => AttributesInv
<1> SUFFICES ASSUME Init PROVE AttributesInv
  OBVIOUS
<1>1. Len(data) = 0 /\ Len(params) = 0 /\ loaded = {} /\ ret = "none"
  BY EmptySeq DEF Init
<1>2. Sized /\ OfMesh /\ DeathExplained13
  BY <1>1 DEF Init, Sized, OfMesh, DeathExplained13
<1>3. FileHonoured /\ NodesAttached /\ WriteFaithful
  BY <1>1 DEF FileHonoured, NodesAttached, WriteFaithful
<1> QED BY <1>2, <1>3, TypesStart DEF AttributesInv

LEMMA AttributesKept == AttributesInv /\ [Next]_vars => AttributesInv'
<1> SUFFICES ASSUME AttributesInv, [Next]_vars PROVE AttributesInv'
  OBVIOUS
<1>1. /\ TypeOKAttributes /\ Paired /\ Sized /\ OfMesh /\ DeathExplained13
      /\ FileHonoured /\ NodesAttached /\ WriteFaithful
  BY DEF AttributesInv
<1>2. TypeOKAttributes' /\ Paired' /\ Sized' /\ OfMesh' /\ DeathExplained13'
  BY <1>1, TypesKept, SizedKept
<1>3. FileHonoured' /\ NodesAttached' /\ WriteFaithful'
  <2>1. CASE Read
    <3>1. PICK f \in Fort13 :
            \/ ReadBadCounts(f) \/ ReadOtherMesh(f) \/ ReadTooManyRows(f)
            \/ ReadBadDefault(f) \/ ReadCutBody(f) \/ ReadWhole(f)
      BY <2>1 DEF Read
    <3>2. CASE ReadWhole(f)
      <4>1. ret' = "ok"
        BY <3>2 DEF ReadWhole
      <4> QED BY <1>1, <3>2, <4>1, ReadHonoured, ReadAttached DEF WriteFaithful
    <3>3. CASE ~ReadWhole(f)
      <4>1. loaded' = {} /\ ret' # "written"
        BY <1>1, <3>1, <3>3, CutBodyRead
           DEF ReadBadCounts, ReadOtherMesh, ReadTooManyRows, ReadBadDefault, ReadCutBody, ReadError
      <4> QED BY <1>1, <4>1, PromisesKept DEF WriteFaithful
    <3> QED BY <3>2, <3>3
  <2>2. CASE Write
    <3>1. UNCHANGED <<mesh, params, data, locations, loaded, lapses>>
      BY <2>2 DEF Write, Dies, tables, history
    <3> QED BY <1>1, <2>2, <3>1, PromisesKept, WriteHonoured
  <2>3. CASE /\ loaded' = {} \/ UNCHANGED <<mesh, params, data, locations, loaded, lapses>>
             /\ ret' # "written"
    BY <1>1, <2>3, PromisesKept DEF WriteFaithful
  <2>4. CASE UNCHANGED vars
    <3>1. UNCHANGED <<mesh, params, data, locations, loaded, lapses, written, ret, numNodes,
                      numParameters>>
      BY <2>4 DEF vars, counts, tables, history
    <3> QED BY <1>1, <3>1, PromisesKept DEF WriteFaithful
  <2>5. CASE \E m \in Meshes : SetMesh(m)
    BY <2>3, <2>5 DEF SetMesh
  <2>6. CASE \E md \in New, length \in RowLengths, v \in Values : AddAttribute(md, length, v)
    BY <2>3, <2>6 DEF AddAttribute
  <2>7. CASE ValueSet
    BY <1>1, <2>3, <2>7, ValueSetEnds DEF Quiet, tables, history
  <2>8. CASE Refused
    BY <2>3, <2>8 DEF Refused, tables, history
  <2>9. CASE DefaultSet
    BY <1>1, <2>3, <2>9, DefaultSetEnds DEF Quiet, tables, history
  <2> QED BY <1>1, <2>1, <2>2, <2>4, <2>5, <2>6, <2>7, <2>8, <2>9, ValueCalls DEF Next, DefaultSet
<1> QED BY <1>2, <1>3 DEF AttributesInv

(* The inductive invariant of nodal attributes. *)
THEOREM AttributesInvariant == Spec => []AttributesInv
<1> QED BY AttributesStart, AttributesKept, PTL DEF Spec

(* A file that was read whole, in the order of its header, on a mesh that   *)
(* gives no number twice and was not exchanged, is in memory.               *)
THEOREM FileHonouredAlways == Spec => []FileHonoured
<1>1. AttributesInv => FileHonoured
  BY DEF AttributesInv
<1> QED BY <1>1, AttributesInvariant, PTL

(* Each attribute read with a mesh hangs at the node of its position.       *)
THEOREM NodesAttachedAlways == Spec => []NodesAttached
<1>1. AttributesInv => NodesAttached
  BY DEF AttributesInv
<1> QED BY <1>1, AttributesInvariant, PTL

(* A file written says of every attribute and node what the object holds.   *)
THEOREM WriteFaithfulAlways == Spec => []WriteFaithful
<1>1. AttributesInv => WriteFaithful
  BY DEF AttributesInv
<1> QED BY <1>1, AttributesInvariant, PTL

(* Every call leaves the members within their types, for all files.         *)
THEOREM TypesAlways == Spec => []TypeOKAttributes
<1>1. AttributesInv => TypeOKAttributes
  BY DEF AttributesInv
<1> QED BY <1>1, AttributesInvariant, PTL

(* The process reads past its vectors only after one of the five lapses,    *)
(* whatever is read, set, added or written.                                 *)
THEOREM DeathExplainedAlways == Spec => []DeathExplained13
<1>1. AttributesInv => DeathExplained13
  BY DEF AttributesInv
<1> QED BY <1>1, AttributesInvariant, PTL
=============================================================================
