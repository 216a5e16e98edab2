------------------------------ MODULE Boundary ------------------------------
(***************************************************************************)
(* The boundaries of a mesh: class Boundary of src/src/boundary.cpp and    *)
(* the vector of them a mesh keeps (mesh_private.cpp: reading, writing,    *)
(* inserting and deleting).  The open and the land boundaries are two      *)
(* vectors with the same operations, `list' stands for either; `mine' is a *)
(* boundary its caller owns.                                               *)
(*                                                                         *)
(* A boundary is six or more parallel vectors.  They fall in four groups   *)
(* that every method sizes together, and the model keeps one vector a      *)
(* group: node1; crest and supercritical coefficient (weir); node2 and     *)
(* subcritical coefficient (back); height, diameter and coefficient of the *)
(* pipes (pipe).  A node is its identity, a number on a line a value, a    *)
(* digest what was digested.  A call that throws before it changed         *)
(* anything is a step that changes nothing and is left out, and so is the  *)
(* cached average longitude.  Asserts are off, as in the release build.    *)
(***************************************************************************)
EXTENDS Integers, Sequences

CONSTANTS
  Codes,     \* the boundary codes in use
  Nodes,     \* the nodes of the mesh
  NoNode,    \* nullptr
  Values,    \* what a coefficient may be
  Fresh,     \* the coefficient of an entry just allocated
  Files,     \* the boundary sections of the meshes there are to read
  MaxLength, \* bound: nodes along a boundary
  MaxList,   \* bound: boundaries of the mesh
  MaxCalls   \* bound: calls

VARIABLES
  list,   \* m_landBoundaries, or m_openBoundaries
  mine,   \* a Boundary of the caller
  disk,   \* the boundary section of the mesh file: what its lines say
  fate,   \* how the process stands
  calls   \* history: number of calls

vars == <<list, mine, disk, fate, calls>>

Open     == {-1}
Single   == {0, 1, 2, 10, 11, 12, 20, 21, 22, 30, 52, 102, 112, 122}
External == {3, 13, 23}
Plain    == {4, 24}
Piped    == {5, 25}
Internal == Plain \cup Piped
Weir     == External \cup Internal
Known    == Open \cup Single \cup Weir

NoHash == <<>>   \* m_hash null; a digest is the one-element sequence of what was digested

Ends == Nodes \cup {NoNode}

Least(a, b) == IF a <= b THEN a ELSE b

(* What a boundary says: its line of a file, and what its hash digests. *)
Texts == [code : Codes, node1 : Seq(Ends), weir : Seq(Values), back : Seq(Ends), pipe : Seq(Values)]

(* A line holds the numbers its code asks for, and nodes of the mesh. *)
Complete(x) ==
  LET Long(codes) == IF x.code \in codes THEN Len(x.node1) ELSE 0
  IN  /\ x.node1 \in Seq(Nodes) /\ x.back \in Seq(Nodes)
      /\ Len(x.weir) = Long(Weir) /\ Len(x.back) = Long(Internal) /\ Len(x.pipe) = Long(Piped)

ASSUME BoundaryAssumption ==
  /\ Codes \subseteq Int
  /\ -1 \in Codes
  /\ Nodes # {} /\ NoNode \notin Nodes
  /\ Fresh \in Values
  /\ MaxLength \in Nat /\ MaxList \in Nat /\ MaxCalls \in Nat
  /\ Files \subseteq Seq(Texts)
  /\ \A f \in Files : Len(f) <= MaxList /\ \A i \in DOMAIN f : Complete(f[i])

(* retyped and lagging are history: the code changed and the vectors were  *)
(* not sized since; the cached hash was not made anew since the nodes      *)
(* were added or the length was set.                                       *)
Boundaries ==
  [code : Codes, node1 : Seq(Ends), weir : Seq(Values), back : Seq(Ends), pipe : Seq(Values),
   hash : Seq(Texts), retyped : BOOLEAN, lagging : BOOLEAN]

Blank == [code |-> -1, node1 |-> <<>>, weir |-> <<>>, back |-> <<>>, pipe |-> <<>>,
          hash |-> NoHash, retyped |-> FALSE, lagging |-> FALSE]

(***************************************************************************)
(* One boundary.                                                           *)
(***************************************************************************)
Size(b) == Len(b.node1)

Fit(s, n, v) == [i \in 1..n |-> IF i <= Len(s) THEN s[i] ELSE v]

(* The entries of s in front, what t has past them. *)
Over(s, t, n) == [i \in 1..Len(t) |-> IF i <= n THEN s[i] ELSE t[i]]

(* Mutant of SetLength: the weir vectors are sized with the first nodes only. *)
SetLengthOnce(b, n) ==
  IF Size(b) = n THEN b
  ELSE [b EXCEPT !.node1 = Fit(@, n, NoNode),
                 !.weir = IF b.code \in Weir /\ Size(b) = 0 THEN Fit(@, n, Fresh) ELSE @,
                 !.back = IF b.code \in Internal THEN Fit(@, n, NoNode) ELSE @,
                 !.pipe = IF b.code \in Piped THEN Fit(@, n, Fresh) ELSE @,
                 !.retyped = FALSE,
                 !.lagging = b.hash # NoHash]

SetLength(b, n) ==
  IF Size(b) = n THEN b
  ELSE [b EXCEPT !.node1 = Fit(@, n, NoNode),
                 !.weir = IF b.code \in Weir THEN Fit(@, n, Fresh) ELSE @,
                 !.back = IF b.code \in Internal THEN Fit(@, n, NoNode) ELSE @,
                 !.pipe = IF b.code \in Piped THEN Fit(@, n, Fresh) ELSE @,
                 !.retyped = FALSE,
                 !.lagging = b.hash # NoHash]

Retyped(b, c) == [b EXCEPT !.code = c, !.retyped = @ \/ c # b.code]

(* The vectors its code works on reach as far as the boundary. *)
Copied(b) == /\ b.code \in Weir => Size(b) <= Len(b.weir)
             /\ b.code \in Internal => Size(b) <= Len(b.back)
Sized(b)  == /\ Copied(b)
             /\ b.code \in Piped => Size(b) <= Len(b.pipe)

Whole(b) == \A i \in 1..Size(b) : /\ b.node1[i] # NoNode
                                  /\ b.code \in Internal => b.back[i] # NoNode

Part(b, codes, s) == IF b.code \in codes THEN Fit(s, Size(b), Fresh) ELSE <<>>

Text(b) == [code |-> b.code, node1 |-> b.node1, weir |-> Part(b, Weir, b.weir),
            back |-> Part(b, Internal, b.back), pipe |-> Part(b, Piped, b.pipe)]

(* What walking the entries of a boundary comes to. *)
Walk(b) == IF ~Sized(b) THEN "overrun" ELSE IF ~Whole(b) THEN "null node" ELSE "running"

(* generateHash(): with no data added, getHash() calls through a pointer    *)
(* that was never set.                                                      *)
Digest(b) == IF Size(b) = 0 THEN "nothing digested" ELSE Walk(b)
Hashed(b) == IF Digest(b) = "running" THEN [b EXCEPT !.hash = <<Text(b)>>, !.lagging = FALSE] ELSE b

Rehash(b)  == IF b.hash = NoHash THEN "running" ELSE Digest(b)
Rehashed(b) == IF b.hash = NoHash THEN b ELSE Hashed(b)

(* Mutants of CopyTo: the second nodes of an internal weir are forgotten; the *)
(* hash of what was there before is kept.                                     *)
CopyToFront(a, b) ==
  [SetLength(Retyped(a, b.code), Size(b))
     EXCEPT !.node1 = b.node1, !.hash = NoHash, !.lagging = FALSE,
            !.weir = IF b.code \in Weir THEN Over(b.weir, @, Size(b)) ELSE @]
CopyToCached(a, b) ==
  LET r == [SetLength(Retyped(a, b.code), Size(b)) EXCEPT !.lagging = a.lagging]
  IN  IF ~Copied(r) \/ ~Copied(b) THEN r
      ELSE [r EXCEPT !.node1 = b.node1,
                     !.weir = IF b.code \in Weir THEN Over(b.weir, @, Size(b)) ELSE @,
                     !.back = IF b.code \in Internal THEN Over(b.back, @, Size(b)) ELSE @]

(* boundaryCopier(): onto a boundary that exists, or onto a blank one for   *)
(* the copy constructor.  The test for internal weirs comes before the one  *)
(* for those with pipes and takes them too.                                 *)
CopyTo(a, b) ==
  LET r == [SetLength(Retyped(a, b.code), Size(b)) EXCEPT !.hash = NoHash, !.lagging = FALSE]
      n == Size(b)
  IN  IF b.code \notin Known \/ ~Copied(r) \/ ~Copied(b) THEN r
      ELSE [r EXCEPT !.node1 = b.node1,
                     !.weir = IF b.code \in Weir THEN Over(b.weir, @, n) ELSE @,
                     !.back = IF b.code \in Internal THEN Over(b.back, @, n) ELSE @]
CopyFate(a, b) ==
  IF b.code \in Known /\ ~(Copied(b) /\ Copied(SetLength(Retyped(a, b.code), Size(b))))
  THEN "overrun" ELSE "running"

(***************************************************************************)
(* The calls.  Target 0 is the caller's own boundary, target i the i-th of *)
(* the mesh, which hands out pointers to them.                             *)
(***************************************************************************)
Targets == 0..Len(list)
At(t)   == IF t = 0 THEN mine ELSE list[t]

Call(f) == /\ fate = "running"
           /\ calls < MaxCalls
           /\ calls' = calls + 1
           /\ fate' = f

Put(t, b) == /\ mine' = IF t = 0 THEN b ELSE mine
             /\ list' = IF t = 0 THEN list ELSE [list EXCEPT ![t] = b]
             /\ UNCHANGED disk

Construct(c, n) ==
  /\ Put(0, SetLength([Blank EXCEPT !.code = c], n))
  /\ Call("running")

SetBoundaryCode(t, c) ==
  LET b == Retyped(At(t), c)
  IN  Put(t, Rehashed(b)) /\ Call(Rehash(b))

SetBoundaryLength(t, n) ==
  Put(t, SetLength(At(t), n)) /\ Call("running")

Shaped(b, c, n) ==
  LET r == Retyped(b, c)
  IN  IF Rehash(r) = "running" THEN SetLength(Rehashed(r), n) ELSE r

SetBoundary(t, c, n) ==
  Put(t, Shaped(At(t), c, n)) /\ Call(Rehash(Retyped(At(t), c)))

SetNode1(t, i, n) ==
  LET b == [At(t) EXCEPT !.node1[i] = n]
  IN  i \in 1..Size(At(t)) /\ Put(t, Rehashed(b)) /\ Call(Rehash(b))

(* One setter of the group: past the end of its vector it writes into what  *)
(* is not its own.                                                          *)
SetEntry(t, old, i, b) ==
  /\ i \in 1..Size(At(t))
  /\ IF i \in 1..Len(old)
     THEN Put(t, Rehashed(b)) /\ Call(Rehash(b))
     ELSE Put(t, At(t)) /\ Call("overrun")

SetNode2(t, i, n) ==
  /\ At(t).code \in Internal
  /\ SetEntry(t, At(t).back, i, [At(t) EXCEPT !.back[i] = n])

SetWeir(t, i, v) ==
  /\ At(t).code \in Weir
  /\ SetEntry(t, At(t).weir, i, [At(t) EXCEPT !.weir[i] = v])

SetPipe(t, i, v) ==
  /\ At(t).code \in Piped
  /\ SetEntry(t, At(t).pipe, i, [At(t) EXCEPT !.pipe[i] = v])

(* setNode2() and setPipeCoefficient() on another type set nothing and do   *)
(* not throw.                                                               *)
SetIgnored(t) ==
  /\ At(t).code \notin Piped
  /\ At(t).hash # NoHash
  /\ Put(t, Rehashed(At(t))) /\ Call(Rehash(At(t)))

(* addNode() in its four forms: the code must be of the form's class. *)
AddNode(t, n, m, v, p) ==
  LET b == At(t)
  IN  /\ b.code \in Single \cup Weir
      /\ Size(b) < MaxLength
      /\ Put(t, [b EXCEPT !.node1 = Append(@, n),
                          !.weir = IF b.code \in Weir THEN Append(@, v) ELSE @,
                          !.back = IF b.code \in Internal THEN Append(@, m) ELSE @,
                          !.pipe = IF b.code \in Piped THEN Append(@, p) ELSE @,
                          !.lagging = b.hash # NoHash])
      /\ Call("running")

Hash(t, force) ==
  LET b == At(t)
      made == b.hash = NoHash \/ force
  IN  /\ Put(t, IF made THEN Hashed(b) ELSE b)
      /\ Call(IF made THEN Digest(b) ELSE "running")

(***************************************************************************)
(* The vector of the mesh.  Growing may move its elements, each by the     *)
(* copy constructor; erasing assigns every later one to its predecessor.   *)
(***************************************************************************)
Worst(fates) == IF \A i \in DOMAIN fates : fates[i] = "running" THEN "running" ELSE "overrun"

First(s) == CHOOSE i \in s : \A j \in s : i <= j

Moved(s)     == [i \in 1..Len(s) |-> CopyTo(Blank, s[i])]
MovedFate(s) == Worst([i \in 1..Len(s) |-> CopyFate(Blank, s[i])])

List(s, f) == /\ list' = s
              /\ UNCHANGED <<mine, disk>>
              /\ Call(f)

(* Growing, the old vector is still there when a copy fails. *)
Grown(s, f) == List(IF f = "running" THEN s ELSE list, f)

SetNumBoundaries(n, moves) ==
  IF n <= Len(list) THEN List(SubSeq(list, 1, n), "running") /\ ~moves
  ELSE LET kept == IF moves THEN Moved(list) ELSE list
       IN  Grown(Fit(kept, n, Blank), IF moves THEN MovedFate(list) ELSE "running")

AddBoundary(i, moves) ==
  IF i <= Len(list)
  THEN ~moves /\ List([list EXCEPT ![i] = CopyTo(@, mine)], CopyFate(list[i], mine))
  ELSE LET kept == IF moves THEN Moved(list) ELSE list
       IN  /\ i = Len(list) + 1 /\ i <= MaxList
           /\ Grown(Append(kept, CopyTo(Blank, mine)),
                    Worst(<<CopyFate(Blank, mine), IF moves THEN MovedFate(list) ELSE "running">>))

DeleteBoundary(i) ==
  LET n == Len(list) - 1
      failed == {k \in i..n : CopyFate(list[k], list[k + 1]) # "running"}
      Until(last) == [k \in 1..Len(list) |-> IF k \in i..last THEN CopyTo(list[k], list[k + 1]) ELSE list[k]]
  IN  /\ i \in 1..Len(list)
      /\ IF failed = {} THEN List(SubSeq(Until(n), 1, n), "running")
         ELSE List(Until(First(failed)), "overrun")

(***************************************************************************)
(* The section of a fort.14 file: what toStringList() makes of each        *)
(* boundary, and what the reader makes of it.  setBoundary() comes first,  *)
(* then a setter a number, each of which makes a cached hash anew.  Cut, a *)
(* file ends within the first line of entries of its boundary number good, *)
(* or in its heading, and the reader throws.                               *)
(***************************************************************************)
Write ==
  /\ \A i \in 1..Len(list) : Walk(list[i]) = "running"
  /\ disk' = [i \in 1..Len(list) |-> Text(list[i])]
  /\ UNCHANGED <<list, mine>>
  /\ Call("running")

WriteFails ==
  /\ \E i \in 1..Len(list) : Call(Walk(list[i])) /\ Walk(list[i]) # "running"
  /\ UNCHANGED <<list, mine, disk>>

(* Mutant of Filled: the coefficients of the pipes are read past. *)
FilledDry(b, s) ==
  LET n == Len(s.node1)
      r == Shaped(b, s.code, n)
  IN  Rehashed([r EXCEPT !.node1 = s.node1,
                         !.weir = IF s.code \in Weir THEN Over(s.weir, @, n) ELSE @,
                         !.back = IF s.code \in Internal THEN Over(s.back, @, n) ELSE @])

Filled(b, s) ==
  LET n == Len(s.node1)
      r == Shaped(b, s.code, n)
  IN  Rehashed([r EXCEPT !.node1 = s.node1,
                         !.weir = IF s.code \in Weir THEN Over(s.weir, @, n) ELSE @,
                         !.back = IF s.code \in Internal THEN Over(s.back, @, n) ELSE @,
                         !.pipe = IF s.code \in Piped THEN Over(s.pipe, @, n) ELSE @])

(* The first setter of the first entry already digests all of them. *)
FillFate(b, s) ==
  LET r == Shaped(b, s.code, Len(s.node1))
  IN  IF Rehash(Retyped(b, s.code)) # "running" THEN Rehash(Retyped(b, s.code))
      ELSE IF Len(s.node1) = 0 THEN "running"
      ELSE IF ~Sized(r) THEN "overrun"
      ELSE Rehash([r EXCEPT !.node1[1] = s.node1[1]])

(* The boundaries the file is read into: what the mesh held, as many. *)
Room(moves, n) == IF n <= Len(list) THEN SubSeq(list, 1, n)
                  ELSE Fit(IF moves THEN Moved(list) ELSE list, n, Blank)

Read(moves, good) ==
  LET n == Len(disk)
      room == Room(moves, n)
      Shape(i) == Shaped(room[i], disk[i].code, Len(disk[i].node1))
      Fate(i) == IF i < good THEN FillFate(room[i], disk[i])
                 ELSE Rehash(Retyped(room[i], disk[i].code))
      failed == {i \in 1..Least(good, n) : Fate(i) # "running"}
      stop == IF failed = {} THEN good ELSE First(failed)
  IN  /\ moves => n > Len(list)
      /\ good \in 1..n + 1
      /\ good <= n => Len(disk[good].node1) > 0
      /\ IF moves /\ MovedFate(list) # "running" THEN List(list, "overrun")
         ELSE List([i \in 1..n |-> IF i < stop THEN Filled(room[i], disk[i])
                                   ELSE IF i = stop THEN Shape(i) ELSE room[i]],
                   IF failed = {} THEN "running" ELSE Fate(stop))

(* Of a heading cut behind the length, the reader of land boundaries takes  *)
(* the code from behind the tokens.                                         *)
ReadCutHeading(moves, good) ==
  LET n == Len(disk)
      room == Room(moves, n)
  IN  /\ moves => n > Len(list) /\ MovedFate(list) = "running"
      /\ good \in 1..n
      /\ \A i \in 1..n : i < good => FillFate(room[i], disk[i]) = "running"
      /\ \E f \in {"running", "cut heading"} :
           List([i \in 1..n |-> IF i < good THEN Filled(room[i], disk[i]) ELSE room[i]], f)

Init ==
  /\ list = <<>>
  /\ mine = Blank
  /\ disk \in Files
  /\ fate = "running"
  /\ calls = 0

Lengths == 0..MaxLength

Next ==
  \/ \E c \in Codes, n \in Lengths : Construct(c, n)
  \/ \E t \in Targets :
       \/ \E c \in Codes : SetBoundaryCode(t, c)
       \/ \E n \in Lengths : SetBoundaryLength(t, n)
       \/ \E c \in Codes, n \in Lengths : SetBoundary(t, c, n)
       \/ \E i \in 1..Size(At(t)) :
            \/ \E n \in Nodes : SetNode1(t, i, n) \/ SetNode2(t, i, n)
            \/ \E v \in Values : SetWeir(t, i, v) \/ SetPipe(t, i, v)
       \/ SetIgnored(t)
       \/ \E n, m \in Nodes, v, p \in Values : AddNode(t, n, m, v, p)
       \/ \E force \in BOOLEAN : Hash(t, force)
  \/ \E moves \in BOOLEAN :
       \/ \E n \in 0..MaxList : SetNumBoundaries(n, moves)
       \/ \E i \in 1..MaxList : AddBoundary(i, moves)
       \/ \E good \in 1..MaxList + 1 : Read(moves, good)
       \/ \E good \in 1..MaxList : ReadCutHeading(moves, good)
  \/ \E i \in 1..MaxList : DeleteBoundary(i)
  \/ Write
  \/ WriteFails

Spec == Init /\ [][Next]_vars

(***************************************************************************)
(* Properties.                                                             *)
(***************************************************************************)
(* The calls keep the shape of the objects. *)
TypeOKBoundary ==
  /\ list \in Seq(Boundaries) /\ Len(list) <= MaxList
  /\ mine \in Boundaries
  /\ disk \in Seq(Texts)
  /\ fate \in {"running", "overrun", "null node", "nothing digested", "cut heading"}
  /\ calls \in 0..MaxCalls

(* A boundary whose vectors are too short for its code was given that code  *)
(* at an unchanged length, by setBoundaryCode(), setBoundary(), an          *)
(* assignment or the reader: no other sequence of calls gets there.  And a  *)
(* vector of a boundary is overrun only when such a boundary is there (what *)
(* lies past the tokens of a cut heading is a fate of its own).             *)
SizedUnlessRetyped ==
  /\ \A t \in Targets : Sized(At(t)) \/ At(t).retyped
  /\ fate = "overrun" => \E t \in Targets : At(t).retyped

(* A cached hash is the digest of what the boundary says now, unless nodes  *)
(* were added or the length was set since it was made.                      *)
HashCurrent ==
  fate = "running" =>
    \A t \in Targets : LET b == At(t)
                       IN  b.hash # NoHash /\ ~b.lagging => Sized(b) /\ b.hash = <<Text(b)>>

(* What a boundary of a known code says outlives a copy, but for its pipes. *)
Kept(b, c) ==
  b.code \in Known /\ Sized(b) =>
    /\ Copied(c)
    /\ [Text(c) EXCEPT !.pipe = <<>>] = [Text(b) EXCEPT !.pipe = <<>>]

(* Inserting, deleting and growing leave every other boundary saying what   *)
(* it said, whichever objects it is copied through on the way.              *)
EditsKeep ==
  [][fate' = "running" =>
       /\ \A i \in 1..MaxList : DeleteBoundary(i) =>
            \A k \in DOMAIN list' : Kept(list[IF k < i THEN k ELSE k + 1], list'[k])
       /\ \A i \in 1..MaxList, moves \in BOOLEAN : AddBoundary(i, moves) =>
            \A k \in DOMAIN list' : Kept(IF k = i THEN mine ELSE list[k], list'[k])
       /\ \A n \in 0..MaxList, moves \in BOOLEAN : SetNumBoundaries(n, moves) =>
            \A k \in DOMAIN list' \cap DOMAIN list : Kept(list[k], list'[k])]_vars

(* Read to its end, a file leaves the mesh saying what it said when it was  *)
(* written, pipes included, whatever the mesh held before.                  *)
ReadRestores ==
  [][\A moves \in BOOLEAN : Read(moves, Len(disk) + 1) /\ fate' = "running" =>
       [i \in DOMAIN list' |-> Text(list'[i])] = disk]_vars
=============================================================================
