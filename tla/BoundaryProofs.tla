---------------------------- MODULE BoundaryProofs ----------------------------
(***************************************************************************)
(* What the boundaries of Boundary guarantee for every set of codes, nodes *)
(* and files, every bound and every order of calls.                        *)
(*                                                                         *)
(* A call works on a boundary in Goods and leaves one in Helds, which is   *)
(* in Goods again when the process lives on: the lemmas say so of each     *)
(* operator, and the vectors carry it as sequences over the two sets.      *)
(***************************************************************************)
EXTENDS Boundary, SequenceTheorems, WellFoundedInduction, TLAPS

Fine(b) == Sized(b) \/ b.retyped

Current(b) == b.hash # NoHash /\ ~b.lagging => Sized(b) /\ b.hash = <<Text(b)>>

Helds == {b \in Boundaries : Fine(b)}
Goods == {b \in Helds : Current(b)}

Lines == {x \in Texts : Complete(x)}

Fates == {"running", "overrun", "null node", "nothing digested", "cut heading"}

(* The inductive invariant: what the calls need of the boundaries they find, *)
(* and what a fatal one leaves behind.                                       *)
IInv ==
  /\ list \in Seq(Helds) /\ Len(list) <= MaxList
  /\ mine \in Helds
  /\ disk \in Seq(Lines) /\ Len(disk) <= MaxList
  /\ fate \in Fates
  /\ calls \in 0..MaxCalls
  /\ fate = "running" => list \in Seq(Goods) /\ mine \in Goods
  /\ fate = "overrun" => mine.retyped \/ \E i \in 1..Len(list) : list[i].retyped

(* A call that ends with fate f may leave b behind. *)
Outcome(b, f) ==
  /\ b \in Helds /\ f \in Fates
  /\ f = "running" => b \in Goods
  /\ f = "overrun" => b.retyped

-----------------------------------------------------------------------------
(* Sequences. *)

(* A set of numbers has a first element. *)
LEMMA FirstPosition ==
  ASSUME NEW S \in SUBSET Nat, S # {}
  PROVE  First(S) \in S /\ \A j \in S : First(S) <= j
<1> DEFINE R == OpToRel(<, Nat)
<1>1. IsWellFoundedOn(R, Nat)
  BY NatLessThanWellFounded
<1> HIDE DEF R
<1>2. PICK x \in S : \A y \in S : <<y, x>> \notin R
  BY <1>1, WFMin
<1>3. \A y \in S : x <= y
  <2> SUFFICES ASSUME NEW y \in S, y < x PROVE FALSE
    OBVIOUS
  <2>1. y \in Nat /\ x \in Nat
    OBVIOUS
  <2>2. <<y, x>> \in R
    BY <2>1 DEF R, OpToRel
  <2> QED BY <1>2, <2>2
<1> QED BY <1>3 DEF First

(* resize() keeps what fits and fills up with v. *)
LEMMA FitType ==
  ASSUME NEW S, NEW s \in Seq(S), NEW n \in Nat, NEW v, v \in S \/ n <= Len(s)
  PROVE  /\ Fit(s, n, v) \in Seq(S)
         /\ Len(Fit(s, n, v)) = n
         /\ \A i \in 1..n : Fit(s, n, v)[i] = IF i <= Len(s) THEN s[i] ELSE v
<1>1. Len(s) \in Nat /\ \A i \in 1..Len(s) : s[i] \in S
  BY LenProperties, ElementOfSeq
<1>2. \A i \in 1..n : (IF i <= Len(s) THEN s[i] ELSE v) \in S
  BY <1>1
<1>3. [i \in 1..n |-> IF i <= Len(s) THEN s[i] ELSE v] \in Seq(S)
  BY <1>2, IsASeq
<1>4. Fit(s, n, v) \in Seq(S) /\ DOMAIN Fit(s, n, v) = 1..n
  BY <1>3 DEF Fit
<1>5. Len(Fit(s, n, v)) = n
  BY <1>4, LenProperties
<1> QED BY <1>4, <1>5 DEF Fit

(* Writing over the front of t keeps its length. *)
LEMMA OverType ==
  ASSUME NEW S, NEW s \in Seq(S), NEW t \in Seq(S), NEW n \in Nat, n <= Len(s)
  PROVE  /\ Over(s, t, n) \in Seq(S)
         /\ Len(Over(s, t, n)) = Len(t)
         /\ \A i \in 1..Len(t) : Over(s, t, n)[i] = IF i <= n THEN s[i] ELSE t[i]
<1>1. /\ Len(s) \in Nat /\ \A i \in 1..Len(s) : s[i] \in S
      /\ Len(t) \in Nat /\ \A i \in 1..Len(t) : t[i] \in S
  BY LenProperties, ElementOfSeq
<1>2. \A i \in 1..Len(t) : (IF i <= n THEN s[i] ELSE t[i]) \in S
  BY <1>1
<1>3. [i \in 1..Len(t) |-> IF i <= n THEN s[i] ELSE t[i]] \in Seq(S)
  BY <1>1, <1>2, IsASeq
<1>4. Over(s, t, n) \in Seq(S) /\ DOMAIN Over(s, t, n) = 1..Len(t)
  BY <1>3 DEF Over
<1>5. Len(Over(s, t, n)) = Len(t)
  BY <1>1, <1>4, LenProperties
<1> QED BY <1>4, <1>5 DEF Over

(* What was written over the front of t is read back from it. *)
LEMMA FitOver ==
  ASSUME NEW S, NEW s \in Seq(S), NEW t \in Seq(S), NEW v, Len(s) <= Len(t)
  PROVE  Fit(Over(s, t, Len(s)), Len(s), v) = s
<1> DEFINE o == Over(s, t, Len(s))
<1>1. Len(s) \in Nat /\ Len(t) \in Nat
  BY LenProperties
<1>2. o \in Seq(S) /\ Len(o) = Len(t) /\ \A i \in 1..Len(t) : o[i] = IF i <= Len(s) THEN s[i] ELSE t[i]
  BY <1>1, OverType
<1> HIDE DEF o
<1>3. /\ Fit(o, Len(s), v) \in Seq(S)
      /\ Len(Fit(o, Len(s), v)) = Len(s)
      /\ \A i \in 1..Len(s) : Fit(o, Len(s), v)[i] = IF i <= Len(o) THEN o[i] ELSE v
  BY <1>1, <1>2, FitType
<1>4. \A i \in 1..Len(s) : Fit(o, Len(s), v)[i] = s[i]
  BY <1>1, <1>2, <1>3
<1>5. Fit(o, Len(s), v) = s
  BY <1>3, <1>4, SeqEqual
<1> QED BY <1>5 DEF o

(* Both say the same up to there. *)
LEMMA FitFront ==
  ASSUME NEW S, NEW s \in Seq(S), NEW t \in Seq(S), NEW n \in Nat, NEW v,
         n <= Len(s), n <= Len(t)
  PROVE  Fit(Over(s, t, n), n, v) = Fit(s, n, v)
<1> DEFINE o == Over(s, t, n)
<1>1. Len(s) \in Nat /\ Len(t) \in Nat
  BY LenProperties
<1>2. o \in Seq(S) /\ Len(o) = Len(t) /\ \A i \in 1..Len(t) : o[i] = IF i <= n THEN s[i] ELSE t[i]
  BY OverType
<1> HIDE DEF o
<1>3. /\ Fit(o, n, v) \in Seq(S) /\ Len(Fit(o, n, v)) = n
      /\ \A i \in 1..n : Fit(o, n, v)[i] = IF i <= Len(o) THEN o[i] ELSE v
  BY <1>1, <1>2, FitType
<1>4. /\ Fit(s, n, v) \in Seq(S) /\ Len(Fit(s, n, v)) = n
      /\ \A i \in 1..n : Fit(s, n, v)[i] = IF i <= Len(s) THEN s[i] ELSE v
  BY FitType
<1>5. \A i \in 1..n : Fit(o, n, v)[i] = Fit(s, n, v)[i]
  BY <1>1, <1>2, <1>3, <1>4
<1>6. Fit(o, n, v) = Fit(s, n, v)
  BY <1>3, <1>4, <1>5, SeqEqual
<1> QED BY <1>6 DEF o

-----------------------------------------------------------------------------
(* One boundary. *)

(* The fields of a boundary. *)
LEMMA Fields ==
  ASSUME NEW b \in Boundaries
  PROVE  /\ b.code \in Codes /\ b.hash \in Seq(Texts)
         /\ b.retyped \in BOOLEAN /\ b.lagging \in BOOLEAN
         /\ b.node1 \in Seq(Ends) /\ Len(b.node1) \in Nat
         /\ b.weir \in Seq(Values) /\ Len(b.weir) \in Nat
         /\ b.back \in Seq(Ends) /\ Len(b.back) \in Nat
         /\ b.pipe \in Seq(Values) /\ Len(b.pipe) \in Nat
BY LenProperties DEF Boundaries

(* A boundary without a hash, or with one that lags, needs its vectors only. *)
LEMMA Unhashed ==
  ASSUME NEW b \in Helds, b.hash = NoHash \/ b.lagging
  PROVE  b \in Goods
BY DEF Goods, Current

(* The sizes of the vectors are all that Sized and Copied look at. *)
LEMMA SameSizes ==
  ASSUME NEW b \in Boundaries, NEW c \in Boundaries, b.code = c.code,
         Len(b.node1) = Len(c.node1), Len(b.weir) = Len(c.weir),
         Len(b.back) = Len(c.back), Len(b.pipe) = Len(c.pipe)
  PROVE  (Sized(b) <=> Sized(c)) /\ (Copied(b) <=> Copied(c))
BY DEF Sized, Copied, Size

LEMMA RetypedHeld ==
  ASSUME NEW b \in Helds, NEW c \in Codes
  PROVE  /\ Retyped(b, c) \in Helds /\ Retyped(b, c).code = c
         /\ Size(Retyped(b, c)) = Size(b)
<1>1. b \in Boundaries /\ Fine(b)
  BY DEF Helds
<1>2. Retyped(b, c) \in Boundaries
  BY <1>1, Fields DEF Retyped, Boundaries
<1>3. CASE c = b.code
  <2>1. Retyped(b, c) = b
    BY <1>1, <1>3 DEF Retyped, Boundaries
  <2> QED BY <2>1, <1>3
<1>4. CASE c # b.code
  <2>1. Retyped(b, c).retyped /\ Retyped(b, c).code = c
    BY <1>1, <1>4 DEF Retyped, Boundaries
  <2> QED BY <2>1, <1>2 DEF Helds, Fine, Retyped, Size, Boundaries
<1> QED BY <1>3, <1>4

(* setBoundaryLength() leaves vectors that fit, and its hash lags. *)
LEMMA SetLengthSized ==
  ASSUME NEW b \in Boundaries, NEW n \in Nat, Size(b) # n
  PROVE  /\ SetLength(b, n) \in Boundaries /\ Sized(SetLength(b, n))
         /\ SetLength(b, n).hash = b.hash /\ SetLength(b, n).code = b.code
         /\ SetLength(b, n).lagging = (b.hash # NoHash)
         /\ Size(SetLength(b, n)) = n
<1> DEFINE r == SetLength(b, n)
<1>1. NoNode \in Ends /\ Fresh \in Values
  BY BoundaryAssumption DEF Ends
<1>2. Fit(b.node1, n, NoNode) \in Seq(Ends) /\ Len(Fit(b.node1, n, NoNode)) = n
  BY <1>1, Fields, FitType
<1>3. Fit(b.weir, n, Fresh) \in Seq(Values) /\ Len(Fit(b.weir, n, Fresh)) = n
  BY <1>1, Fields, FitType
<1>4. Fit(b.back, n, NoNode) \in Seq(Ends) /\ Len(Fit(b.back, n, NoNode)) = n
  BY <1>1, Fields, FitType
<1>5. Fit(b.pipe, n, Fresh) \in Seq(Values) /\ Len(Fit(b.pipe, n, Fresh)) = n
  BY <1>1, Fields, FitType
<1>6. r = [code |-> b.code, node1 |-> Fit(b.node1, n, NoNode),
           weir |-> IF b.code \in Weir THEN Fit(b.weir, n, Fresh) ELSE b.weir,
           back |-> IF b.code \in Internal THEN Fit(b.back, n, NoNode) ELSE b.back,
           pipe |-> IF b.code \in Piped THEN Fit(b.pipe, n, Fresh) ELSE b.pipe,
           hash |-> b.hash, retyped |-> FALSE, lagging |-> b.hash # NoHash]
  BY DEF SetLength, Boundaries
<1> HIDE DEF r
<1>7. r \in Boundaries
  BY <1>2, <1>3, <1>4, <1>5, <1>6, Fields DEF Boundaries
<1>8. Sized(r) /\ Size(r) = n
  BY <1>2, <1>3, <1>4, <1>5, <1>6 DEF Sized, Copied, Size
<1> QED BY <1>6, <1>7, <1>8 DEF r

LEMMA SetLengthHeld ==
  ASSUME NEW b \in Helds, NEW n \in Nat
  PROVE  /\ SetLength(b, n) \in Helds
         /\ SetLength(b, n).code = b.code /\ Size(SetLength(b, n)) = n
<1>1. b \in Boundaries
  BY DEF Helds
<1>2. CASE Size(b) = n
  BY <1>2 DEF SetLength
<1>3. CASE Size(b) # n
  BY <1>1, <1>3, SetLengthSized DEF Helds, Fine
<1> QED BY <1>2, <1>3

LEMMA SetLengthGood ==
  ASSUME NEW b \in Goods, NEW n \in Nat
  PROVE  SetLength(b, n) \in Goods
<1>1. b \in Boundaries /\ b \in Helds
  BY DEF Helds, Goods
<1>2. CASE Size(b) = n
  BY <1>2 DEF SetLength
<1>3. CASE Size(b) # n
  <2>1. /\ SetLength(b, n).hash = b.hash
        /\ SetLength(b, n).lagging = (b.hash # NoHash)
    BY <1>1, <1>3, SetLengthSized
  <2>2. SetLength(b, n) \in Helds
    BY <1>1, SetLengthHeld
  <2> QED BY <2>1, <2>2, Unhashed
<1> QED BY <1>2, <1>3

(* What a boundary whose vectors fit says. *)
LEMMA TextType ==
  ASSUME NEW b \in Boundaries, Sized(b)
  PROVE  Text(b) \in Texts
<1>1. Fresh \in Values
  BY BoundaryAssumption
<1>2. /\ Size(b) \in Nat /\ Internal \subseteq Weir /\ Piped \subseteq Internal
      /\ b.code \in Codes /\ b.node1 \in Seq(Ends)
  BY Fields DEF Size, Internal, Weir
<1>3. Part(b, Weir, b.weir) \in Seq(Values)
  BY <1>1, <1>2, Fields, FitType, EmptySeq DEF Part
<1>4. Part(b, Internal, b.back) \in Seq(Ends)
  <2>1. CASE b.code \in Internal
    <3>1. Size(b) <= Len(b.back)
      BY <2>1 DEF Sized, Copied
    <3>2. Fit(b.back, Size(b), Fresh) \in Seq(Ends)
      BY <1>2, <3>1, Fields, FitType
    <3> QED BY <2>1, <3>2 DEF Part
  <2>2. CASE b.code \notin Internal
    BY <2>2, EmptySeq DEF Part
  <2> QED BY <2>1, <2>2
<1>5. Part(b, Piped, b.pipe) \in Seq(Values)
  BY <1>1, <1>2, Fields, FitType, EmptySeq DEF Part
<1> QED BY <1>2, <1>3, <1>4, <1>5 DEF Text, Texts

(* Making the hash anew leaves a digest of what is there, or nothing new;   *)
(* only a boundary that was given its code can be overrun.                  *)
LEMMA HashedOutcome ==
  ASSUME NEW b \in Helds
  PROVE  /\ Outcome(Hashed(b), Digest(b))
         /\ Hashed(b).code = b.code /\ Size(Hashed(b)) = Size(b)
<1>1. b \in Boundaries /\ Fine(b)
  BY DEF Helds
<1>2. Digest(b) \in Fates
  BY DEF Digest, Walk, Fates
<1>3. Digest(b) = "overrun" => b.retyped
  BY <1>1 DEF Digest, Walk, Fine
<1>4. CASE Digest(b) = "running"
  <2>1. Sized(b)
    BY <1>4 DEF Digest, Walk
  <2>2. Text(b) \in Texts
    BY <1>1, <2>1, TextType
  <2>3. <<Text(b)>> \in Seq(Texts)
    BY <2>2
  <2>4. Hashed(b) = [b EXCEPT !.hash = <<Text(b)>>, !.lagging = FALSE]
    BY <1>4 DEF Hashed
  <2>5. /\ Hashed(b) \in Boundaries
        /\ Hashed(b).hash = <<Text(b)>> /\ Hashed(b).code = b.code
        /\ Hashed(b).node1 = b.node1 /\ Hashed(b).weir = b.weir
        /\ Hashed(b).back = b.back /\ Hashed(b).pipe = b.pipe
    BY <1>1, <2>3, <2>4 DEF Boundaries
  <2>6. Sized(Hashed(b))
    BY <1>1, <2>1, <2>5, SameSizes
  <2>7. Text(Hashed(b)) = Text(b)
    BY <2>5 DEF Text, Part, Size
  <2>8. Hashed(b) \in Goods
    BY <2>5, <2>6, <2>7 DEF Goods, Helds, Fine, Current
  <2> QED BY <1>4, <2>5, <2>8, <1>2 DEF Outcome, Goods, Size
<1>5. CASE Digest(b) # "running"
  <2>1. Hashed(b) = b
    BY <1>5 DEF Hashed
  <2> QED BY <1>2, <1>3, <1>5, <2>1 DEF Outcome
<1> QED BY <1>4, <1>5

LEMMA RehashedOutcome ==
  ASSUME NEW b \in Helds
  PROVE  /\ Outcome(Rehashed(b), Rehash(b))
         /\ Rehashed(b).code = b.code /\ Size(Rehashed(b)) = Size(b)
<1>1. CASE b.hash = NoHash
  <2>1. Rehashed(b) = b /\ Rehash(b) = "running"
    BY <1>1 DEF Rehashed, Rehash
  <2> QED BY <1>1, <2>1, Unhashed DEF Outcome, Fates
<1>2. CASE b.hash # NoHash
  BY <1>2, HashedOutcome DEF Rehashed, Rehash
<1> QED BY <1>1, <1>2

(* setBoundary(): fatal, it leaves the boundary with its new code. *)
LEMMA ShapedOutcome ==
  ASSUME NEW b \in Helds, NEW c \in Codes, NEW n \in Nat
  PROVE  /\ Outcome(Shaped(b, c, n), Rehash(Retyped(b, c)))
         /\ Rehash(Retyped(b, c)) = "running" => /\ Shaped(b, c, n).code = c
                                                 /\ Size(Shaped(b, c, n)) = n
<1> DEFINE r == Retyped(b, c)
<1>1. r \in Helds /\ r.code = c
  BY RetypedHeld
<1> HIDE DEF r
<1>2. /\ Outcome(Rehashed(r), Rehash(r))
      /\ Rehashed(r).code = c
  BY <1>1, RehashedOutcome
<1>3. CASE Rehash(r) = "running"
  <2>1. Rehashed(r) \in Goods /\ Rehashed(r) \in Helds
    BY <1>2, <1>3 DEF Outcome
  <2>2. /\ SetLength(Rehashed(r), n) \in Goods
        /\ SetLength(Rehashed(r), n).code = c
        /\ Size(SetLength(Rehashed(r), n)) = n
    BY <1>2, <2>1, SetLengthGood, SetLengthHeld
  <2>3. Shaped(b, c, n) = SetLength(Rehashed(r), n)
    BY <1>3 DEF Shaped, r
  <2> QED BY <1>3, <2>2, <2>3 DEF Outcome, Goods, Fates, r
<1>4. CASE Rehash(r) # "running"
  <2>1. Shaped(b, c, n) = r
    BY <1>4 DEF Shaped, r
  <2>2. Rehashed(r) = r
    BY <1>4 DEF Rehashed, Rehash, Hashed
  <2> QED BY <1>2, <1>4, <2>1, <2>2 DEF r
<1> QED BY <1>3, <1>4

-----------------------------------------------------------------------------
(* The copier. *)

(* What is copied to has vectors for what is copied, or was given a code. *)
LEMMA CopyOutcome ==
  ASSUME NEW a \in Helds, NEW b \in Helds
  PROVE  /\ CopyTo(a, b) \in Goods
         /\ CopyFate(a, b) \in {"running", "overrun"}
         /\ CopyFate(a, b) = "overrun" => CopyTo(a, b).retyped \/ b.retyped
<1> DEFINE q == SetLength(Retyped(a, b.code), Size(b))
           r == [q EXCEPT !.hash = NoHash, !.lagging = FALSE]
           n == Size(b)
<1>1. b \in Boundaries /\ Fine(b) /\ b.code \in Codes /\ n \in Nat
  BY Fields DEF Helds, Size
<1>2. q \in Helds /\ q.code = b.code /\ Size(q) = n
  <2>1. Retyped(a, b.code) \in Helds /\ Retyped(a, b.code).code = b.code
    BY <1>1, RetypedHeld
  <2> QED BY <1>1, <2>1, SetLengthHeld
<1>3. CopyTo(a, b) = IF b.code \notin Known \/ ~Copied(r) \/ ~Copied(b) THEN r
        ELSE [r EXCEPT !.node1 = b.node1,
                       !.weir = IF b.code \in Weir THEN Over(b.weir, @, n) ELSE @,
                       !.back = IF b.code \in Internal THEN Over(b.back, @, n) ELSE @]
  BY DEF CopyTo
<1>4. CopyFate(a, b) = IF b.code \in Known /\ ~(Copied(b) /\ Copied(q)) THEN "overrun" ELSE "running"
  BY DEF CopyFate
<1> HIDE DEF q
<1>5. NoHash \in Seq(Texts)
  BY EmptySeq DEF NoHash
<1>6. q \in Boundaries
  BY <1>2 DEF Helds
<1>7. /\ r \in Boundaries
      /\ r.code = q.code /\ r.retyped = q.retyped /\ r.hash = NoHash
      /\ r.node1 = q.node1 /\ r.weir = q.weir /\ r.back = q.back /\ r.pipe = q.pipe
  BY <1>5, <1>6 DEF Boundaries
<1> HIDE DEF r, n
<1>8. (Sized(r) <=> Sized(q)) /\ (Copied(r) <=> Copied(q))
  BY <1>6, <1>7, SameSizes
<1>9. r \in Helds
  BY <1>2, <1>7, <1>8 DEF Helds, Fine
<1>10. CASE b.code \notin Known \/ ~Copied(r) \/ ~Copied(b)
  <2>1. CopyTo(a, b) = r
    BY <1>3, <1>10
  <2>2. r \in Goods
    BY <1>7, <1>9, Unhashed
  <2>3. CopyFate(a, b) = "overrun" => ~Copied(b) \/ ~Copied(r)
    BY <1>4, <1>8
  <2>4. (~Copied(b) => b.retyped) /\ (~Copied(r) => r.retyped)
    BY <1>1, <1>9 DEF Fine, Helds, Sized
  <2> QED BY <1>4, <2>1, <2>2, <2>3, <2>4
<1>11. CASE ~(b.code \notin Known \/ ~Copied(r) \/ ~Copied(b))
  <2> DEFINE w == IF b.code \in Weir THEN Over(b.weir, r.weir, n) ELSE r.weir
             k == IF b.code \in Internal THEN Over(b.back, r.back, n) ELSE r.back
  <2>1. w \in Seq(Values) /\ Len(w) = Len(r.weir)
    <3>1. b.code \in Weir => n <= Len(b.weir)
      BY <1>11 DEF Copied, n
    <3> QED BY <1>1, <1>7, <3>1, Fields, OverType
  <2>2. k \in Seq(Ends) /\ Len(k) = Len(r.back)
    <3>1. b.code \in Internal => n <= Len(b.back)
      BY <1>11 DEF Copied, n
    <3> QED BY <1>1, <1>7, <3>1, Fields, OverType
  <2> HIDE DEF w, k
  <2>3. CopyTo(a, b) = [r EXCEPT !.node1 = b.node1, !.weir = w, !.back = k]
    BY <1>3, <1>7, <1>11 DEF w, k, Boundaries
  <2> DEFINE d == CopyTo(a, b)
  <2>4. b.node1 \in Seq(Ends) /\ Len(b.node1) = Len(r.node1)
    BY <1>1, <1>2, <1>7, Fields DEF Size, n
  <2>5. /\ d \in Boundaries /\ d.code = r.code /\ d.retyped = r.retyped /\ d.hash = NoHash
        /\ d.node1 = b.node1 /\ d.weir = w /\ d.back = k /\ d.pipe = r.pipe
    BY <1>7, <2>1, <2>2, <2>3, <2>4 DEF Boundaries
  <2> HIDE DEF d
  <2>6. Sized(d) <=> Sized(r)
    BY <1>7, <2>1, <2>2, <2>4, <2>5, SameSizes
  <2>7. d \in Helds
    BY <1>9, <2>5, <2>6 DEF Helds, Fine
  <2>8. d \in Goods
    BY <2>5, <2>7, Unhashed
  <2>9. CopyFate(a, b) = "running"
    BY <1>4, <1>8, <1>11
  <2> QED BY <2>8, <2>9 DEF d
<1> QED BY <1>10, <1>11

LEMMA BlankGood == Blank \in Goods /\ Size(Blank) = 0
<1>1. -1 \in Codes /\ -1 \notin Weir /\ -1 \notin Internal /\ -1 \notin Piped
  BY BoundaryAssumption DEF Weir, External, Internal, Plain, Piped
<1>2. Blank \in Boundaries
  BY <1>1, EmptySeq DEF Blank, Boundaries, NoHash
<1>3. Sized(Blank) /\ Blank.hash = NoHash /\ Size(Blank) = 0
  BY <1>1 DEF Blank, Sized, Copied, Size
<1> QED BY <1>2, <1>3 DEF Goods, Helds, Fine, Current

(* Onto a blank boundary only the one that is copied can be too short. *)
LEMMA BlankCopied ==
  ASSUME NEW b \in Helds
  PROVE  /\ CopyTo(Blank, b) \in Goods
         /\ CopyFate(Blank, b) \in {"running", "overrun"}
         /\ CopyFate(Blank, b) = "overrun" => b.retyped
<1> DEFINE p == Retyped(Blank, b.code)
           q == SetLength(p, Size(b))
<1>1. b \in Boundaries /\ Fine(b) /\ b.code \in Codes /\ Size(b) \in Nat
  BY Fields DEF Helds, Size
<1>2. Blank \in Helds
  BY BlankGood DEF Goods
<1>3. p \in Helds /\ Size(p) = 0
  BY <1>1, <1>2, BlankGood, RetypedHeld
<1>4. p \in Boundaries
  BY <1>3 DEF Helds
<1>5. CopyFate(Blank, b) = IF b.code \in Known /\ ~(Copied(b) /\ Copied(q)) THEN "overrun" ELSE "running"
  BY DEF CopyFate
<1> HIDE DEF p
<1>6. Copied(q)
  <2>1. CASE Size(b) = 0
    <3>1. q = p
      BY <1>3, <2>1 DEF SetLength
    <3> QED BY <1>3, <1>4, <3>1, Fields DEF Copied
  <2>2. CASE Size(b) # 0
    BY <1>1, <1>3, <1>4, <2>2, SetLengthSized DEF Sized
  <2> QED BY <2>1, <2>2
<1>7. CopyFate(Blank, b) = "overrun" => b.retyped
  BY <1>1, <1>5, <1>6 DEF Fine, Sized
<1> QED BY <1>2, <1>7, CopyOutcome

LEMMA WorstFate ==
  ASSUME NEW n \in Nat, NEW f \in [1..n -> {"running", "overrun"}]
  PROVE  /\ Worst(f) \in {"running", "overrun"}
         /\ Worst(f) = "overrun" => \E i \in 1..n : f[i] = "overrun"
BY DEF Worst

(* A vector that moves is copied whole, or one of its boundaries was given its code. *)
LEMMA MovedOutcome ==
  ASSUME NEW s \in Seq(Helds)
  PROVE  /\ Moved(s) \in Seq(Goods) /\ Len(Moved(s)) = Len(s)
         /\ MovedFate(s) \in {"running", "overrun"}
         /\ MovedFate(s) = "overrun" => \E i \in 1..Len(s) : s[i].retyped
<1>1. Len(s) \in Nat /\ \A i \in 1..Len(s) : s[i] \in Helds
  BY LenProperties, ElementOfSeq
<1>2. \A i \in 1..Len(s) : /\ CopyTo(Blank, s[i]) \in Goods
                           /\ CopyFate(Blank, s[i]) \in {"running", "overrun"}
                           /\ CopyFate(Blank, s[i]) = "overrun" => s[i].retyped
  BY <1>1, BlankCopied
<1>3. [i \in 1..Len(s) |-> CopyTo(Blank, s[i])] \in Seq(Goods)
  BY <1>1, <1>2, IsASeq
<1>4. Moved(s) \in Seq(Goods) /\ DOMAIN Moved(s) = 1..Len(s)
  BY <1>3 DEF Moved
<1>5. Len(Moved(s)) = Len(s)
  BY <1>1, <1>4, LenProperties
<1> DEFINE f == [i \in 1..Len(s) |-> CopyFate(Blank, s[i])]
<1>6. f \in [1..Len(s) -> {"running", "overrun"}] /\ MovedFate(s) = Worst(f)
  BY <1>2 DEF MovedFate
<1>7. \A i \in 1..Len(s) : f[i] = "overrun" => s[i].retyped
  BY <1>2
<1> HIDE DEF f
<1> QED BY <1>1, <1>4, <1>5, <1>6, <1>7, WorstFate

(* Copying keeps what a boundary of a known code says, but for its pipes. *)
LEMMA CopyKeeps ==
  ASSUME NEW a \in Helds, NEW b \in Helds, CopyFate(a, b) = "running"
  PROVE  Kept(b, CopyTo(a, b))
<1> SUFFICES ASSUME b.code \in Known, Sized(b)
             PROVE  /\ Copied(CopyTo(a, b))
                    /\ [Text(CopyTo(a, b)) EXCEPT !.pipe = <<>>] = [Text(b) EXCEPT !.pipe = <<>>]
  BY DEF Kept
<1> DEFINE q == SetLength(Retyped(a, b.code), Size(b))
           r == [q EXCEPT !.hash = NoHash, !.lagging = FALSE]
           n == Size(b)
<1>1. b \in Boundaries /\ b.code \in Codes /\ n \in Nat
  BY Fields DEF Helds, Size
<1>2. q \in Boundaries /\ q.code = b.code /\ Size(q) = n
  <2>1. Retyped(a, b.code) \in Helds /\ Retyped(a, b.code).code = b.code
    BY <1>1, RetypedHeld
  <2>2. q \in Helds /\ q.code = b.code /\ Size(q) = n
    BY <1>1, <2>1, SetLengthHeld
  <2> QED BY <2>2 DEF Helds
<1>3. Copied(b) /\ Copied(q)
  BY DEF CopyFate
<1>4. CopyTo(a, b) = IF b.code \notin Known \/ ~Copied(r) \/ ~Copied(b) THEN r
        ELSE [r EXCEPT !.node1 = b.node1,
                       !.weir = IF b.code \in Weir THEN Over(b.weir, @, n) ELSE @,
                       !.back = IF b.code \in Internal THEN Over(b.back, @, n) ELSE @]
  BY DEF CopyTo
<1> HIDE DEF q
<1>5. NoHash \in Seq(Texts)
  BY EmptySeq DEF NoHash
<1>6. /\ r \in Boundaries /\ r.code = b.code
      /\ r.node1 = q.node1 /\ r.weir = q.weir /\ r.back = q.back /\ r.pipe = q.pipe
  BY <1>2, <1>5 DEF Boundaries
<1> HIDE DEF r
<1>7. Copied(r)
  BY <1>2, <1>3, <1>6, SameSizes
<1> DEFINE w == IF b.code \in Weir THEN Over(b.weir, r.weir, n) ELSE r.weir
           k == IF b.code \in Internal THEN Over(b.back, r.back, n) ELSE r.back
<1>8. b.code \in Weir => n <= Len(b.weir) /\ n <= Len(r.weir)
  BY <1>2, <1>3, <1>6, <1>7 DEF Copied, Size
<1>9. b.code \in Internal => n <= Len(b.back) /\ n <= Len(r.back)
  BY <1>2, <1>3, <1>6, <1>7 DEF Copied, Size
<1>10. /\ b.weir \in Seq(Values) /\ r.weir \in Seq(Values)
      /\ b.back \in Seq(Ends) /\ r.back \in Seq(Ends)
  BY <1>1, <1>6, Fields
<1> DEFINE d == CopyTo(a, b)
<1>11. /\ d.code = b.code /\ d.node1 = b.node1 /\ d.weir = w /\ d.back = k
  BY <1>3, <1>4, <1>6, <1>7 DEF Boundaries
<1> HIDE DEF n
<1>12. Size(d) = n
  BY <1>11 DEF Size, n
<1>13. Copied(d)
  <2>1. b.code \in Weir => n <= Len(d.weir)
    BY <1>1, <1>8, <1>10, <1>11, OverType
  <2>2. b.code \in Internal => n <= Len(d.back)
    BY <1>1, <1>9, <1>10, <1>11, OverType
  <2> QED BY <1>11, <1>12, <2>1, <2>2 DEF Copied
<1>14. Part(d, Weir, d.weir) = Part(b, Weir, b.weir)
  <2>1. CASE b.code \in Weir
    <3>1. Fit(w, n, Fresh) = Fit(b.weir, n, Fresh)
      BY <1>1, <1>8, <1>10, <2>1, FitFront
    <3> HIDE DEF w
    <3> QED BY <1>11, <1>12, <2>1, <3>1 DEF Part, n
  <2>2. CASE b.code \notin Weir
    BY <1>11, <2>2 DEF Part
  <2> QED BY <2>1, <2>2
<1>15. Part(d, Internal, d.back) = Part(b, Internal, b.back)
  <2>1. CASE b.code \in Internal
    <3>1. Fit(k, n, Fresh) = Fit(b.back, n, Fresh)
      BY <1>1, <1>9, <1>10, <2>1, FitFront
    <3> HIDE DEF k
    <3> QED BY <1>11, <1>12, <2>1, <3>1 DEF Part, n
  <2>2. CASE b.code \notin Internal
    BY <1>11, <2>2 DEF Part
  <2> QED BY <2>1, <2>2
<1> QED BY <1>11, <1>13, <1>14, <1>15 DEF d, Text

-----------------------------------------------------------------------------
(* The reader. *)

LEMMA OverNothing ==
  ASSUME NEW S, NEW s \in Seq(S), NEW t \in Seq(S)
  PROVE  Over(s, t, 0) = t
<1>1. Len(s) \in Nat /\ Len(t) \in Nat
  BY LenProperties
<1>2. /\ Over(s, t, 0) \in Seq(S) /\ Len(Over(s, t, 0)) = Len(t)
      /\ \A i \in 1..Len(t) : Over(s, t, 0)[i] = IF i <= 0 THEN s[i] ELSE t[i]
  BY <1>1, OverType
<1>3. \A i \in 1..Len(t) : Over(s, t, 0)[i] = t[i]
  BY <1>1, <1>2
<1> QED BY <1>2, <1>3, SeqEqual

(* What a line holds. *)
LEMMA LineFields ==
  ASSUME NEW s \in Lines
  PROVE  /\ s \in Texts /\ s.code \in Codes /\ Len(s.node1) \in Nat
         /\ s.node1 \in Seq(Nodes) /\ s.node1 \in Seq(Ends)
         /\ s.back \in Seq(Nodes) /\ s.back \in Seq(Ends)
         /\ s.weir \in Seq(Values) /\ s.pipe \in Seq(Values)
         /\ Len(s.weir) = IF s.code \in Weir THEN Len(s.node1) ELSE 0
         /\ Len(s.back) = IF s.code \in Internal THEN Len(s.node1) ELSE 0
         /\ Len(s.pipe) = IF s.code \in Piped THEN Len(s.node1) ELSE 0
<1>1. s \in Texts /\ Complete(s)
  BY DEF Lines
<1>2. /\ s.code \in Codes /\ s.node1 \in Seq(Ends) /\ s.back \in Seq(Ends)
      /\ s.weir \in Seq(Values) /\ s.pipe \in Seq(Values)
  BY <1>1 DEF Texts
<1>3. Len(s.node1) \in Nat
  BY <1>2, LenProperties
<1> QED BY <1>1, <1>2, <1>3 DEF Complete

(* Read to its end, a line is what the boundary says. *)
LEMMA FilledGood ==
  ASSUME NEW b \in Helds, NEW s \in Lines, FillFate(b, s) = "running"
  PROVE  Filled(b, s) \in Goods /\ Text(Filled(b, s)) = s
<1> DEFINE n == Len(s.node1)
           r == Shaped(b, s.code, n)
           w == IF s.code \in Weir THEN Over(s.weir, r.weir, n) ELSE r.weir
           k == IF s.code \in Internal THEN Over(s.back, r.back, n) ELSE r.back
           p == IF s.code \in Piped THEN Over(s.pipe, r.pipe, n) ELSE r.pipe
           q == [r EXCEPT !.node1 = s.node1, !.weir = w, !.back = k, !.pipe = p]
<1>1. n \in Nat /\ s.code \in Codes
  BY LineFields
<1>2. Rehash(Retyped(b, s.code)) = "running"
  BY DEF FillFate
<1>3. r \in Goods /\ r.code = s.code /\ Size(r) = n
  BY <1>1, <1>2, ShapedOutcome DEF Outcome
<1>4. r \in Boundaries /\ r \in Helds
  BY <1>3 DEF Goods, Helds
<1>5. Sized(r)
  <2>1. n # 0 => Sized(r)
    BY <1>2 DEF FillFate
  <2>2. CASE n = 0
    BY <1>3, <1>4, <2>2, Fields DEF Sized, Copied
  <2> QED BY <2>1, <2>2
<1>6. Filled(b, s) = Rehashed([r EXCEPT !.node1 = s.node1,
         !.weir = IF s.code \in Weir THEN Over(s.weir, @, n) ELSE @,
         !.back = IF s.code \in Internal THEN Over(s.back, @, n) ELSE @,
         !.pipe = IF s.code \in Piped THEN Over(s.pipe, @, n) ELSE @])
  BY DEF Filled
<1> HIDE DEF r
<1>7. Filled(b, s) = Rehashed(q)
  BY <1>4, <1>6 DEF Boundaries
<1>8. /\ r.weir \in Seq(Values) /\ r.back \in Seq(Ends) /\ r.pipe \in Seq(Values)
      /\ s.weir \in Seq(Values) /\ s.back \in Seq(Ends) /\ s.pipe \in Seq(Values)
      /\ s.code \in Weir => Len(s.weir) = n /\ n <= Len(r.weir)
      /\ s.code \in Internal => Len(s.back) = n /\ n <= Len(r.back)
      /\ s.code \in Piped => Len(s.pipe) = n /\ n <= Len(r.pipe)
  BY <1>3, <1>4, <1>5, Fields, LineFields DEF Sized, Copied
<1>9. /\ w \in Seq(Values) /\ Len(w) = Len(r.weir)
      /\ k \in Seq(Ends) /\ Len(k) = Len(r.back)
      /\ p \in Seq(Values) /\ Len(p) = Len(r.pipe)
  <2>1. w \in Seq(Values) /\ Len(w) = Len(r.weir)
    BY <1>1, <1>8, OverType
  <2>2. k \in Seq(Ends) /\ Len(k) = Len(r.back)
    BY <1>1, <1>8, OverType
  <2>3. p \in Seq(Values) /\ Len(p) = Len(r.pipe)
    BY <1>1, <1>8, OverType
  <2> QED BY <2>1, <2>2, <2>3
<1>10. s.code \in Weir => Fit(w, n, Fresh) = s.weir
  BY <1>8, FitOver
<1>11. s.code \in Internal => Fit(k, n, Fresh) = s.back
  BY <1>8, FitOver
<1>12. s.code \in Piped => Fit(p, n, Fresh) = s.pipe
  BY <1>8, FitOver
<1>13. s.code \in Internal => \A i \in 1..n : k[i] = s.back[i]
  <2> SUFFICES ASSUME s.code \in Internal PROVE \A i \in 1..n : k[i] = s.back[i]
    OBVIOUS
  <2>1. k = Over(s.back, r.back, n) /\ n <= Len(s.back)
    BY <1>8
  <2> HIDE DEF k
  <2>2. \A i \in 1..Len(r.back) : k[i] = IF i <= n THEN s.back[i] ELSE r.back[i]
    BY <1>1, <1>8, <2>1, OverType
  <2>3. Len(r.back) \in Nat
    BY <1>4, Fields
  <2> QED BY <1>1, <1>8, <2>2, <2>3
<1>14. n = 0 => q = r
  <2> SUFFICES ASSUME n = 0 PROVE q = r
    OBVIOUS
  <2>1. w = r.weir /\ k = r.back /\ p = r.pipe
    BY <1>8, OverNothing
  <2>2. r.node1 = s.node1
    <3>1. Len(r.node1) = 0 /\ Len(s.node1) = 0
      BY <1>3 DEF Size
    <3> QED BY <1>4, <3>1, Fields, LineFields, SeqEqual
  <2> HIDE DEF w, k, p
  <2> QED BY <1>4, <2>1, <2>2 DEF Boundaries
<1> HIDE DEF w, k, p
<1>15. /\ q \in Boundaries /\ q.code = s.code /\ q.hash = r.hash /\ q.retyped = r.retyped
       /\ q.node1 = s.node1 /\ q.weir = w /\ q.back = k /\ q.pipe = p
  BY <1>3, <1>4, <1>9, LineFields DEF Boundaries
<1> HIDE DEF q
<1>16. Sized(q) /\ Size(q) = n
  BY <1>3, <1>4, <1>5, <1>9, <1>15, SameSizes DEF Size
<1>17. q \in Helds
  BY <1>15, <1>16 DEF Helds, Fine
<1>18. Text(q) = s
  <2>1. Part(q, Weir, q.weir) = s.weir
    <3>1. s.code \notin Weir => s.weir = <<>>
      BY LineFields, EmptySeq
    <3> QED BY <1>10, <1>15, <1>16, <3>1 DEF Part
  <2>2. Part(q, Internal, q.back) = s.back
    <3>1. s.code \notin Internal => s.back = <<>>
      BY LineFields, EmptySeq
    <3> QED BY <1>11, <1>15, <1>16, <3>1 DEF Part
  <2>3. Part(q, Piped, q.pipe) = s.pipe
    <3>1. s.code \notin Piped => s.pipe = <<>>
      BY LineFields, EmptySeq
    <3> QED BY <1>12, <1>15, <1>16, <3>1 DEF Part
  <2> QED BY <1>15, <2>1, <2>2, <2>3, LineFields DEF Text, Texts
<1>19. Whole(q)
  <2>1. \A i \in 1..n : s.node1[i] \in Nodes
    BY LineFields, ElementOfSeq
  <2>2. s.code \in Internal => \A i \in 1..n : s.back[i] \in Nodes
    BY LineFields, <1>8, ElementOfSeq
  <2>3. NoNode \notin Nodes
    BY BoundaryAssumption
  <2> QED BY <1>13, <1>15, <1>16, <2>1, <2>2, <2>3 DEF Whole
<1>20. Rehashed(q) \in Goods
  <2>1. CASE n = 0 /\ q.hash # NoHash
    <3>1. Rehashed(q) = q
      BY <1>16, <2>1 DEF Rehashed, Hashed, Digest
    <3> QED BY <1>3, <1>14, <2>1, <3>1
  <2>2. CASE ~(n = 0 /\ q.hash # NoHash)
    <3>1. Rehash(q) = "running"
      BY <1>16, <1>19, <2>2 DEF Rehash, Digest, Walk
    <3> QED BY <1>17, <3>1, RehashedOutcome DEF Outcome
  <2> QED BY <2>1, <2>2
<1>21. Text(Rehashed(q)) = Text(q)
  <2>1. Rehashed(q) = q \/ Rehashed(q) = [q EXCEPT !.hash = <<Text(q)>>, !.lagging = FALSE]
    BY DEF Rehashed, Hashed
  <2>2. /\ Rehashed(q).code = q.code /\ Rehashed(q).node1 = q.node1 /\ Rehashed(q).weir = q.weir
        /\ Rehashed(q).back = q.back /\ Rehashed(q).pipe = q.pipe
    BY <1>15, <2>1 DEF Boundaries
  <2> QED BY <2>2 DEF Text, Part, Size
<1> QED BY <1>7, <1>18, <1>20, <1>21

(* A line that overruns the boundary it is read into has just given it its code. *)
LEMMA FillFails ==
  ASSUME NEW b \in Helds, NEW s \in Lines
  PROVE  /\ FillFate(b, s) \in Fates
         /\ FillFate(b, s) = "overrun" => Shaped(b, s.code, Len(s.node1)).retyped
<1> DEFINE n == Len(s.node1)
           r == Shaped(b, s.code, n)
           q == [r EXCEPT !.node1[1] = s.node1[1]]
<1>1. n \in Nat /\ s.code \in Codes
  BY LineFields
<1>2. Outcome(r, Rehash(Retyped(b, s.code)))
  BY <1>1, ShapedOutcome
<1>3. r \in Boundaries /\ Fine(r)
  BY <1>2 DEF Outcome, Helds
<1>4. FillFate(b, s) = IF Rehash(Retyped(b, s.code)) # "running" THEN Rehash(Retyped(b, s.code))
                      ELSE IF n = 0 THEN "running"
                      ELSE IF ~Sized(r) THEN "overrun" ELSE Rehash(q)
  BY DEF FillFate
<1> HIDE DEF r
<1>5. Rehash(q) \in Fates
  BY DEF Rehash, Digest, Walk, Fates
<1>6. CASE Rehash(Retyped(b, s.code)) # "running"
  BY <1>2, <1>4, <1>6 DEF Outcome, r
<1>7. CASE Rehash(Retyped(b, s.code)) = "running" /\ ~(n # 0 /\ Sized(r))
  BY <1>3, <1>4, <1>7 DEF Fine, Fates, r
<1>8. CASE Rehash(Retyped(b, s.code)) = "running" /\ n # 0 /\ Sized(r)
  <2>1. Size(r) = n
    BY <1>1, <1>8, ShapedOutcome DEF r
  <2>2. s.node1[1] \in Ends /\ r.node1 \in Seq(Ends) /\ 1 \in 1..Len(r.node1)
    BY <1>1, <1>3, <1>8, <2>1, Fields, LineFields, ElementOfSeq DEF Size
  <2>3. /\ [r.node1 EXCEPT ![1] = s.node1[1]] \in Seq(Ends)
        /\ Len([r.node1 EXCEPT ![1] = s.node1[1]]) = Len(r.node1)
    BY <2>2, ExceptSeq
  <2>4. /\ q \in Boundaries /\ q.code = r.code
        /\ Len(q.node1) = Len(r.node1) /\ q.weir = r.weir /\ q.back = r.back /\ q.pipe = r.pipe
    BY <1>3, <2>3 DEF Boundaries
  <2> HIDE DEF q
  <2>5. Sized(q)
    BY <1>3, <1>8, <2>4, SameSizes
  <2>6. Rehash(q) # "overrun"
    BY <2>5 DEF Rehash, Digest, Walk
  <2> QED BY <1>4, <1>5, <1>8, <2>6
<1> QED BY <1>6, <1>7, <1>8

-----------------------------------------------------------------------------
(* The calls on one boundary. *)

LEMMA GoodsHeld == Goods \subseteq Helds /\ Helds \subseteq Boundaries /\ Seq(Goods) \subseteq Seq(Helds)
<1>1. Goods \subseteq Helds /\ Helds \subseteq Boundaries
  BY DEF Goods, Helds
<1>2. \A s \in Seq(Goods) : s \in Seq(Helds)
  BY <1>1, SeqMonotonic
<1> QED BY <1>1, <1>2

LEMMA AtGood ==
  ASSUME IInv, fate = "running", NEW t \in Targets
  PROVE  At(t) \in Goods /\ At(t) \in Helds /\ At(t) \in Boundaries
<1>1. list \in Seq(Goods) /\ mine \in Goods
  BY DEF IInv
<1>2. Len(list) \in Nat /\ \A i \in 1..Len(list) : list[i] \in Goods
  BY <1>1, LenProperties, ElementOfSeq
<1>3. At(t) \in Goods
  BY <1>1, <1>2 DEF At, Targets
<1> QED BY <1>3, GoodsHeld

LEMMA PutKeeps ==
  ASSUME IInv, NEW t \in Targets, NEW b, NEW f, Put(t, b), Call(f), Outcome(b, f)
  PROVE  IInv'
<1>1. /\ fate = "running" /\ fate' = f /\ calls' \in 0..MaxCalls /\ disk' = disk
      /\ list \in Seq(Goods) /\ list \in Seq(Helds) /\ mine \in Goods
  BY BoundaryAssumption DEF Call, Put, IInv
<1>2. b \in Helds /\ f \in Fates /\ (f = "running" => b \in Goods) /\ (f = "overrun" => b.retyped)
  BY DEF Outcome
<1>3. mine \in Helds
  BY <1>1, GoodsHeld
<1>4. CASE t = 0
  <2>1. mine' = b /\ list' = list
    BY <1>4 DEF Put
  <2> QED BY <1>1, <1>2, <2>1 DEF IInv
<1>5. CASE t # 0
  <2>1. mine' = mine /\ list' = [list EXCEPT ![t] = b] /\ t \in 1..Len(list)
    BY <1>5 DEF Put, Targets
  <2>2. list' \in Seq(Helds) /\ Len(list') = Len(list) /\ list'[t] = b
    BY <1>1, <1>2, <2>1, ExceptSeq
  <2>3. f = "running" => list' \in Seq(Goods)
    BY <1>1, <1>2, <2>1, ExceptSeq
  <2> QED BY <1>1, <1>2, <1>3, <2>1, <2>2, <2>3 DEF IInv
<1> QED BY <1>4, <1>5

LEMMA ConstructKeeps ==
  ASSUME IInv, NEW c \in Codes, NEW n \in Lengths, Construct(c, n)
  PROVE  IInv'
<1> DEFINE b == SetLength([Blank EXCEPT !.code = c], n)
<1>1. Blank \in Boundaries /\ Size(Blank) = 0 /\ n \in Nat
  BY BlankGood, GoodsHeld, BoundaryAssumption DEF Lengths
<1>2. /\ [Blank EXCEPT !.code = c] \in Boundaries
      /\ [Blank EXCEPT !.code = c].hash = NoHash
      /\ Size([Blank EXCEPT !.code = c]) = 0
  BY <1>1 DEF Boundaries, Blank, Size
<1>3. [Blank EXCEPT !.code = c] \in Helds
  <2>1. Sized([Blank EXCEPT !.code = c])
    BY <1>2, Fields DEF Sized, Copied
  <2> QED BY <1>2, <2>1 DEF Helds, Fine
<1>4. b \in Goods
  BY <1>1, <1>2, <1>3, Unhashed, SetLengthGood
<1>5. 0 \in Targets /\ Put(0, b) /\ Call("running")
  <2>1. Len(list) \in Nat
    BY LenProperties DEF IInv
  <2> QED BY <2>1 DEF Construct, Targets
<1> HIDE DEF b
<1>6. Outcome(b, "running")
  BY <1>4, GoodsHeld DEF Outcome, Fates
<1> QED BY <1>5, <1>6, PutKeeps

LEMMA SetBoundaryCodeKeeps ==
  ASSUME IInv, NEW t \in Targets, NEW c \in Codes, SetBoundaryCode(t, c)
  PROVE  IInv'
<1> DEFINE b == Retyped(At(t), c)
<1>1. fate = "running" /\ Put(t, Rehashed(b)) /\ Call(Rehash(b))
  BY DEF SetBoundaryCode, Call
<1>2. Outcome(Rehashed(b), Rehash(b))
  BY <1>1, AtGood, RetypedHeld, RehashedOutcome
<1> QED BY <1>1, <1>2, PutKeeps

LEMMA SetBoundaryLengthKeeps ==
  ASSUME IInv, NEW t \in Targets, NEW n \in Lengths, SetBoundaryLength(t, n)
  PROVE  IInv'
<1>1. fate = "running" /\ Put(t, SetLength(At(t), n)) /\ Call("running") /\ n \in Nat
  BY BoundaryAssumption DEF SetBoundaryLength, Call, Lengths
<1>2. SetLength(At(t), n) \in Goods
  BY <1>1, AtGood, SetLengthGood
<1>3. Outcome(SetLength(At(t), n), "running")
  BY <1>2, GoodsHeld DEF Outcome, Fates
<1> QED BY <1>1, <1>3, PutKeeps

LEMMA SetBoundaryKeeps ==
  ASSUME IInv, NEW t \in Targets, NEW c \in Codes, NEW n \in Lengths, SetBoundary(t, c, n)
  PROVE  IInv'
<1>1. /\ fate = "running" /\ n \in Nat
      /\ Put(t, Shaped(At(t), c, n)) /\ Call(Rehash(Retyped(At(t), c)))
  BY BoundaryAssumption DEF SetBoundary, Call, Lengths
<1>2. Outcome(Shaped(At(t), c, n), Rehash(Retyped(At(t), c)))
  BY <1>1, AtGood, ShapedOutcome
<1> QED BY <1>1, <1>2, PutKeeps

LEMMA SetNode1Keeps ==
  ASSUME IInv, NEW t \in Targets, NEW i \in 1..Size(At(t)), NEW n \in Nodes, SetNode1(t, i, n)
  PROVE  IInv'
<1> DEFINE a == At(t)
           b == [a EXCEPT !.node1[i] = n]
<1>1. fate = "running" /\ Put(t, Rehashed(b)) /\ Call(Rehash(b))
  BY DEF SetNode1, Call
<1>2. a \in Boundaries /\ a \in Helds
  BY <1>1, AtGood
<1> HIDE DEF a
<1>3. i \in 1..Len(a.node1)
  BY DEF Size, a
<1>4. [a.node1 EXCEPT ![i] = n] \in Seq(Ends) /\ Len([a.node1 EXCEPT ![i] = n]) = Len(a.node1)
  <2>1. n \in Ends
    BY DEF Ends
  <2> QED BY <1>2, <1>3, <2>1, Fields, ExceptSeq
<1>5. /\ b \in Boundaries /\ b.code = a.code /\ b.retyped = a.retyped
      /\ Len(b.node1) = Len(a.node1) /\ b.weir = a.weir /\ b.back = a.back /\ b.pipe = a.pipe
  BY <1>2, <1>4 DEF Boundaries
<1> HIDE DEF b
<1>6. b \in Helds
  BY <1>2, <1>5, SameSizes DEF Helds, Fine
<1>7. Outcome(Rehashed(b), Rehash(b))
  BY <1>6, RehashedOutcome
<1> QED BY <1>1, <1>7, PutKeeps

(* A setter of a group: what it overran was given its code. *)
LEMMA SetEntryKeeps ==
  ASSUME IInv, NEW t \in Targets, NEW old, NEW i, NEW b, SetEntry(t, old, i, b),
         i \in 1..Len(old) => b \in Helds,
         i \in 1..Size(At(t)) /\ i \notin 1..Len(old) => ~Sized(At(t))
  PROVE  IInv'
<1>1. fate = "running" /\ i \in 1..Size(At(t))
  BY DEF SetEntry, Call
<1>2. CASE i \in 1..Len(old)
  <2>1. Put(t, Rehashed(b)) /\ Call(Rehash(b))
    BY <1>2 DEF SetEntry
  <2>2. Outcome(Rehashed(b), Rehash(b))
    BY <1>2, RehashedOutcome
  <2> QED BY <2>1, <2>2, PutKeeps
<1>3. CASE i \notin 1..Len(old)
  <2>1. Put(t, At(t)) /\ Call("overrun")
    BY <1>3 DEF SetEntry
  <2>2. At(t) \in Helds /\ ~Sized(At(t))
    BY <1>1, <1>3, AtGood
  <2>3. Outcome(At(t), "overrun")
    BY <2>2 DEF Outcome, Fates, Helds, Fine
  <2> QED BY <2>1, <2>3, PutKeeps
<1> QED BY <1>2, <1>3

LEMMA SetNode2Keeps ==
  ASSUME IInv, NEW t \in Targets, NEW i \in 1..Size(At(t)), NEW n \in Nodes, SetNode2(t, i, n)
  PROVE  IInv'
<1> DEFINE a == At(t)
           b == [a EXCEPT !.back[i] = n]
<1>1. fate = "running" /\ a.code \in Internal /\ SetEntry(t, a.back, i, b)
  BY DEF SetNode2, SetEntry, Call
<1>2. a \in Boundaries /\ a \in Helds
  BY <1>1, AtGood
<1> HIDE DEF a
<1>3. ASSUME i \in 1..Len(a.back) PROVE b \in Helds
  <2>1. [a.back EXCEPT ![i] = n] \in Seq(Ends) /\ Len([a.back EXCEPT ![i] = n]) = Len(a.back)
    <3>1. n \in Ends
      BY DEF Ends
    <3> QED BY <1>2, <1>3, <3>1, Fields, ExceptSeq
  <2>2. /\ b \in Boundaries /\ b.code = a.code /\ b.retyped = a.retyped
        /\ b.node1 = a.node1 /\ b.weir = a.weir /\ Len(b.back) = Len(a.back) /\ b.pipe = a.pipe
    BY <1>2, <2>1 DEF Boundaries
  <2> HIDE DEF b
  <2> QED BY <1>2, <2>2, SameSizes DEF Helds, Fine
<1>4. i \in 1..Size(a) /\ i \notin 1..Len(a.back) => ~Sized(a)
  BY <1>1, <1>2, Fields DEF Sized, Copied, Size
<1> HIDE DEF b
<1> QED BY <1>1, <1>3, <1>4, SetEntryKeeps DEF a

LEMMA SetWeirKeeps ==
  ASSUME IInv, NEW t \in Targets, NEW i \in 1..Size(At(t)), NEW v \in Values, SetWeir(t, i, v)
  PROVE  IInv'
<1> DEFINE a == At(t)
           b == [a EXCEPT !.weir[i] = v]
<1>1. fate = "running" /\ a.code \in Weir /\ SetEntry(t, a.weir, i, b)
  BY DEF SetWeir, SetEntry, Call
<1>2. a \in Boundaries /\ a \in Helds
  BY <1>1, AtGood
<1> HIDE DEF a
<1>3. ASSUME i \in 1..Len(a.weir) PROVE b \in Helds
  <2>1. [a.weir EXCEPT ![i] = v] \in Seq(Values) /\ Len([a.weir EXCEPT ![i] = v]) = Len(a.weir)
    BY <1>2, <1>3, Fields, ExceptSeq
  <2>2. /\ b \in Boundaries /\ b.code = a.code /\ b.retyped = a.retyped
        /\ b.node1 = a.node1 /\ Len(b.weir) = Len(a.weir) /\ b.back = a.back /\ b.pipe = a.pipe
    BY <1>2, <2>1 DEF Boundaries
  <2> HIDE DEF b
  <2> QED BY <1>2, <2>2, SameSizes DEF Helds, Fine
<1>4. i \in 1..Size(a) /\ i \notin 1..Len(a.weir) => ~Sized(a)
  BY <1>1, <1>2, Fields DEF Sized, Copied, Size
<1> HIDE DEF b
<1> QED BY <1>1, <1>3, <1>4, SetEntryKeeps DEF a

LEMMA SetPipeKeeps ==
  ASSUME IInv, NEW t \in Targets, NEW i \in 1..Size(At(t)), NEW v \in Values, SetPipe(t, i, v)
  PROVE  IInv'
<1> DEFINE a == At(t)
           b == [a EXCEPT !.pipe[i] = v]
<1>1. fate = "running" /\ a.code \in Piped /\ SetEntry(t, a.pipe, i, b)
  BY DEF SetPipe, SetEntry, Call
<1>2. a \in Boundaries /\ a \in Helds
  BY <1>1, AtGood
<1> HIDE DEF a
<1>3. ASSUME i \in 1..Len(a.pipe) PROVE b \in Helds
  <2>1. [a.pipe EXCEPT ![i] = v] \in Seq(Values) /\ Len([a.pipe EXCEPT ![i] = v]) = Len(a.pipe)
    BY <1>2, <1>3, Fields, ExceptSeq
  <2>2. /\ b \in Boundaries /\ b.code = a.code /\ b.retyped = a.retyped
        /\ b.node1 = a.node1 /\ b.weir = a.weir /\ b.back = a.back /\ Len(b.pipe) = Len(a.pipe)
    BY <1>2, <2>1 DEF Boundaries
  <2> HIDE DEF b
  <2> QED BY <1>2, <2>2, SameSizes DEF Helds, Fine
<1>4. i \in 1..Size(a) /\ i \notin 1..Len(a.pipe) => ~Sized(a)
  BY <1>1, <1>2, Fields DEF Sized, Copied, Size
<1> HIDE DEF b
<1> QED BY <1>1, <1>3, <1>4, SetEntryKeeps DEF a

LEMMA SetIgnoredKeeps ==
  ASSUME IInv, NEW t \in Targets, SetIgnored(t)
  PROVE  IInv'
<1>1. fate = "running" /\ Put(t, Rehashed(At(t))) /\ Call(Rehash(At(t)))
  BY DEF SetIgnored, Call
<1>2. Outcome(Rehashed(At(t)), Rehash(At(t)))
  BY <1>1, AtGood, RehashedOutcome
<1> QED BY <1>1, <1>2, PutKeeps

LEMMA HashKeeps ==
  ASSUME IInv, NEW t \in Targets, NEW force \in BOOLEAN, Hash(t, force)
  PROVE  IInv'
<1> DEFINE b == At(t)
           made == b.hash = NoHash \/ force
<1>1. /\ fate = "running"
      /\ Put(t, IF made THEN Hashed(b) ELSE b) /\ Call(IF made THEN Digest(b) ELSE "running")
  BY DEF Hash, Call
<1>2. b \in Goods /\ b \in Helds
  BY <1>1, AtGood
<1> HIDE DEF b
<1>3. CASE made
  <2>1. Put(t, Hashed(b)) /\ Call(Digest(b))
    BY <1>1, <1>3
  <2> QED BY <1>2, <2>1, HashedOutcome, PutKeeps
<1>4. CASE ~made
  <2>1. Put(t, b) /\ Call("running")
    BY <1>1, <1>4
  <2>2. Outcome(b, "running")
    BY <1>2 DEF Outcome, Fates
  <2> QED BY <2>1, <2>2, PutKeeps
<1> QED BY <1>3, <1>4

LEMMA AddNodeKeeps ==
  ASSUME IInv, NEW t \in Targets, NEW n \in Nodes, NEW m \in Nodes,
         NEW v \in Values, NEW p \in Values, AddNode(t, n, m, v, p)
  PROVE  IInv'
<1> DEFINE b == At(t)
           w == IF b.code \in Weir THEN Append(b.weir, v) ELSE b.weir
           k == IF b.code \in Internal THEN Append(b.back, m) ELSE b.back
           q == IF b.code \in Piped THEN Append(b.pipe, p) ELSE b.pipe
           d == [b EXCEPT !.node1 = Append(@, n), !.weir = w, !.back = k, !.pipe = q,
                          !.lagging = b.hash # NoHash]
<1>1. fate = "running"
  BY DEF AddNode, Call
<1>2. b \in Boundaries /\ b \in Helds
  BY <1>1, AtGood
<1>3. Put(t, d) /\ Call("running")
  <2>1. [b EXCEPT !.node1 = Append(@, n),
                  !.weir = IF b.code \in Weir THEN Append(@, v) ELSE @,
                  !.back = IF b.code \in Internal THEN Append(@, m) ELSE @,
                  !.pipe = IF b.code \in Piped THEN Append(@, p) ELSE @,
                  !.lagging = b.hash # NoHash] = d
    BY <1>2 DEF Boundaries
  <2> QED BY <2>1 DEF AddNode
<1> HIDE DEF b
<1>4. Append(b.node1, n) \in Seq(Ends) /\ Len(Append(b.node1, n)) = Len(b.node1) + 1
  <2>1. n \in Ends
    BY DEF Ends
  <2> QED BY <1>2, <2>1, Fields, AppendProperties
<1>5. w \in Seq(Values) /\ Len(w) = IF b.code \in Weir THEN Len(b.weir) + 1 ELSE Len(b.weir)
  BY <1>2, Fields, AppendProperties
<1>6. k \in Seq(Ends) /\ Len(k) = IF b.code \in Internal THEN Len(b.back) + 1 ELSE Len(b.back)
  <2>1. m \in Ends
    BY DEF Ends
  <2> QED BY <1>2, <2>1, Fields, AppendProperties
<1>7. q \in Seq(Values) /\ Len(q) = IF b.code \in Piped THEN Len(b.pipe) + 1 ELSE Len(b.pipe)
  BY <1>2, Fields, AppendProperties
<1> HIDE DEF w, k, q
<1>8. /\ d \in Boundaries /\ d.code = b.code /\ d.retyped = b.retyped
      /\ d.hash = b.hash /\ d.lagging = (b.hash # NoHash)
      /\ d.node1 = Append(b.node1, n) /\ d.weir = w /\ d.back = k /\ d.pipe = q
  BY <1>2, <1>4, <1>5, <1>6, <1>7 DEF Boundaries
<1> HIDE DEF d
<1>9. Sized(b) => Sized(d)
  BY <1>2, <1>4, <1>5, <1>6, <1>7, <1>8, Fields DEF Sized, Copied, Size
<1>10. d \in Helds
  BY <1>2, <1>8, <1>9 DEF Helds, Fine
<1>11. d \in Goods
  BY <1>8, <1>10, Unhashed
<1>12. Outcome(d, "running")
  BY <1>10, <1>11 DEF Outcome, Fates
<1> QED BY <1>3, <1>12, PutKeeps

-----------------------------------------------------------------------------
(* The calls on the vector. *)

LEMMA ListKeeps ==
  ASSUME IInv, NEW s, NEW f, List(s, f),
         s \in Seq(Helds), Len(s) <= MaxList, f \in Fates,
         f = "running" => s \in Seq(Goods),
         f = "overrun" => mine.retyped \/ \E i \in 1..Len(s) : s[i].retyped
  PROVE  IInv'
<1>1. /\ list' = s /\ mine' = mine /\ disk' = disk /\ fate' = f
      /\ calls' \in 0..MaxCalls /\ mine \in Goods
  BY BoundaryAssumption DEF List, Call, IInv
<1> QED BY <1>1 DEF IInv

(* What the calls find. *)
LEMMA Found ==
  ASSUME IInv, fate = "running"
  PROVE  /\ list \in Seq(Goods) /\ list \in Seq(Helds) /\ mine \in Goods /\ mine \in Helds
         /\ Len(list) \in Nat /\ Len(list) <= MaxList /\ MaxList \in Nat
         /\ \A i \in 1..Len(list) : list[i] \in Goods /\ list[i] \in Helds
<1>1. list \in Seq(Goods) /\ list \in Seq(Helds) /\ mine \in Goods /\ Len(list) <= MaxList
  BY DEF IInv
<1>2. Len(list) \in Nat /\ \A i \in 1..Len(list) : list[i] \in Goods
  BY <1>1, LenProperties, ElementOfSeq
<1> QED BY <1>1, <1>2, GoodsHeld, BoundaryAssumption

(* A front part of the vector. *)
LEMMA FrontGood ==
  ASSUME NEW s \in Seq(Goods), NEW n \in Nat, n <= Len(s)
  PROVE  /\ SubSeq(s, 1, n) \in Seq(Goods) /\ Len(SubSeq(s, 1, n)) = n
         /\ \A i \in 1..n : SubSeq(s, 1, n)[i] = s[i]
<1>1. Len(s) \in Nat /\ \A i \in 1..n : s[i] \in Goods
  BY LenProperties, ElementOfSeq
<1>2. /\ SubSeq(s, 1, n) \in Seq(Goods)
      /\ Len(SubSeq(s, 1, n)) = IF 1 <= n THEN n - 1 + 1 ELSE 0
      /\ \A i \in 1..n - 1 + 1 : SubSeq(s, 1, n)[i] = s[1 + i - 1]
  BY <1>1, SubSeqProperties
<1>3. \A i \in 1..n : SubSeq(s, 1, n)[i] = s[i]
  BY <1>2
<1> QED BY <1>2, <1>3

(* What grows moves, or stays. *)
LEMMA KeptGood ==
  ASSUME IInv, fate = "running", NEW moves \in BOOLEAN
  PROVE  LET kept == IF moves THEN Moved(list) ELSE list
             f == IF moves THEN MovedFate(list) ELSE "running"
         IN  /\ kept \in Seq(Goods) /\ Len(kept) = Len(list)
             /\ f \in {"running", "overrun"}
             /\ f = "overrun" => \E i \in 1..Len(list) : list[i].retyped
BY Found, MovedOutcome

LEMMA SetNumBoundariesKeeps ==
  ASSUME IInv, NEW n \in 0..MaxList, NEW moves \in BOOLEAN, SetNumBoundaries(n, moves)
  PROVE  IInv'
<1>1. fate = "running"
  BY DEF SetNumBoundaries, Grown, List, Call
<1>2. n \in Nat /\ n <= MaxList
  BY BoundaryAssumption
<1>3. CASE n <= Len(list)
  <2>1. List(SubSeq(list, 1, n), "running")
    BY <1>3 DEF SetNumBoundaries
  <2>2. SubSeq(list, 1, n) \in Seq(Goods) /\ Len(SubSeq(list, 1, n)) = n
    BY <1>1, <1>2, <1>3, Found, FrontGood
  <2>3. SubSeq(list, 1, n) \in Seq(Helds)
    BY <2>2, GoodsHeld
  <2> QED BY <1>2, <2>1, <2>2, <2>3, ListKeeps DEF Fates
<1>4. CASE ~(n <= Len(list))
  <2> DEFINE kept == IF moves THEN Moved(list) ELSE list
             f == IF moves THEN MovedFate(list) ELSE "running"
             s == Fit(kept, n, Blank)
  <2>1. Grown(s, f)
    BY <1>4 DEF SetNumBoundaries
  <2>2. /\ kept \in Seq(Goods) /\ f \in {"running", "overrun"}
        /\ f = "overrun" => \E i \in 1..Len(list) : list[i].retyped
    BY <1>1, KeptGood
  <2> HIDE DEF kept, f
  <2>3. s \in Seq(Goods) /\ Len(s) = n
    BY <1>2, <2>2, BlankGood, FitType
  <2> HIDE DEF s
  <2>4. s \in Seq(Helds)
    BY <2>3, GoodsHeld
  <2>5. CASE f = "running"
    <3>1. List(s, "running")
      BY <2>1, <2>5 DEF Grown
    <3> QED BY <1>2, <2>3, <2>4, <3>1, ListKeeps DEF Fates
  <2>6. CASE f = "overrun"
    <3>1. List(list, "overrun")
      BY <2>1, <2>6 DEF Grown
    <3> QED BY <1>1, <2>2, <2>6, <3>1, Found, ListKeeps DEF Fates
  <2> QED BY <2>2, <2>5, <2>6
<1> QED BY <1>3, <1>4

LEMMA AddBoundaryKeeps ==
  ASSUME IInv, NEW i \in 1..MaxList, NEW moves \in BOOLEAN, AddBoundary(i, moves)
  PROVE  IInv'
<1>1. fate = "running"
  BY DEF AddBoundary, Grown, List, Call
<1>2. CASE i <= Len(list)
  <2> DEFINE c == CopyTo(list[i], mine)
             s == [list EXCEPT ![i] = c]
             f == CopyFate(list[i], mine)
  <2>1. List(s, f)
    <3>1. [list EXCEPT ![i] = CopyTo(@, mine)] = s
      OBVIOUS
    <3> QED BY <1>2, <3>1 DEF AddBoundary
  <2>2. i \in 1..Len(list)
    BY <1>1, <1>2, Found
  <2>3. c \in Goods /\ f \in {"running", "overrun"} /\ (f = "overrun" => c.retyped \/ mine.retyped)
    BY <1>1, <2>2, Found, CopyOutcome
  <2> HIDE DEF c, f
  <2>4. s \in Seq(Goods) /\ Len(s) = Len(list) /\ s[i] = c
    BY <1>1, <2>2, <2>3, Found, ExceptSeq
  <2> HIDE DEF s
  <2>5. s \in Seq(Helds)
    BY <2>4, GoodsHeld
  <2> QED BY <1>1, <2>1, <2>2, <2>3, <2>4, <2>5, Found, ListKeeps DEF Fates
<1>3. CASE ~(i <= Len(list))
  <2> DEFINE kept == IF moves THEN Moved(list) ELSE list
             f == IF moves THEN MovedFate(list) ELSE "running"
             g == CopyFate(Blank, mine)
             s == Append(kept, CopyTo(Blank, mine))
  <2>1. Grown(s, Worst(<<g, f>>)) /\ i = Len(list) + 1 /\ i <= MaxList
    BY <1>3 DEF AddBoundary
  <2>2. /\ kept \in Seq(Goods) /\ Len(kept) = Len(list) /\ f \in {"running", "overrun"}
        /\ f = "overrun" => \E k \in 1..Len(list) : list[k].retyped
    BY <1>1, KeptGood
  <2>3. /\ CopyTo(Blank, mine) \in Goods /\ g \in {"running", "overrun"}
        /\ g = "overrun" => mine.retyped
    BY <1>1, Found, BlankCopied
  <2> HIDE DEF kept, f, g
  <2>4. s \in Seq(Goods) /\ Len(s) = Len(list) + 1
    BY <2>2, <2>3, AppendProperties
  <2> HIDE DEF s
  <2>5. s \in Seq(Helds)
    BY <2>4, GoodsHeld
  <2>6. /\ Worst(<<g, f>>) \in {"running", "overrun"}
        /\ Worst(<<g, f>>) = "overrun" => g = "overrun" \/ f = "overrun"
    BY <2>2, <2>3 DEF Worst
  <2>7. CASE Worst(<<g, f>>) = "running"
    <3>1. List(s, "running")
      BY <2>1, <2>7 DEF Grown
    <3> QED BY <2>1, <2>4, <2>5, <3>1, ListKeeps DEF Fates
  <2>8. CASE Worst(<<g, f>>) = "overrun"
    <3>1. List(list, "overrun")
      BY <2>1, <2>8 DEF Grown
    <3>2. mine.retyped \/ \E k \in 1..Len(list) : list[k].retyped
      BY <2>2, <2>3, <2>6, <2>8
    <3> QED BY <1>1, <3>1, <3>2, Found, ListKeeps DEF Fates
  <2> QED BY <2>6, <2>7, <2>8
<1> QED BY <1>2, <1>3

(* Each boundary past the deleted one is copied to its predecessor. *)
LEMMA DeleteBoundaryKeeps ==
  ASSUME IInv, NEW i \in 1..MaxList, DeleteBoundary(i)
  PROVE  IInv'
<1> DEFINE n == Len(list) - 1
           failed == {k \in i..n : CopyFate(list[k], list[k + 1]) # "running"}
           Until(last) == [k \in 1..Len(list) |-> IF k \in i..last THEN CopyTo(list[k], list[k + 1]) ELSE list[k]]
<1>1. /\ fate = "running" /\ i \in 1..Len(list)
      /\ IF failed = {} THEN List(SubSeq(Until(n), 1, n), "running") ELSE List(Until(First(failed)), "overrun")
  BY DEF DeleteBoundary, List, Call
<1>2. /\ Len(list) \in Nat /\ Len(list) <= MaxList /\ MaxList \in Nat /\ n \in Nat /\ n <= Len(list)
      /\ \A k \in 1..Len(list) : list[k] \in Goods /\ list[k] \in Helds
  BY <1>1, Found
<1>3. \A k \in i..n : /\ CopyTo(list[k], list[k + 1]) \in Goods
                      /\ CopyFate(list[k], list[k + 1]) \in {"running", "overrun"}
                      /\ CopyFate(list[k], list[k + 1]) = "overrun" =>
                           CopyTo(list[k], list[k + 1]).retyped \/ list[k + 1].retyped
  <2> SUFFICES ASSUME NEW k \in i..n
               PROVE  /\ CopyTo(list[k], list[k + 1]) \in Goods
                      /\ CopyFate(list[k], list[k + 1]) \in {"running", "overrun"}
                      /\ CopyFate(list[k], list[k + 1]) = "overrun" =>
                           CopyTo(list[k], list[k + 1]).retyped \/ list[k + 1].retyped
    OBVIOUS
  <2>1. list[k] \in Helds /\ list[k + 1] \in Helds
    BY <1>1, <1>2
  <2> QED BY <2>1, CopyOutcome
<1>4. ASSUME NEW last \in Nat, last <= n
      PROVE  Until(last) \in Seq(Goods) /\ Len(Until(last)) = Len(list)
  <2>1. \A k \in 1..Len(list) : (IF k \in i..last THEN CopyTo(list[k], list[k + 1]) ELSE list[k]) \in Goods
    BY <1>1, <1>2, <1>3, <1>4
  <2>2. Until(last) \in Seq(Goods) /\ DOMAIN Until(last) = 1..Len(list)
    BY <1>2, <2>1, IsASeq
  <2> HIDE DEF Until
  <2> QED BY <1>2, <2>2, LenProperties
<1>5. CASE failed = {}
  <2>1. List(SubSeq(Until(n), 1, n), "running")
    BY <1>1, <1>5
  <2>2. Until(n) \in Seq(Goods) /\ Len(Until(n)) = Len(list)
    BY <1>2, <1>4
  <2> HIDE DEF Until
  <2>3. SubSeq(Until(n), 1, n) \in Seq(Goods) /\ Len(SubSeq(Until(n), 1, n)) = n
    BY <1>2, <2>2, FrontGood
  <2>4. SubSeq(Until(n), 1, n) \in Seq(Helds) /\ n <= MaxList
    BY <1>2, <2>3, GoodsHeld
  <2> DEFINE s == SubSeq(Until(n), 1, n)
  <2> HIDE DEF n, failed
  <2>5. s \in Seq(Goods) /\ s \in Seq(Helds) /\ Len(s) <= MaxList /\ List(s, "running")
    BY <2>1, <2>3, <2>4
  <2> HIDE DEF s
  <2> QED BY <2>5, ListKeeps DEF Fates
<1>6. CASE failed # {}
  <2> DEFINE last == First(failed)
  <2>1. List(Until(last), "overrun")
    BY <1>1, <1>6
  <2>2. failed \in SUBSET Nat
    BY <1>1, <1>2
  <2>3. last \in failed
    <3> HIDE DEF failed
    <3> QED BY <1>6, <2>2, FirstPosition
  <2> HIDE DEF last
  <2>4. last \in Nat /\ last \in i..n /\ CopyFate(list[last], list[last + 1]) = "overrun"
    BY <1>1, <1>2, <1>3, <2>3
  <2>5. /\ last \in 1..Len(list) /\ last + 1 \in 1..Len(list)
        /\ Until(last)[last] = CopyTo(list[last], list[last + 1])
        /\ Until(last)[last + 1] = list[last + 1]
    BY <1>1, <1>2, <2>4
  <2>6. Until(last) \in Seq(Goods) /\ Len(Until(last)) = Len(list)
    BY <1>2, <1>4, <2>4
  <2> HIDE DEF Until
  <2>7. \E k \in 1..Len(Until(last)) : Until(last)[k].retyped
    BY <1>3, <2>4, <2>5, <2>6
  <2>8. Until(last) \in Seq(Helds)
    BY <2>6, GoodsHeld
  <2> QED BY <1>2, <2>1, <2>6, <2>7, <2>8, ListKeeps DEF Fates
<1> QED BY <1>5, <1>6

LEMMA RoomGood ==
  ASSUME IInv, fate = "running", NEW moves \in BOOLEAN, NEW n \in Nat
  PROVE  Room(moves, n) \in Seq(Goods) /\ Len(Room(moves, n)) = n
<1>1. CASE n <= Len(list)
  BY <1>1, Found, FrontGood DEF Room
<1>2. CASE ~(n <= Len(list))
  <2> DEFINE kept == IF moves THEN Moved(list) ELSE list
  <2>1. kept \in Seq(Goods)
    BY KeptGood
  <2>2. Room(moves, n) = Fit(kept, n, Blank)
    BY <1>2 DEF Room
  <2> HIDE DEF kept
  <2> QED BY <2>1, <2>2, BlankGood, FitType
<1> QED BY <1>1, <1>2

(* Lines read in full are what the boundaries say; the line that stops the  *)
(* reader leaves its boundary with the code and length it asked for.        *)
LEMMA ReadStep ==
  ASSUME IInv, NEW moves \in BOOLEAN, NEW good \in Nat, Read(moves, good)
  PROVE  /\ IInv'
         /\ good = Len(disk) + 1 /\ fate' = "running" =>
              [i \in DOMAIN list' |-> Text(list'[i])] = disk
<1> DEFINE n == Len(disk)
           room == Room(moves, n)
           Shape(i) == Shaped(room[i], disk[i].code, Len(disk[i].node1))
           Fate(i) == IF i < good THEN FillFate(room[i], disk[i])
                      ELSE Rehash(Retyped(room[i], disk[i].code))
           failed == {i \in 1..Least(good, n) : Fate(i) # "running"}
           stop == IF failed = {} THEN good ELSE First(failed)
           Entry(i) == IF i < stop THEN Filled(room[i], disk[i])
                       ELSE IF i = stop THEN Shape(i) ELSE room[i]
           s == [i \in 1..n |-> Entry(i)]
<1>1. /\ fate = "running" /\ good \in 1..n + 1
      /\ IF moves /\ MovedFate(list) # "running" THEN List(list, "overrun")
         ELSE List(s, IF failed = {} THEN "running" ELSE Fate(stop))
  BY DEF Read, List, Call
<1>2. /\ disk \in Seq(Lines) /\ n \in Nat /\ n <= MaxList /\ DOMAIN disk = 1..n
      /\ \A i \in 1..n : disk[i] \in Lines
  BY LenProperties, ElementOfSeq DEF IInv
<1> HIDE DEF n
<1>3. room \in Seq(Goods) /\ Len(room) = n
  BY <1>1, <1>2, RoomGood
<1> HIDE DEF room
<1>4. \A i \in 1..n : room[i] \in Goods /\ room[i] \in Helds
  BY <1>3, ElementOfSeq, GoodsHeld
<1>5. ASSUME NEW i \in 1..n
      PROVE  /\ Shape(i) \in Helds /\ Fate(i) \in Fates
             /\ Fate(i) = "overrun" => Shape(i).retyped
             /\ i = good /\ Fate(i) = "running" => Shape(i) \in Goods
             /\ i < good /\ Fate(i) = "running" => /\ Filled(room[i], disk[i]) \in Goods
                                                   /\ Text(Filled(room[i], disk[i])) = disk[i]
  <2>1. /\ room[i] \in Helds /\ disk[i] \in Lines
        /\ disk[i].code \in Codes /\ Len(disk[i].node1) \in Nat
    BY <1>2, <1>4, LineFields
  <2>2. Outcome(Shape(i), Rehash(Retyped(room[i], disk[i].code)))
    BY <2>1, ShapedOutcome
  <2>3. /\ FillFate(room[i], disk[i]) \in Fates
        /\ FillFate(room[i], disk[i]) = "overrun" => Shape(i).retyped
    BY <2>1, FillFails
  <2>4. FillFate(room[i], disk[i]) = "running" =>
          /\ Filled(room[i], disk[i]) \in Goods
          /\ Text(Filled(room[i], disk[i])) = disk[i]
    BY <2>1, FilledGood
  <2> HIDE DEF Shape
  <2> QED BY <1>1, <1>2, <2>2, <2>3, <2>4 DEF Outcome
<1> HIDE DEF Shape, Fate
<1>6. /\ failed \in SUBSET Nat /\ failed \subseteq 1..n
      /\ \A i \in failed : i <= good /\ Fate(i) # "running"
      /\ \A i \in 1..n : i <= good /\ i \notin failed => Fate(i) = "running"
  BY <1>1, <1>2 DEF Least
<1>7. CASE moves /\ MovedFate(list) # "running"
  <2>1. List(list, "overrun")
    BY <1>1, <1>7
  <2>2. \E i \in 1..Len(list) : list[i].retyped
    BY <1>1, <1>7, Found, MovedOutcome
  <2>3. fate' = "overrun"
    BY <2>1 DEF List, Call
  <2> QED BY <1>1, <2>1, <2>2, <2>3, Found, ListKeeps DEF Fates
<1>8. CASE ~(moves /\ MovedFate(list) # "running") /\ failed = {}
  <2>1. List(s, "running") /\ stop = good
    BY <1>1, <1>8
  <2>2. \A i \in 1..n : Entry(i) \in Goods
    <3> HIDE DEF failed, stop
    <3> QED BY <1>1, <1>2, <1>4, <1>5, <1>6, <1>8, <2>1
  <2>3. s \in Seq(Goods) /\ DOMAIN s = 1..n
    <3> HIDE DEF Entry
    <3> QED BY <1>2, <2>2, IsASeq
  <2>4. good = n + 1 => \A i \in 1..n : Text(s[i]) = disk[i]
    <3> HIDE DEF failed, stop
    <3> QED BY <1>1, <1>2, <1>5, <1>6, <1>8, <2>1
  <2> HIDE DEF s
  <2>5. Len(s) = n /\ s \in Seq(Helds)
    BY <1>2, <2>3, LenProperties, GoodsHeld
  <2>6. list' = s
    BY <2>1 DEF List
  <2>7. IInv'
    BY <1>2, <2>1, <2>3, <2>5, ListKeeps DEF Fates
  <2>8. good = n + 1 => [i \in DOMAIN list' |-> Text(list'[i])] = disk
    BY <1>2, <2>3, <2>4, <2>6, LenProperties
  <2> QED BY <2>7, <2>8 DEF n
<1>9. CASE ~(moves /\ MovedFate(list) # "running") /\ failed # {}
  <2>1. List(s, Fate(stop)) /\ stop = First(failed)
    BY <1>1, <1>9
  <2>2. stop \in failed /\ \A i \in failed : stop <= i
    <3> HIDE DEF failed
    <3> QED BY <1>6, <1>9, <2>1, FirstPosition
  <2> HIDE DEF failed, stop
  <2>3. stop \in 1..n /\ stop <= good /\ Fate(stop) # "running"
    BY <1>6, <2>2
  <2>4. \A i \in 1..n : Entry(i) \in Helds
    BY <1>1, <1>2, <1>4, <1>5, <1>6, <2>2, <2>3, GoodsHeld
  <2>5. s \in Seq(Helds) /\ DOMAIN s = 1..n
    <3> HIDE DEF Entry
    <3> QED BY <1>2, <2>4, IsASeq
  <2>6. s[stop] = Shape(stop)
    BY <1>2, <2>3
  <2> HIDE DEF s
  <2>7. Len(s) = n
    BY <1>2, <2>5, LenProperties
  <2>8. Fate(stop) \in Fates /\ (Fate(stop) = "overrun" => s[stop].retyped)
    BY <1>5, <2>3, <2>6
  <2>9. Fate(stop) = "overrun" => \E i \in 1..Len(s) : s[i].retyped
    BY <2>3, <2>7, <2>8
  <2>10. fate' # "running"
    BY <2>1, <2>3 DEF List, Call
  <2> DEFINE f == Fate(stop)
  <2> HIDE DEF f
  <2>11. /\ List(s, f) /\ f \in Fates /\ f # "running"
         /\ f = "overrun" => \E i \in 1..Len(s) : s[i].retyped
    BY <2>1, <2>3, <2>8, <2>9 DEF f
  <2>12. IInv'
    BY <1>2, <2>5, <2>7, <2>11, ListKeeps
  <2> QED BY <2>10, <2>12
<1> QED BY <1>7, <1>8, <1>9

(* Up to a cut heading the lines are read, behind it the boundaries stay.   *)
LEMMA CutHeadingKeeps ==
  ASSUME IInv, NEW moves \in BOOLEAN, NEW good \in Nat, ReadCutHeading(moves, good)
  PROVE  IInv'
<1> DEFINE n == Len(disk)
           room == Room(moves, n)
           Entry(i) == IF i < good THEN Filled(room[i], disk[i]) ELSE room[i]
           s == [i \in 1..n |-> Entry(i)]
<1>1. /\ fate = "running"
      /\ \A i \in 1..n : i < good => FillFate(room[i], disk[i]) = "running"
  BY DEF ReadCutHeading, List, Call
<1>2. List(s, "running") \/ List(s, "cut heading")
  BY DEF ReadCutHeading
<1>3. /\ disk \in Seq(Lines) /\ n \in Nat /\ n <= MaxList
      /\ \A i \in 1..n : disk[i] \in Lines
  BY LenProperties, ElementOfSeq DEF IInv
<1> HIDE DEF n
<1>4. room \in Seq(Goods) /\ Len(room) = n
  BY <1>1, <1>3, RoomGood
<1> HIDE DEF room
<1>5. \A i \in 1..n : room[i] \in Goods /\ room[i] \in Helds
  BY <1>4, ElementOfSeq, GoodsHeld
<1>6. \A i \in 1..n : Entry(i) \in Goods
  <2>1. \A i \in 1..n : i < good => Filled(room[i], disk[i]) \in Goods
    BY <1>1, <1>3, <1>5, FilledGood
  <2> QED BY <1>5, <2>1
<1>7. n \in Nat
  BY <1>3
<1>8. s \in Seq(Goods) /\ DOMAIN s = 1..n
  <2> HIDE DEF Entry
  <2> QED BY <1>6, <1>7, IsASeq
<1> HIDE DEF s
<1>9. Len(s) = n /\ s \in Seq(Helds)
  BY <1>7, <1>8, LenProperties, GoodsHeld
<1> QED BY <1>2, <1>3, <1>8, <1>9, ListKeeps DEF Fates

(* What is written is what a file may hold. *)
LEMMA TextComplete ==
  ASSUME NEW b \in Boundaries, Walk(b) = "running"
  PROVE  Text(b) \in Lines
<1> DEFINE n == Size(b)
<1>1. Sized(b) /\ Whole(b)
  BY DEF Walk
<1>2. Text(b) \in Texts
  BY <1>1, TextType
<1>3. n \in Nat /\ Fresh \in Values
  BY Fields, BoundaryAssumption DEF Size
<1> HIDE DEF n
<1>4. Ends \ {NoNode} \subseteq Nodes
  BY DEF Ends
<1>5. b.node1 \in Seq(Nodes)
  <2>1. \A i \in 1..n : b.node1[i] \in Nodes
    BY <1>1, <1>3, <1>4, Fields, ElementOfSeq DEF Whole, n, Size
  <2>2. [i \in 1..n |-> b.node1[i]] \in Seq(Nodes)
    BY <1>3, <2>1, IsASeq
  <2>3. b.node1 = [i \in 1..n |-> b.node1[i]]
    BY <1>3, Fields, LenProperties DEF n, Size
  <2> QED BY <2>2, <2>3
<1>6. Part(b, Internal, b.back) \in Seq(Nodes)
  <2>1. CASE b.code \in Internal
    <3>1. n <= Len(b.back)
      BY <1>1, <2>1 DEF Sized, Copied, n
    <3>2. \A i \in 1..n : b.back[i] \in Nodes
      <4>1. \A i \in 1..n : b.back[i] \in Ends
        <5>1. Len(b.back) \in Nat
          BY <1>3, Fields, LenProperties
        <5> QED BY <1>3, <3>1, <5>1, Fields, ElementOfSeq
      <4> QED BY <1>1, <1>4, <2>1, <4>1 DEF Whole, n
    <3>3. /\ Fit(b.back, n, Fresh) \in Seq(Ends) /\ Len(Fit(b.back, n, Fresh)) = n
          /\ \A i \in 1..n : Fit(b.back, n, Fresh)[i] = IF i <= Len(b.back) THEN b.back[i] ELSE Fresh
      <4>1. Fit(b.back, n, Fresh) \in Seq(Ends) /\ Len(Fit(b.back, n, Fresh)) = n
        BY <1>3, <3>1, Fields, FitType
      <4> QED BY <1>3, <4>1 DEF Fit
    <3> DEFINE k == Fit(b.back, n, Fresh)
    <3>4. \A i \in 1..n : k[i] \in Nodes
      BY <1>3, <3>1, <3>2, <3>3, Fields, LenProperties
    <3>5. k \in Seq(Ends) /\ Len(k) = n
      BY <3>3
    <3> HIDE DEF k
    <3>6. [i \in 1..n |-> k[i]] \in Seq(Nodes) /\ k = [i \in 1..n |-> k[i]]
      BY <1>3, <3>4, <3>5, IsASeq, LenProperties
    <3>7. k \in Seq(Nodes)
      BY <3>6
    <3> QED BY <2>1, <3>7 DEF Part, k, n
  <2>2. CASE b.code \notin Internal
    BY <2>2, EmptySeq DEF Part
  <2> QED BY <2>1, <2>2
<1>7. Len(Part(b, Weir, b.weir)) = IF b.code \in Weir THEN n ELSE 0
  <2>1. Len(Fit(b.weir, n, Fresh)) = n
    BY <1>3, Fields, FitType
  <2> QED BY <2>1, EmptySeq DEF Part, n
<1>8. Len(Part(b, Internal, b.back)) = IF b.code \in Internal THEN n ELSE 0
  <2>1. b.code \in Internal => n <= Len(b.back)
    BY <1>1 DEF Sized, Copied, n
  <2>2. b.code \in Internal => Len(Fit(b.back, n, Fresh)) = n
    BY <1>3, <2>1, Fields, FitType
  <2> QED BY <2>2, EmptySeq DEF Part, n
<1>9. Len(Part(b, Piped, b.pipe)) = IF b.code \in Piped THEN n ELSE 0
  <2>1. Len(Fit(b.pipe, n, Fresh)) = n
    BY <1>3, Fields, FitType
  <2> QED BY <2>1, EmptySeq DEF Part, n
<1>10. Complete(Text(b))
  <2>1. /\ Text(b).code = b.code /\ Text(b).node1 = b.node1 /\ Text(b).weir = Part(b, Weir, b.weir)
        /\ Text(b).back = Part(b, Internal, b.back) /\ Text(b).pipe = Part(b, Piped, b.pipe)
    BY DEF Text
  <2> QED BY <1>2, <1>3, <1>5, <1>6, <1>7, <1>8, <1>9, <2>1 DEF Complete, n, Size
<1> QED BY <1>2, <1>10 DEF Lines

LEMMA WriteKeeps == ASSUME IInv, Write PROVE IInv'
<1>1. /\ fate = "running" /\ fate' = "running" /\ calls' \in 0..MaxCalls
      /\ list' = list /\ mine' = mine /\ disk' = [i \in 1..Len(list) |-> Text(list[i])]
      /\ \A i \in 1..Len(list) : Walk(list[i]) = "running"
  BY BoundaryAssumption DEF Write, Call, IInv
<1>2. /\ Len(list) \in Nat /\ Len(list) <= MaxList
      /\ \A i \in 1..Len(list) : list[i] \in Boundaries
  BY <1>1, Found, GoodsHeld
<1>3. \A i \in 1..Len(list) : Text(list[i]) \in Lines
  BY <1>1, <1>2, TextComplete
<1>4. disk' \in Seq(Lines) /\ DOMAIN disk' = 1..Len(list)
  BY <1>1, <1>2, <1>3, IsASeq
<1>5. Len(disk') = Len(list)
  BY <1>2, <1>4, LenProperties
<1> QED BY <1>1, <1>2, <1>4, <1>5 DEF IInv

LEMMA WriteFailsKeeps == ASSUME IInv, WriteFails PROVE IInv'
<1>1. PICK i \in 1..Len(list) : Call(Walk(list[i])) /\ Walk(list[i]) # "running"
  BY DEF WriteFails
<1>2. list' = list /\ mine' = mine /\ disk' = disk
  BY DEF WriteFails
<1>3. /\ fate = "running" /\ fate' = Walk(list[i]) /\ calls' \in 0..MaxCalls
  BY <1>1, BoundaryAssumption DEF Call, IInv
<1>4. list[i] \in Helds
  BY <1>3, Found
<1>5. Walk(list[i]) \in Fates /\ (Walk(list[i]) = "overrun" => list[i].retyped)
  BY <1>4 DEF Walk, Fates, Helds, Fine
<1> QED BY <1>1, <1>2, <1>3, <1>5 DEF IInv

-----------------------------------------------------------------------------
(* The theorems. *)

LEMMA InitHolds == Init => IInv
<1> SUFFICES ASSUME Init PROVE IInv
  OBVIOUS
<1>1. list = <<>> /\ mine = Blank /\ disk \in Files /\ fate = "running" /\ calls = 0
  BY DEF Init
<1>2. list \in Seq(Goods) /\ list \in Seq(Helds) /\ Len(list) = 0
  BY <1>1, EmptySeq
<1>3. mine \in Goods /\ mine \in Helds
  BY <1>1, BlankGood, GoodsHeld
<1>4. disk \in Seq(Texts) /\ Len(disk) <= MaxList /\ \A i \in DOMAIN disk : Complete(disk[i])
  BY <1>1, BoundaryAssumption
<1>5. disk \in Seq(Lines)
  <2>1. DOMAIN disk = 1..Len(disk) /\ Len(disk) \in Nat /\ \A i \in 1..Len(disk) : disk[i] \in Texts
    BY <1>4, LenProperties, ElementOfSeq
  <2>2. \A i \in 1..Len(disk) : disk[i] \in Lines
    BY <1>4, <2>1 DEF Lines
  <2>3. [i \in 1..Len(disk) |-> disk[i]] \in Seq(Lines)
    BY <2>1, <2>2, IsASeq
  <2>4. disk = [i \in 1..Len(disk) |-> disk[i]]
    BY <1>4, LenProperties
  <2> QED BY <2>3, <2>4
<1> QED BY <1>1, <1>2, <1>3, <1>4, <1>5, BoundaryAssumption DEF IInv, Fates

LEMMA NextKeeps == ASSUME IInv, Next PROVE IInv'
<1>1. ASSUME NEW c \in Codes, NEW n \in Lengths, Construct(c, n) PROVE IInv'
  BY <1>1, ConstructKeeps
<1>2. ASSUME NEW t \in Targets, NEW c \in Codes, SetBoundaryCode(t, c) PROVE IInv'
  BY <1>2, SetBoundaryCodeKeeps
<1>3. ASSUME NEW t \in Targets, NEW n \in Lengths, SetBoundaryLength(t, n) PROVE IInv'
  BY <1>3, SetBoundaryLengthKeeps
<1>4. ASSUME NEW t \in Targets, NEW c \in Codes, NEW n \in Lengths, SetBoundary(t, c, n) PROVE IInv'
  BY <1>4, SetBoundaryKeeps
<1>5. ASSUME NEW t \in Targets, NEW i \in 1..Size(At(t)), NEW n \in Nodes,
             SetNode1(t, i, n) \/ SetNode2(t, i, n)
      PROVE  IInv'
  BY <1>5, SetNode1Keeps, SetNode2Keeps
<1>6. ASSUME NEW t \in Targets, NEW i \in 1..Size(At(t)), NEW v \in Values,
             SetWeir(t, i, v) \/ SetPipe(t, i, v)
      PROVE  IInv'
  BY <1>6, SetWeirKeeps, SetPipeKeeps
<1>7. ASSUME NEW t \in Targets, SetIgnored(t) PROVE IInv'
  BY <1>7, SetIgnoredKeeps
<1>8. ASSUME NEW t \in Targets, NEW n \in Nodes, NEW m \in Nodes, NEW v \in Values, NEW p \in Values,
             AddNode(t, n, m, v, p)
      PROVE  IInv'
  BY <1>8, AddNodeKeeps
<1>9. ASSUME NEW t \in Targets, NEW force \in BOOLEAN, Hash(t, force) PROVE IInv'
  BY <1>9, HashKeeps
<1>10. ASSUME NEW moves \in BOOLEAN, NEW n \in 0..MaxList, SetNumBoundaries(n, moves) PROVE IInv'
  BY <1>10, SetNumBoundariesKeeps
<1>11. ASSUME NEW moves \in BOOLEAN, NEW i \in 1..MaxList, AddBoundary(i, moves) PROVE IInv'
  BY <1>11, AddBoundaryKeeps
<1>12. ASSUME NEW moves \in BOOLEAN, NEW good \in 1..MaxList + 1, Read(moves, good) PROVE IInv'
  <2>1. good \in Nat
    BY BoundaryAssumption
  <2> QED BY <1>12, <2>1, ReadStep
<1>13. ASSUME NEW moves \in BOOLEAN, NEW good \in 1..MaxList, ReadCutHeading(moves, good) PROVE IInv'
  <2>1. good \in Nat
    BY BoundaryAssumption
  <2> QED BY <1>13, <2>1, CutHeadingKeeps
<1>14. ASSUME NEW i \in 1..MaxList, DeleteBoundary(i) PROVE IInv'
  BY <1>14, DeleteBoundaryKeeps
<1>15. CASE Write
  BY <1>15, WriteKeeps
<1>16. CASE WriteFails
  BY <1>16, WriteFailsKeeps
<1> QED BY <1>1, <1>2, <1>3, <1>4, <1>5, <1>6, <1>7, <1>8, <1>9, <1>10, <1>11, <1>12, <1>13,
           <1>14, <1>15, <1>16 DEF Next

(* The inductive invariant holds throughout. *)
THEOREM InvariantAlways == Spec => []IInv
<1>1. Init => IInv
  BY InitHolds
<1>2. IInv /\ [Next]_vars => IInv'
  <2>1. IInv /\ UNCHANGED vars => IInv'
    BY DEF vars, IInv
  <2> QED BY <2>1, NextKeeps
<1> QED BY <1>1, <1>2, PTL DEF Spec

(* The calls keep the shape of the boundaries, of the vector and of the file. *)
THEOREM TypeAlways == Spec => []TypeOKBoundary
<1>1. IInv => TypeOKBoundary
  <2> SUFFICES ASSUME IInv PROVE TypeOKBoundary
    OBVIOUS
  <2>1. list \in Seq(Boundaries) /\ mine \in Boundaries
    BY GoodsHeld, SeqMonotonic DEF IInv
  <2>2. disk \in Seq(Texts)
    <3>1. Lines \subseteq Texts
      BY DEF Lines
    <3> QED BY <3>1, SeqMonotonic DEF IInv
  <2> QED BY <2>1, <2>2 DEF IInv, TypeOKBoundary, Fates
<1> QED BY <1>1, InvariantAlways, PTL

(* A boundary whose vectors are too short for its code was given that code  *)
(* at an unchanged length, and no vector is overrun without one.            *)
THEOREM SizedAlways == Spec => []SizedUnlessRetyped
<1>1. IInv => SizedUnlessRetyped
  <2> SUFFICES ASSUME IInv PROVE SizedUnlessRetyped
    OBVIOUS
  <2>1. /\ mine \in Helds /\ Len(list) \in Nat
        /\ \A i \in 1..Len(list) : list[i] \in Helds
    BY LenProperties, ElementOfSeq DEF IInv
  <2>2. \A t \in Targets : Sized(At(t)) \/ At(t).retyped
    BY <2>1 DEF Targets, At, Helds, Fine
  <2>3. ASSUME fate = "overrun" PROVE \E t \in Targets : At(t).retyped
    <3>1. CASE mine.retyped
      <4>1. 0 \in Targets /\ At(0) = mine
        BY <2>1 DEF Targets, At
      <4> QED BY <3>1, <4>1
    <3>2. CASE ~mine.retyped
      <4>1. PICK i \in 1..Len(list) : list[i].retyped
        BY <2>3, <3>2 DEF IInv
      <4>2. i \in Targets /\ At(i) = list[i]
        BY <2>1 DEF Targets, At
      <4> QED BY <4>1, <4>2
    <3> QED BY <3>1, <3>2
  <2> QED BY <2>2, <2>3 DEF SizedUnlessRetyped
<1> QED BY <1>1, InvariantAlways, PTL

(* A cached hash is the digest of what the boundary says now, unless nodes  *)
(* were added or the length was set since it was made.                      *)
THEOREM HashAlways == Spec => []HashCurrent
<1>1. IInv => HashCurrent
  <2> SUFFICES ASSUME IInv, fate = "running", NEW t \in Targets
               PROVE  Current(At(t))
    BY DEF HashCurrent, Current
  <2> QED BY AtGood DEF Goods
<1> QED BY <1>1, InvariantAlways, PTL

LEMMA KeptItself == ASSUME NEW b PROVE Kept(b, b)
BY DEF Kept, Sized

LEMMA DeleteKeeps ==
  ASSUME IInv, fate' = "running", NEW i \in 1..MaxList, DeleteBoundary(i), NEW k \in DOMAIN list'
  PROVE  Kept(list[IF k < i THEN k ELSE k + 1], list'[k])
<1> DEFINE n == Len(list) - 1
           failed == {j \in i..n : CopyFate(list[j], list[j + 1]) # "running"}
           Until(last) == [j \in 1..Len(list) |-> IF j \in i..last THEN CopyTo(list[j], list[j + 1]) ELSE list[j]]
<1>1. /\ fate = "running" /\ i \in 1..Len(list)
      /\ IF failed = {} THEN List(SubSeq(Until(n), 1, n), "running") ELSE List(Until(First(failed)), "overrun")
  BY DEF DeleteBoundary, List, Call
<1>2. failed = {} /\ list' = SubSeq(Until(n), 1, n)
  BY <1>1 DEF List, Call
<1>3. Len(list) \in Nat /\ n \in Nat /\ \A j \in 1..Len(list) : list[j] \in Helds
  BY <1>1, Found
<1>4. k \in 1..n /\ list'[k] = Until(n)[k]
  <2> DEFINE u == Until(n)
             S == {u[m] : m \in 1..n}
  <2>2. \A j \in 1..n : u[j] \in S
    OBVIOUS
  <2> HIDE DEF u, S
  <2>3. /\ SubSeq(u, 1, n) \in Seq(S)
        /\ Len(SubSeq(u, 1, n)) = IF 1 <= n THEN n - 1 + 1 ELSE 0
        /\ \A j \in 1..n - 1 + 1 : SubSeq(u, 1, n)[j] = u[1 + j - 1]
    BY <1>3, <2>2, SubSeqProperties
  <2>4. DOMAIN SubSeq(u, 1, n) = 1..n
    BY <1>3, <2>3, LenProperties
  <2>5. list' = SubSeq(u, 1, n)
    BY <1>2 DEF u
  <2>6. k \in 1..n /\ list'[k] = u[1 + k - 1]
    BY <1>3, <2>3, <2>4, <2>5
  <2>7. 1 + k - 1 = k
    BY <1>3, <2>6
  <2> QED BY <2>6, <2>7 DEF u
<1>5. CASE k < i
  <2>1. list'[k] = list[k]
    BY <1>1, <1>3, <1>4, <1>5
  <2> QED BY <1>5, <2>1, KeptItself
<1>6. CASE ~(k < i)
  <2>1. k \in i..n /\ k \in 1..Len(list) /\ k + 1 \in 1..Len(list)
    BY <1>1, <1>3, <1>4, <1>6
  <2>2. list'[k] = CopyTo(list[k], list[k + 1]) /\ CopyFate(list[k], list[k + 1]) = "running"
    BY <1>2, <1>4, <2>1
  <2>3. list[k] \in Helds /\ list[k + 1] \in Helds
    BY <1>3, <2>1
  <2> QED BY <1>6, <2>2, <2>3, CopyKeeps
<1> QED BY <1>5, <1>6

(* What moves keeps what it says. *)
LEMMA MovedKeeps ==
  ASSUME IInv, fate = "running", NEW moves \in BOOLEAN,
         (IF moves THEN MovedFate(list) ELSE "running") = "running",
         NEW k \in 1..Len(list)
  PROVE  Kept(list[k], (IF moves THEN Moved(list) ELSE list)[k])
<1>1. CASE ~moves
  BY <1>1, KeptItself
<1>2. CASE moves
  <2>1. list[k] \in Helds /\ Blank \in Helds
    BY Found, BlankGood, GoodsHeld
  <2>2. CopyFate(Blank, list[k]) = "running"
    BY <1>2 DEF MovedFate, Worst
  <2>3. Moved(list)[k] = CopyTo(Blank, list[k])
    BY DEF Moved
  <2> QED BY <1>2, <2>1, <2>2, <2>3, CopyKeeps
<1> QED BY <1>1, <1>2

LEMMA AddKeeps ==
  ASSUME IInv, fate' = "running", NEW i \in 1..MaxList, NEW moves \in BOOLEAN,
         AddBoundary(i, moves), NEW k \in DOMAIN list'
  PROVE  Kept(IF k = i THEN mine ELSE list[k], list'[k])
<1>1. fate = "running"
  BY DEF AddBoundary, Grown, List, Call
<1>2. CASE i <= Len(list)
  <2>1. list' = [list EXCEPT ![i] = CopyTo(@, mine)] /\ CopyFate(list[i], mine) = "running"
    BY <1>2 DEF AddBoundary, List, Call
  <2>2. i \in 1..Len(list) /\ DOMAIN list = 1..Len(list) /\ mine \in Helds /\ list[i] \in Helds
    BY <1>1, <1>2, Found, LenProperties
  <2>3. CASE k = i
    <3>1. list'[k] = CopyTo(list[i], mine)
      BY <2>1, <2>2, <2>3
    <3> QED BY <2>1, <2>2, <2>3, <3>1, CopyKeeps
  <2>4. CASE k # i
    <3>1. list'[k] = list[k]
      BY <2>1, <2>2, <2>4
    <3> QED BY <2>4, <3>1, KeptItself
  <2> QED BY <2>3, <2>4
<1>3. CASE ~(i <= Len(list))
  <2> DEFINE kept == IF moves THEN Moved(list) ELSE list
             f == IF moves THEN MovedFate(list) ELSE "running"
             g == CopyFate(Blank, mine)
  <2>1. Grown(Append(kept, CopyTo(Blank, mine)), Worst(<<g, f>>)) /\ i = Len(list) + 1
    BY <1>3 DEF AddBoundary
  <2>2. Worst(<<g, f>>) = "running" /\ list' = Append(kept, CopyTo(Blank, mine))
    BY <2>1 DEF Grown, List, Call
  <2>3. g = "running" /\ f = "running"
    <3> HIDE DEF f, g
    <3> QED BY <2>2 DEF Worst
  <2>4. kept \in Seq(Goods) /\ Len(kept) = Len(list) /\ CopyTo(Blank, mine) \in Goods /\ Len(list) \in Nat
    BY <1>1, KeptGood, Found, BlankCopied
  <2>5. \A j \in 1..Len(list) : Kept(list[j], kept[j])
    BY <1>1, <2>3, MovedKeeps
  <2>6. Kept(mine, CopyTo(Blank, mine))
    BY <1>1, <2>3, Found, BlankGood, GoodsHeld, CopyKeeps
  <2> HIDE DEF kept
  <2>7. /\ Append(kept, CopyTo(Blank, mine)) \in Seq(Goods)
        /\ Len(Append(kept, CopyTo(Blank, mine))) = Len(list) + 1
        /\ \A j \in 1..Len(list) : Append(kept, CopyTo(Blank, mine))[j] = kept[j]
        /\ Append(kept, CopyTo(Blank, mine))[Len(list) + 1] = CopyTo(Blank, mine)
    BY <2>4, AppendProperties
  <2>8. k \in 1..(Len(list) + 1)
    BY <2>2, <2>7, LenProperties
  <2>9. CASE k = i
    BY <2>1, <2>2, <2>6, <2>7, <2>9
  <2>10. CASE k # i
    <3>1. k \in 1..Len(list)
      BY <2>1, <2>4, <2>8, <2>10
    <3> QED BY <2>2, <2>5, <2>7, <2>10, <3>1
  <2> QED BY <2>9, <2>10
<1> QED BY <1>2, <1>3

LEMMA SizeKeeps ==
  ASSUME IInv, fate' = "running", NEW n \in 0..MaxList, NEW moves \in BOOLEAN,
         SetNumBoundaries(n, moves), NEW k \in DOMAIN list' \cap DOMAIN list
  PROVE  Kept(list[k], list'[k])
<1>1. fate = "running"
  BY DEF SetNumBoundaries, Grown, List, Call
<1>2. n \in Nat /\ DOMAIN list = 1..Len(list) /\ Len(list) \in Nat
  BY <1>1, Found, LenProperties, BoundaryAssumption
<1>3. CASE n <= Len(list)
  <2>1. list' = SubSeq(list, 1, n)
    BY <1>3 DEF SetNumBoundaries, List
  <2>2. /\ SubSeq(list, 1, n) \in Seq(Goods) /\ Len(SubSeq(list, 1, n)) = n
        /\ \A i \in 1..n : SubSeq(list, 1, n)[i] = list[i]
    BY <1>1, <1>2, <1>3, Found, FrontGood
  <2>3. DOMAIN list' = 1..n
    BY <2>1, <2>2, LenProperties
  <2>4. list'[k] = list[k]
    BY <2>1, <2>2, <2>3
  <2> QED BY <2>4, KeptItself
<1>4. CASE ~(n <= Len(list))
  <2> DEFINE kept == IF moves THEN Moved(list) ELSE list
             f == IF moves THEN MovedFate(list) ELSE "running"
  <2>1. Grown(Fit(kept, n, Blank), f)
    BY <1>4 DEF SetNumBoundaries
  <2>2. f = "running" /\ list' = Fit(kept, n, Blank)
    BY <2>1 DEF Grown, List, Call
  <2>3. Kept(list[k], kept[k])
    BY <1>1, <1>2, <2>2, MovedKeeps
  <2>4. Len(kept) = Len(list)
    BY <1>1, KeptGood
  <2> HIDE DEF kept
  <2>5. list'[k] = kept[k]
    BY <1>2, <1>4, <2>2, <2>4 DEF Fit
  <2> QED BY <2>3, <2>5
<1> QED BY <1>3, <1>4

(* Inserting, deleting and growing leave every other boundary saying what   *)
(* it said.                                                                 *)
THEOREM EditsAlways == Spec => EditsKeep
<1> DEFINE Step ==
     fate' = "running" =>
       /\ \A i \in 1..MaxList : DeleteBoundary(i) =>
            \A k \in DOMAIN list' : Kept(list[IF k < i THEN k ELSE k + 1], list'[k])
       /\ \A i \in 1..MaxList, moves \in BOOLEAN : AddBoundary(i, moves) =>
            \A k \in DOMAIN list' : Kept(IF k = i THEN mine ELSE list[k], list'[k])
       /\ \A n \in 0..MaxList, moves \in BOOLEAN : SetNumBoundaries(n, moves) =>
            \A k \in DOMAIN list' \cap DOMAIN list : Kept(list[k], list'[k])
<1>1. IInv => Step
  BY DeleteKeeps, AddKeeps, SizeKeeps
<1>2. IInv => [Step]_vars
  BY <1>1
<1> HIDE DEF Step
<1>3. Spec => [][Step]_vars
  BY <1>2, InvariantAlways, PTL
<1> QED BY <1>3 DEF EditsKeep, Step

(* Read to its end, a file leaves the mesh saying what it said when it was  *)
(* written, whatever the mesh held before.                                  *)
THEOREM ReadAlways == Spec => ReadRestores
<1> DEFINE Step ==
     \A moves \in BOOLEAN : Read(moves, Len(disk) + 1) /\ fate' = "running" =>
       [i \in DOMAIN list' |-> Text(list'[i])] = disk
<1>1. IInv => Step
  <2> SUFFICES ASSUME IInv, NEW moves \in BOOLEAN, Read(moves, Len(disk) + 1), fate' = "running"
               PROVE  [i \in DOMAIN list' |-> Text(list'[i])] = disk
    OBVIOUS
  <2>1. Len(disk) + 1 \in Nat
    BY LenProperties DEF IInv
  <2> QED BY <2>1, ReadStep
<1>2. IInv => [Step]_vars
  BY <1>1
<1> HIDE DEF Step
<1>3. Spec => [][Step]_vars
  BY <1>2, InvariantAlways, PTL
<1> QED BY <1>3 DEF ReadRestores, Step
=============================================================================
