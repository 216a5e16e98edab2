--------------------------- MODULE ReadOutputProofs ---------------------------
(***************************************************************************)
(* What the reader of ReadOutput guarantees for every set of files, every  *)
(* bound and every order of calls.                                         *)
(*                                                                         *)
(* The store of records changes in five ways only (StoreSteps).  Each      *)
(* property of the store is shown to survive the five ways, whichever      *)
(* action took them.                                                       *)
(***************************************************************************)
EXTENDS ReadOutput, SequenceTheorems, WellFoundedInduction, TLAPS

(* A set of positions of a sequence has a largest element. *)
LEMMA LastPosition ==
  ASSUME NEW n \in Nat, NEW S \in SUBSET (1..n), S # {}
  PROVE  \E i \in S : \A j \in S : j <= i
<1> DEFINE R == OpToRel(<, Nat)
           T == {n - i : i \in S}
<1>1. T \subseteq Nat
  OBVIOUS
<1>2. T # {}
  <2>1. PICK i \in S : TRUE
    OBVIOUS
  <2>2. n - i \in T
    OBVIOUS
  <2> QED BY <2>2
<1>3. IsWellFoundedOn(R, Nat)
  BY NatLessThanWellFounded
<1> HIDE DEF R
<1>4. PICK x \in T : \A y \in T : <<y, x>> \notin R
  <2> HIDE DEF T
  <2> QED BY <1>1, <1>2, <1>3, WFMin
<1>5. PICK i \in S : x = n - i
  BY <1>4
<1>6. \A j \in S : j <= i
  <2> SUFFICES ASSUME NEW j \in S, i < j PROVE FALSE
    OBVIOUS
  <2>1. n - j \in T /\ n - j \in Nat /\ n - i \in Nat /\ n - j < n - i
    OBVIOUS
  <2>2. <<n - j, n - i>> \in R
    BY <2>1 DEF R, OpToRel
  <2> QED BY <1>4, <1>5, <2>1, <2>2
<1> QED BY <1>6

(* RebuiltMap sends each number that occurs to its last occurrence. *)
LEMMA RebuiltMapLatest ==
  ASSUME NEW recs \in Seq(OutputRecord)
  PROVE  /\ DOMAIN RebuiltMap(recs) = {recs[i].id : i \in DOMAIN recs}
         /\ \A k \in DOMAIN RebuiltMap(recs) :
              /\ RebuiltMap(recs)[k] \in DOMAIN recs
              /\ recs[RebuiltMap(recs)[k]].id = k
              /\ \A j \in DOMAIN recs : recs[j].id = k => j <= RebuiltMap(recs)[k]
<1> DEFINE Latest(k, i) == /\ recs[i].id = k
                         /\ \A j \in DOMAIN recs : recs[j].id = k => j <= i
<1>1. DOMAIN recs = 1..Len(recs) /\ Len(recs) \in Nat
  BY LenProperties
<1>2. \A k \in {recs[i].id : i \in DOMAIN recs} : \E i \in DOMAIN recs : Latest(k, i)
  <2> SUFFICES ASSUME NEW k \in {recs[i].id : i \in DOMAIN recs}
               PROVE  \E i \in DOMAIN recs : Latest(k, i)
    OBVIOUS
  <2> DEFINE S == {i \in DOMAIN recs : recs[i].id = k}
  <2>1. S \in SUBSET (1..Len(recs)) /\ S # {}
    BY <1>1
  <2>2. PICK i \in S : \A j \in S : j <= i
    BY <1>1, <2>1, LastPosition
  <2> QED BY <2>2
<1>3. RebuiltMap(recs) = [k \in {recs[i].id : i \in DOMAIN recs} |->
                            CHOOSE i \in DOMAIN recs : Latest(k, i)]
  BY DEF RebuiltMap
<1>4. \A k \in {recs[i].id : i \in DOMAIN recs} :
        /\ RebuiltMap(recs)[k] \in DOMAIN recs
        /\ Latest(k, RebuiltMap(recs)[k])
  <2> HIDE DEF Latest
  <2> QED BY <1>2, <1>3
<1> QED BY <1>3, <1>4

(* Dropping one element keeps the type of a sequence. *)
LEMMA RemoveAtType ==
  ASSUME NEW S, NEW s \in Seq(S), NEW p \in DOMAIN s
  PROVE  /\ RemoveAt(s, p) \in Seq(S)
         /\ Len(RemoveAt(s, p)) = Len(s) - 1
<1>1. DOMAIN s = 1..Len(s) /\ Len(s) \in Nat /\ \A i \in 1..Len(s) : s[i] \in S
  BY LenProperties, ElementOfSeq
<1>2. p \in Int /\ p - 1 \in Int /\ p + 1 \in Int /\ Len(s) \in Int /\ 1 \in Int
  BY <1>1
<1>3. SubSeq(s, 1, p - 1) \in Seq(S) /\ Len(SubSeq(s, 1, p - 1)) = p - 1
  <2>1. \A i \in 1..(p - 1) : s[i] \in S
    BY <1>1
  <2>2. /\ SubSeq(s, 1, p - 1) \in Seq(S)
        /\ Len(SubSeq(s, 1, p - 1)) = IF 1 <= p - 1 THEN (p - 1) - 1 + 1 ELSE 0
    BY <1>2, <2>1, SubSeqProperties
  <2> QED BY <1>1, <2>2
<1>4. SubSeq(s, p + 1, Len(s)) \in Seq(S) /\ Len(SubSeq(s, p + 1, Len(s))) = Len(s) - p
  <2>1. \A i \in (p + 1)..Len(s) : s[i] \in S
    BY <1>1
  <2>2. /\ SubSeq(s, p + 1, Len(s)) \in Seq(S)
        /\ Len(SubSeq(s, p + 1, Len(s))) =
             IF p + 1 <= Len(s) THEN Len(s) - (p + 1) + 1 ELSE 0
    BY <1>2, <2>1, SubSeqProperties
  <2> QED BY <1>1, <2>2
<1>5. /\ SubSeq(s, 1, p - 1) \o SubSeq(s, p + 1, Len(s)) \in Seq(S)
      /\ Len(SubSeq(s, 1, p - 1) \o SubSeq(s, p + 1, Len(s))) = (p - 1) + (Len(s) - p)
  BY <1>3, <1>4, ConcatProperties
<1>6. RemoveAt(s, p) = SubSeq(s, 1, p - 1) \o SubSeq(s, p + 1, Len(s))
  BY DEF RemoveAt
<1>7. (p - 1) + (Len(s) - p) = Len(s) - 1
  BY <1>1
<1> QED BY <1>5, <1>6, <1>7

-----------------------------------------------------------------------------
(* The bounds of Next serve the model checker; nothing below needs those on  *)
(* the snaps requested and the positions cleared.                            *)
AnyRequest == Nat \cup {NextSnap}
Call ==
  \/ OpenCall
  \/ CloseCall
  \/ \E s \in AnyRequest : ReadCall(s)
  \/ \E f \in Files : SetFilename(f)
  \/ \E k \in UserIds : AddRecord(k)
  \/ Clear
  \/ \E p \in Nat : ClearAt(p)
  \/ \E k \in Cursors : SetCurrentSnap(k)

LEMMA NextIsCall == [Next]_vars => [Call]_vars
<1>1. Requests \subseteq AnyRequest /\ 1..MaxRecords \subseteq Nat
  BY ReaderAssumption DEF Requests, AnyRequest
<1> QED BY <1>1 DEF Next, Call

-----------------------------------------------------------------------------
(* Type correctness. *)

(* The part of TypeOK that a read may disturb. *)
StoreTyped ==
  /\ records \in Seq(OutputRecord)
  /\ DOMAIN recordMap \subseteq Nat
  /\ \A k \in DOMAIN recordMap : recordMap[k] \in Nat

LEMMA FileTyped == TypeOK => D \in FileDesc
BY DEF TypeOK, D

LEMMA NewRecordTyped ==
  ASSUME TypeOK, NEW k \in Nat, NEW h \in Content, NEW w \in BOOLEAN
  PROVE  /\ NewRecord(k, h, w) \in OutputRecord
         /\ NewRecord(k, h, w).id = k
         /\ NewRecord(k, h, w).whole = w
         /\ NewRecord(k, h, w).holds = h
BY DEF TypeOK, NewRecord, OutputRecord

LEMMA NothingTyped ==
  ASSUME NEW f \in Files \cup {Nobody}
  PROVE  Nothing(f) \in Content
<1>1. <<>> \in Seq(Nat)
  BY EmptySeq
<1> QED BY <1>1 DEF Nothing, Content, Garbled

LEMMA RebuiltTyped ==
  ASSUME NEW recs \in Seq(OutputRecord)
  PROVE  /\ DOMAIN RebuiltMap(recs) \subseteq Nat
         /\ \A k \in DOMAIN RebuiltMap(recs) : RebuiltMap(recs)[k] \in Nat
<1>1. DOMAIN recs = 1..Len(recs) /\ Len(recs) \in Nat
      /\ \A i \in 1..Len(recs) : recs[i] \in OutputRecord
  BY LenProperties, ElementOfSeq
<1>2. \A i \in DOMAIN recs : recs[i].id \in Nat
  BY <1>1 DEF OutputRecord
<1>3. \A i \in DOMAIN recs : i \in Nat
  BY <1>1
<1>4. \A k \in DOMAIN RebuiltMap(recs) : RebuiltMap(recs)[k] \in DOMAIN recs
                                         /\ recs[RebuiltMap(recs)[k]].id = k
  BY RebuiltMapLatest
<1> QED BY <1>2, <1>3, <1>4

LEMMA AppendTyped ==
  ASSUME NEW S, NEW s \in Seq(S), NEW e \in S
  PROVE  /\ Append(s, e) \in Seq(S)
         /\ Len(s) \in Nat
         /\ DOMAIN s = 1..Len(s)
         /\ Len(Append(s, e)) = Len(s) + 1
         /\ DOMAIN Append(s, e) = 1..(Len(s) + 1)
         /\ \A i \in 1..Len(s) : Append(s, e)[i] = s[i]
         /\ Append(s, e)[Len(s) + 1] = e
<1>1. Append(s, e) \in Seq(S) /\ Len(s) \in Nat /\ DOMAIN s = 1..Len(s)
      /\ Len(Append(s, e)) = Len(s) + 1
      /\ \A i \in 1..Len(s) : Append(s, e)[i] = s[i]
      /\ Append(s, e)[Len(s) + 1] = e
  BY AppendProperties, LenProperties
<1>2. DOMAIN Append(s, e) = 1..Len(Append(s, e))
  BY <1>1, LenProperties
<1> QED BY <1>1, <1>2

LEMMA KeepTyped ==
  ASSUME TypeOK, NEW k \in Nat, NEW h \in Content, Keep(k, h)
  PROVE  /\ StoreTyped'
         /\ currentSnap' \in Nat
         /\ ret' \in {"none", "ok", "error", "crash"}
         /\ disturbed' \in BOOLEAN
<1>1. NewRecord(k, h, TRUE) \in OutputRecord
  BY NewRecordTyped
<1>2. records' \in Seq(OutputRecord) /\ Len(records) \in Nat
  BY <1>1, AppendTyped DEF Keep, TypeOK
<1>3. /\ DOMAIN recordMap' \subseteq Nat
      /\ \A j \in DOMAIN recordMap' : recordMap'[j] \in Nat
  BY <1>2 DEF Keep, TypeOK
<1>4. currentSnap' \in Nat
  BY DEF Keep, TypeOK
<1> QED BY <1>2, <1>3, <1>4 DEF Keep, Return, TypeOK, StoreTyped

LEMMA OrphanTyped ==
  ASSUME TypeOK, NEW k \in Nat, UNCHANGED recordMap,
         records' = Append(records, NewRecord(k, Nothing(filename), FALSE))
  PROVE  StoreTyped'
<1>1. Nothing(filename) \in Content
  BY NothingTyped DEF TypeOK
<1>2. NewRecord(k, Nothing(filename), FALSE) \in OutputRecord
  BY <1>1, NewRecordTyped
<1>3. records' \in Seq(OutputRecord)
  BY <1>2, AppendTyped DEF TypeOK
<1> QED BY <1>3 DEF TypeOK, StoreTyped

LEMMA WantedTyped ==
  ASSUME TypeOK, NEW s \in AnyRequest
  PROVE  Wanted(s) \in Nat
BY DEF AnyRequest, Wanted, NextSnap, TypeOK

LEMMA AsciiReadKeeps ==
  ASSUME TypeOK, ReadAsciiRecord
  PROVE  handle' \in Nat /\ \E h \in Content : h.file = filename /\ Keep(currentSnap, h)
<1>1. D \in FileDesc
  BY FileTyped
<1>2. D.lines \in Seq(Line) /\ handle \in Nat /\ Top \in DOMAIN D.lines
      /\ D.lines[Top] \in Line
  <2>1. D.lines \in Seq(Line)
    BY <1>1 DEF FileDesc
  <2>2. handle \in Nat /\ Top \in 1..Len(D.lines)
    BY <2>1, LenProperties DEF ReadAsciiRecord, AtRecord, Top, TypeOK, Closed
  <2> QED BY <2>1, <2>2, LenProperties, ElementOfSeq
<1>3. PICK n \in Announced(D.lines[Top]) :
        /\ handle' = Consumed(Top + n)
        /\ Keep(currentSnap, [file |-> filename, snap |-> SnapRead(n), vars |-> <<>>])
  BY DEF ReadAsciiRecord
<1>4. n \in Nat
  BY <1>2, <1>3 DEF Announced, Line, TypeOK
<1>5. handle' \in Nat
  BY <1>2, <1>3, <1>4, LenProperties DEF Consumed, Top
<1>6. SnapRead(n) \in Nat \cup {Garbled}
  BY <1>2 DEF SnapRead, Line
<1>7. [file |-> filename, snap |-> SnapRead(n), vars |-> <<>>] \in Content
  <2>1. <<>> \in Seq(Nat)
    BY EmptySeq
  <2> QED BY <1>6, <2>1 DEF Content, TypeOK
<1> QED BY <1>3, <1>5, <1>7

LEMMA AsciiReadTyped ==
  ASSUME TypeOK, ReadAsciiRecord
  PROVE  TypeOK'
<1>1. handle' \in Nat
  BY AsciiReadKeeps
<1>2. PICK h \in Content : Keep(currentSnap, h)
  BY AsciiReadKeeps
<1>3. /\ StoreTyped' /\ currentSnap' \in Nat
      /\ ret' \in {"none", "ok", "error", "crash"} /\ disturbed' \in BOOLEAN
  <2>1. currentSnap \in Nat
    BY DEF TypeOK
  <2> QED BY <1>2, <2>1, KeepTyped
<1> QED BY <1>1, <1>3 DEF ReadAsciiRecord, ReadingAscii, Reading, Running, header,
                          TypeOK, StoreTyped

LEMMA AsciiFailTyped ==
  ASSUME TypeOK, ReadAsciiNoHeader \/ ReadAsciiBadValue \/ ReadAsciiCrash
  PROVE  TypeOK'
<1>1. D \in FileDesc
  BY FileTyped
<1>2. D.lines \in Seq(Line) /\ Len(D.lines) \in Nat
  BY <1>1, LenProperties DEF FileDesc
<1>3. currentSnap \in Nat
  BY DEF TypeOK
<1>4. AtRecord => handle \in Nat /\ Top \in Nat /\ Top \in DOMAIN D.lines
                  /\ D.lines[Top] \in Line
  <2> SUFFICES ASSUME AtRecord
               PROVE  handle \in Nat /\ Top \in Nat /\ Top \in DOMAIN D.lines
                      /\ D.lines[Top] \in Line
    OBVIOUS
  <2>1. handle \in Nat /\ Top \in Nat /\ Top \in 1..Len(D.lines)
    BY <1>2 DEF AtRecord, Top, TypeOK, Closed
  <2> QED BY <1>2, <2>1, LenProperties, ElementOfSeq
<1>5. handle' \in Nat \cup {Closed}
  <2>1. CASE ReadAsciiNoHeader
    BY <1>4, <2>1 DEF ReadAsciiNoHeader, TypeOK
  <2>2. CASE ReadAsciiCrash
    BY <1>4, <2>2 DEF ReadAsciiCrash
  <2>3. CASE ReadAsciiBadValue
    <3>1. PICK n \in Announced(D.lines[Top]) :
            \E i \in (Top + 1)..(Top + n) : handle' = Consumed(i)
      BY <2>3 DEF ReadAsciiBadValue
    <3>2. n \in Nat
      BY <1>4, <2>3, <3>1 DEF ReadAsciiBadValue, Announced, Line, TypeOK
    <3>3. PICK i \in (Top + 1)..(Top + n) : handle' = Consumed(i)
      BY <3>1
    <3>4. i \in Nat
      BY <1>4, <2>3, <3>2 DEF ReadAsciiBadValue
    <3> QED BY <1>2, <3>3, <3>4 DEF Consumed
  <2> QED BY <2>1, <2>2, <2>3
<1>6. StoreTyped'
  BY <1>3, OrphanTyped DEF ReadAsciiNoHeader, ReadAsciiBadValue, ReadAsciiCrash, Orphan
<1> QED BY <1>5, <1>6 DEF ReadAsciiNoHeader, ReadAsciiBadValue, ReadAsciiCrash, Orphan,
          Throw, Abort, ReadingAscii, Reading, Running, header, TypeOK, StoreTyped

LEMMA NetcdfReadKeeps ==
  ASSUME TypeOK, NEW s \in AnyRequest, ReadNetcdfRecord(s)
  PROVE  \E h \in Content : h.file = filename /\ Keep(Wanted(s), h)
<1>1. D \in FileDesc
  BY FileTyped
<1>2. Wanted(s) \in Nat
  BY WantedTyped
<1>3. Slab(Wanted(s)) \in Nat \cup {Garbled}
  <2>1. D.lines \in Seq(Line)
    BY <1>1 DEF FileDesc
  <2>2. \A i \in DOMAIN D.lines : D.lines[i] \in Line
    BY <2>1, LenProperties, ElementOfSeq
  <2>3. \A i \in DOMAIN D.lines : D.lines[i].snap \in Nat \cup {Garbled}
    BY <2>2 DEF Line
  <2> QED BY <2>3 DEF Slab
<1>4. CASE ~Present
  <2>1. Nothing(filename) \in Content /\ Nothing(filename).file = filename
    BY NothingTyped DEF TypeOK, Nothing
  <2> QED BY <1>4, <2>1 DEF ReadNetcdfRecord
<1>5. CASE Present
  <2> DEFINE h == [file |-> filename, vars |-> VarsRead,
                   snap |-> IF Wanted(s) < times THEN Slab(Wanted(s)) ELSE Garbled]
  <2>1. VarsRead \in Seq(Nat)
    <3>1. \E n \in 0..3 : DOMAIN Components = 1..n
      BY DEF Components
    <3>2. varids \in Seq(Nat) /\ DOMAIN varids = 1..Len(varids)
      BY LenProperties DEF TypeOK
    <3>3. \A i \in DOMAIN Components : Components[i] \in 1..3
      BY DEF Components
    <3>4. \A i \in DOMAIN Components : varids[Components[i]] \in Nat
      BY <1>5, <3>2, <3>3, ElementOfSeq DEF Present
    <3> QED BY <3>1, <3>4, IsASeq DEF VarsRead
  <2>2. h \in Content
    BY <1>3, <2>1 DEF Content, TypeOK
  <2>3. Keep(Wanted(s), h)
    BY <1>5 DEF ReadNetcdfRecord
  <2> QED BY <2>2, <2>3
<1> QED BY <1>4, <1>5

LEMMA NetcdfReadTyped ==
  ASSUME TypeOK, NEW s \in AnyRequest, ReadNetcdfRecord(s)
  PROVE  TypeOK'
<1>1. Wanted(s) \in Nat
  BY WantedTyped
<1>2. PICK h \in Content : Keep(Wanted(s), h)
  BY NetcdfReadKeeps
<1>3. /\ StoreTyped' /\ currentSnap' \in Nat
      /\ ret' \in {"none", "ok", "error", "crash"} /\ disturbed' \in BOOLEAN
  BY <1>1, <1>2, KeepTyped
<1> QED BY <1>3 DEF ReadNetcdfRecord, ReadingNetcdf, Reading, Running, header,
                    TypeOK, StoreTyped

LEMMA NetcdfFailTyped ==
  ASSUME TypeOK, NEW s \in AnyRequest, ReadNetcdfError(s) \/ ReadNetcdfCrash(s)
  PROVE  TypeOK'
<1>1. Wanted(s) \in Nat
  BY WantedTyped
<1>2. StoreTyped'
  BY <1>1, OrphanTyped DEF ReadNetcdfError, ReadNetcdfCrash, Orphan
<1> QED BY <1>2 DEF ReadNetcdfError, ReadNetcdfCrash, Orphan, Throw, Abort,
                    ReadingNetcdf, Reading, Running, header, TypeOK, StoreTyped

LEMMA ReadTyped ==
  ASSUME TypeOK, NEW s \in AnyRequest, ReadCall(s)
  PROVE  TypeOK'
<1>1. CASE ReadUnknown \/ ReadAsciiPastLast \/ ReadNetcdfPastLast(s)
  BY <1>1 DEF ReadUnknown, ReadAsciiPastLast, ReadNetcdfPastLast, Refuse, Running,
              cursor, header, store, TypeOK
<1>2. CASE ReadAsciiRecord
  BY <1>2, AsciiReadTyped
<1>3. CASE ReadAsciiNoHeader \/ ReadAsciiBadValue \/ ReadAsciiCrash
  BY <1>3, AsciiFailTyped
<1>4. CASE ReadNetcdfRecord(s)
  BY <1>4, NetcdfReadTyped
<1>5. CASE ReadNetcdfError(s) \/ ReadNetcdfCrash(s)
  BY <1>5, NetcdfFailTyped
<1> QED BY <1>1, <1>2, <1>3, <1>4, <1>5 DEF ReadCall

LEMMA OpenTyped ==
  ASSUME TypeOK, OpenCall
  PROVE  TypeOK'
<1>1. D \in FileDesc
  BY FileTyped
<1>2. CASE OpenRefused
  BY <1>2 DEF OpenRefused, Refuse, Running, cursor, header, store, TypeOK
<1>3. CASE OpenUnknown
  BY <1>3 DEF OpenUnknown, Throw, Running, header, store, TypeOK, Formats
<1>4. CASE OpenAscii
  <2>1. D.snaps \in Nat /\ D.nodes \in Nat /\ D.vector \in BOOLEAN
    BY <1>1 DEF FileDesc
  <2>2. numSnaps' \in Nat /\ numNodes' \in Nat /\ handle' \in Nat \cup {Closed}
    BY <1>4, <2>1 DEF OpenAscii, TypeOK
  <2>3. meta' \in Metadata
    <3>1. meta \in Metadata
      BY DEF TypeOK
    <3>2. \/ meta' = meta
          \/ meta' = [meta EXCEPT !.vector = D.vector,
                                  !.dim = IF D.vector THEN 2 ELSE 1]
      BY <1>4 DEF OpenAscii
    <3>3. \A v \in BOOLEAN, d \in 0..3 :
            [meta EXCEPT !.vector = v, !.dim = d] \in Metadata
      BY <3>1 DEF Metadata
    <3>4. (IF D.vector THEN 2 ELSE 1) \in 0..3
      OBVIOUS
    <3> QED BY <2>1, <3>1, <3>2, <3>3, <3>4
  <2>4. /\ open' \in BOOLEAN /\ filetype' \in Formats /\ opened' \subseteq Files
        /\ ret' \in {"none", "ok", "error", "crash"} /\ disturbed' \in BOOLEAN
    BY <1>4 DEF OpenAscii, OpenCommon, Return, Throw, TypeOK, Formats
  <2> QED BY <1>4, <2>2, <2>3, <2>4 DEF OpenAscii, OpenCommon, Running, store, TypeOK
<1>5. CASE OpenNetcdf
  <2>1. /\ D.snaps \in Nat /\ D.nodes \in Nat /\ D.vars \in Seq(Nat)
        /\ D.vector \in BOOLEAN /\ D.max \in BOOLEAN /\ D.dim \in 0..3
    BY <1>1 DEF FileDesc
  <2>2. varids \o D.vars \in Seq(Nat)
    BY <2>1, ConcatProperties DEF TypeOK
  <2>3. /\ numSnaps' \in Nat /\ numNodes' \in Nat /\ times' \in Nat
        /\ varids' \in Seq(Nat)
    BY <1>5, <2>1, <2>2 DEF OpenNetcdf, header, TypeOK
  <2>4. meta' \in Metadata
    BY <1>5, <2>1 DEF OpenNetcdf, header, TypeOK, Metadata
  <2>5. /\ open' \in BOOLEAN /\ filetype' \in Formats /\ opened' \subseteq Files
        /\ ret' \in {"none", "ok", "error", "crash"} /\ disturbed' \in BOOLEAN
        /\ handle' \in Nat
    BY <1>5 DEF OpenNetcdf, OpenCommon, Return, Throw, Abort, TypeOK, Formats
  <2> QED BY <1>5, <2>3, <2>4, <2>5 DEF OpenNetcdf, OpenCommon, Running, store, TypeOK
<1> QED BY <1>2, <1>3, <1>4, <1>5 DEF OpenCall

LEMMA StoreCallTyped ==
  ASSUME TypeOK,
         \/ \E k \in UserIds : AddRecord(k)
         \/ Clear
         \/ \E p \in Nat : ClearAt(p)
  PROVE  TypeOK'
<1>1. StoreTyped'
  <2>1. ASSUME NEW k \in UserIds, AddRecord(k) PROVE StoreTyped'
    <3>1. Nothing(Nobody) \in Content
      BY NothingTyped
    <3>2. NewRecord(k, Nothing(Nobody), TRUE) \in OutputRecord
      BY <3>1, NewRecordTyped, ReaderAssumption
    <3>3. records' \in Seq(OutputRecord)
      BY <2>1, <3>2, AppendTyped DEF AddRecord, TypeOK
    <3> QED BY <2>1, <3>3, RebuiltTyped DEF AddRecord, StoreTyped
  <2>2. CASE Clear
    BY <2>2, EmptySeq DEF Clear, StoreTyped
  <2>3. ASSUME NEW p \in Nat, ClearAt(p) PROVE StoreTyped'
    <3>1. CASE p \in DOMAIN records
      <4>1. records' \in Seq(OutputRecord)
        BY <2>3, <3>1, RemoveAtType DEF ClearAt, TypeOK
      <4> QED BY <2>3, <3>1, <4>1, RebuiltTyped DEF ClearAt, StoreTyped
    <3>2. CASE p \notin DOMAIN records
      BY <2>3, <3>2 DEF ClearAt, store, StoreTyped, TypeOK
    <3> QED BY <3>1, <3>2
  <2> QED BY <2>1, <2>2, <2>3
<1> QED BY <1>1 DEF AddRecord, Clear, ClearAt, Running, Return, Refuse, cursor, header,
                    TypeOK, StoreTyped

LEMMA TypeKept ==
  ASSUME TypeOK, [Call]_vars
  PROVE  TypeOK'
<1>1. CASE OpenCall
  BY <1>1, OpenTyped
<1>2. CASE CloseCall
  BY <1>2 DEF CloseCall, CloseRefused, CloseFile, Refuse, Running, cursor, header,
              store, TypeOK
<1>3. CASE \E s \in AnyRequest : ReadCall(s)
  BY <1>3, ReadTyped
<1>4. CASE \E f \in Files : SetFilename(f)
  BY <1>4 DEF SetFilename, Refuse, Return, Running, cursor, header, store, TypeOK
<1>5. CASE \/ \E k \in UserIds : AddRecord(k)
           \/ Clear
           \/ \E p \in Nat : ClearAt(p)
  BY <1>5, StoreCallTyped
<1>6. CASE \E k \in Cursors : SetCurrentSnap(k)
  BY <1>6, ReaderAssumption DEF SetCurrentSnap, Running, header, store, TypeOK
<1>7. CASE UNCHANGED vars
  BY <1>7 DEF vars, cursor, header, store, TypeOK
<1> QED BY <1>1, <1>2, <1>3, <1>4, <1>5, <1>6, <1>7 DEF Call

LEMMA TypeStarts ==
  ASSUME Init
  PROVE  TypeOK
<1>1. <<>> \in Seq(OutputRecord) /\ <<>> \in Seq(Nat) /\ DOMAIN <<>> = {}
  BY EmptySeq
<1>2. disk \in [Files -> FileDesc] /\ filename \in Files
  BY ReaderAssumption DEF Init
<1>3. /\ records \in Seq(OutputRecord) /\ varids \in Seq(Nat)
      /\ DOMAIN recordMap \subseteq Nat
      /\ \A k \in DOMAIN recordMap : recordMap[k] \in Nat
  BY <1>1 DEF Init, Constructed
<1>4. /\ open \in BOOLEAN /\ filetype \in Formats /\ handle \in Nat \cup {Closed}
      /\ currentSnap \in Nat /\ numSnaps \in Nat /\ numNodes \in Nat /\ times \in Nat
      /\ ret \in {"none", "ok", "error", "crash"} /\ disturbed \in BOOLEAN
      /\ opened \subseteq Files
  BY DEF Init, Constructed, Formats
<1>5. meta \in Metadata
  BY DEF Init, Constructed, Metadata
<1> QED BY <1>2, <1>3, <1>4, <1>5 DEF TypeOK

(* Every state of the reader is well typed, whatever the files, the requests *)
(* and the order of calls: the map never holds anything but positions, and   *)
(* every record is a record, the orphans of failed reads included.           *)
THEOREM TypeCorrect == Spec => []TypeOK
<1>1. Init => TypeOK
  BY TypeStarts
<1>2. TypeOK /\ [Next]_vars => TypeOK'
  BY TypeKept, NextIsCall
<1> QED BY <1>1, <1>2, PTL DEF Spec

-----------------------------------------------------------------------------
(* The store of records. *)

(* A record is pushed and entered in the map. *)
StoreKept ==
  \E r \in OutputRecord :
    /\ r.whole
    /\ records' = Append(records, r)
    /\ recordMap' = [j \in DOMAIN recordMap \cup {r.id} |->
                       IF j = r.id THEN Len(records) + 1 ELSE recordMap[j]]

(* A record is pushed, the read fails, the map never hears of it. *)
StoreOrphaned ==
  \E r \in OutputRecord :
    /\ ~r.whole
    /\ records' = Append(records, r)
    /\ recordMap' = recordMap

(* The map is computed again, after a record was handed in or one dropped. *)
StoreRebuilt ==
  /\ recordMap' = RebuiltMap(records')
  /\ \/ Len(records') < Len(records)
     \/ records'[Len(records')].holds.file = Nobody

StoreCleared == records' = <<>> /\ recordMap' = <<>>

LEMMA OrphanStep ==
  ASSUME TypeOK, NEW k \in Nat, UNCHANGED recordMap,
         records' = Append(records, NewRecord(k, Nothing(filename), FALSE))
  PROVE  StoreOrphaned
<1>1. Nothing(filename) \in Content
  BY NothingTyped DEF TypeOK
<1>2. /\ NewRecord(k, Nothing(filename), FALSE) \in OutputRecord
      /\ ~NewRecord(k, Nothing(filename), FALSE).whole
  BY <1>1, NewRecordTyped
<1> QED BY <1>2 DEF StoreOrphaned

LEMMA KeepStep ==
  ASSUME TypeOK, NEW k \in Nat, NEW h \in Content, Keep(k, h)
  PROVE  StoreKept
<1>1. /\ NewRecord(k, h, TRUE) \in OutputRecord
      /\ NewRecord(k, h, TRUE).whole
      /\ NewRecord(k, h, TRUE).id = k
  BY NewRecordTyped
<1> QED BY <1>1 DEF StoreKept, Keep

(* Every call of the reader leaves the store alone or changes it in one of *)
(* the four ways.                                                          *)
LEMMA StoreSteps ==
  ASSUME TypeOK, [Call]_vars
  PROVE  UNCHANGED store \/ StoreKept \/ StoreOrphaned \/ StoreRebuilt \/ StoreCleared
<1>1. CASE OpenCall
  BY <1>1 DEF OpenCall, OpenRefused, OpenUnknown, OpenAscii, OpenNetcdf, OpenCommon
<1>2. CASE CloseCall
  BY <1>2 DEF CloseCall, CloseRefused, CloseFile
<1>3. ASSUME NEW s \in AnyRequest, ReadCall(s)
      PROVE  UNCHANGED store \/ StoreKept \/ StoreOrphaned
  <2>1. Wanted(s) \in Nat /\ currentSnap \in Nat
    BY WantedTyped DEF TypeOK
  <2>2. CASE ReadUnknown \/ ReadAsciiPastLast \/ ReadNetcdfPastLast(s)
    BY <2>2 DEF ReadUnknown, ReadAsciiPastLast, ReadNetcdfPastLast
  <2>3. CASE ReadAsciiRecord
    BY <2>1, <2>3, AsciiReadKeeps, KeepStep
  <2>4. CASE ReadAsciiNoHeader \/ ReadAsciiBadValue \/ ReadAsciiCrash
    BY <2>1, <2>4, OrphanStep DEF ReadAsciiNoHeader, ReadAsciiBadValue, ReadAsciiCrash,
                                  Orphan
  <2>5. CASE ReadNetcdfRecord(s)
    BY <2>1, <2>5, NetcdfReadKeeps, KeepStep
  <2>6. CASE ReadNetcdfError(s) \/ ReadNetcdfCrash(s)
    BY <2>1, <2>6, OrphanStep DEF ReadNetcdfError, ReadNetcdfCrash, Orphan
  <2> QED BY <1>3, <2>2, <2>3, <2>4, <2>5, <2>6 DEF ReadCall
<1>4. CASE \E f \in Files : SetFilename(f)
  BY <1>4 DEF SetFilename
<1>5. ASSUME NEW k \in UserIds, AddRecord(k) PROVE StoreRebuilt
  <2> DEFINE r == NewRecord(k, Nothing(Nobody), TRUE)
  <2>1. r \in OutputRecord /\ r.holds = Nothing(Nobody)
    <3>1. Nothing(Nobody) \in Content /\ k \in Nat
      BY NothingTyped, ReaderAssumption
    <3> QED BY <3>1, NewRecordTyped
  <2>2. Nothing(Nobody).file = Nobody
    BY DEF Nothing
  <2>3. records' = Append(records, r) /\ recordMap' = RebuiltMap(records')
    BY <1>5 DEF AddRecord
  <2> HIDE DEF r
  <2>4. Append(records, r)[Len(Append(records, r))] = r
    BY <2>1, AppendTyped DEF TypeOK
  <2> QED BY <2>1, <2>2, <2>3, <2>4 DEF StoreRebuilt
<1>6. CASE Clear
  BY <1>6 DEF Clear, StoreCleared
<1>7. ASSUME NEW p \in Nat, ClearAt(p) PROVE UNCHANGED store \/ StoreRebuilt
  <2>1. CASE p \in DOMAIN records
    <3>1. Len(records') = Len(records) - 1 /\ Len(records) \in Nat
      BY <1>7, <2>1, RemoveAtType, LenProperties DEF ClearAt, TypeOK
    <3> QED BY <1>7, <2>1, <3>1 DEF ClearAt, StoreRebuilt
  <2>2. CASE p \notin DOMAIN records
    BY <1>7, <2>2 DEF ClearAt
  <2> QED BY <2>1, <2>2
<1>8. CASE \E k \in Cursors : SetCurrentSnap(k)
  BY <1>8 DEF SetCurrentSnap
<1>9. CASE UNCHANGED vars
  BY <1>9 DEF vars
<1> QED BY <1>1, <1>2, <1>3, <1>4, <1>5, <1>6, <1>7, <1>8, <1>9 DEF Call

(* What a push leaves in the vector. *)
LEMMA PushedRecord ==
  ASSUME TypeOK, NEW r \in OutputRecord, records' = Append(records, r)
  PROVE  /\ Len(records) \in Nat
         /\ DOMAIN records = 1..Len(records)
         /\ DOMAIN records' = 1..(Len(records) + 1)
         /\ \A i \in 1..Len(records) : records'[i] = records[i]
         /\ records'[Len(records) + 1] = r
BY AppendTyped DEF TypeOK

(* data(snap) returns the record it names: each entry of the map read(),    *)
(* addRecord() and clearAt() leave behind points into the vector, at a      *)
(* record of that number, after any sequence of calls and failures.         *)
THEOREM MapSoundAlways == Spec => []MapSound
<1>1. Init => MapSound
  BY DEF Init, Constructed, MapSound
<1>2. TypeOK /\ TypeOK' /\ MapSound /\ [Next]_vars => MapSound'
  <2> SUFFICES ASSUME TypeOK, TypeOK', MapSound, [Next]_vars PROVE MapSound'
    OBVIOUS
  <2>1. CASE UNCHANGED store
    BY <2>1 DEF store, MapSound
  <2>2. CASE StoreKept
    <3>1. PICK r \in OutputRecord :
            /\ records' = Append(records, r)
            /\ recordMap' = [j \in DOMAIN recordMap \cup {r.id} |->
                               IF j = r.id THEN Len(records) + 1 ELSE recordMap[j]]
      BY <2>2 DEF StoreKept
    <3>2. SUFFICES ASSUME NEW k \in DOMAIN recordMap'
                   PROVE  recordMap'[k] \in DOMAIN records' /\ records'[recordMap'[k]].id = k
      BY DEF MapSound
    <3>3. CASE k = r.id
      BY <3>1, <3>3, PushedRecord
    <3>4. CASE k # r.id
      <4>1. k \in DOMAIN recordMap /\ recordMap'[k] = recordMap[k]
        BY <3>1, <3>4
      <4>2. recordMap[k] \in DOMAIN records /\ records[recordMap[k]].id = k
        BY <4>1 DEF MapSound
      <4> QED BY <3>1, <4>1, <4>2, PushedRecord
    <3> QED BY <3>3, <3>4
  <2>3. CASE StoreOrphaned
    <3>1. PICK r \in OutputRecord : records' = Append(records, r)
      BY <2>3 DEF StoreOrphaned
    <3> QED BY <2>3, <3>1, PushedRecord DEF StoreOrphaned, MapSound
  <2>4. CASE StoreRebuilt
    BY <2>4, RebuiltMapLatest DEF StoreRebuilt, TypeOK, MapSound
  <2>5. CASE StoreCleared
    BY <2>5 DEF StoreCleared, MapSound
  <2> QED BY <2>1, <2>2, <2>3, <2>4, <2>5, StoreSteps, NextIsCall
<1> QED BY <1>1, <1>2, TypeCorrect, PTL DEF Spec

(* data(snap) finds whatever was read: no completely read record is ever    *)
(* missing from the map.                                                    *)
THEOREM MapTotalAlways == Spec => []MapTotal
<1>1. Init => MapTotal
  BY DEF Init, Constructed, MapTotal
<1>2. TypeOK /\ TypeOK' /\ MapTotal /\ [Next]_vars => MapTotal'
  <2> SUFFICES ASSUME TypeOK, TypeOK', MapTotal, [Next]_vars PROVE MapTotal'
    OBVIOUS
  <2>1. CASE UNCHANGED store
    BY <2>1 DEF store, MapTotal
  <2>2. CASE StoreKept
    <3>1. PICK r \in OutputRecord :
            /\ records' = Append(records, r)
            /\ recordMap' = [j \in DOMAIN recordMap \cup {r.id} |->
                               IF j = r.id THEN Len(records) + 1 ELSE recordMap[j]]
      BY <2>2 DEF StoreKept
    <3>2. DOMAIN recordMap' = DOMAIN recordMap \cup {r.id}
      BY <3>1
    <3> QED BY <3>1, <3>2, PushedRecord DEF MapTotal
  <2>3. CASE StoreOrphaned
    <3>1. PICK r \in OutputRecord : ~r.whole /\ records' = Append(records, r)
      BY <2>3 DEF StoreOrphaned
    <3> QED BY <2>3, <3>1, PushedRecord DEF StoreOrphaned, MapTotal
  <2>4. CASE StoreRebuilt
    <3>1. DOMAIN recordMap' = {records'[i].id : i \in DOMAIN records'}
      BY <2>4, RebuiltMapLatest DEF StoreRebuilt, TypeOK
    <3> QED BY <3>1 DEF MapTotal
  <2>5. CASE StoreCleared
    BY <2>5 DEF StoreCleared, MapTotal
  <2> QED BY <2>1, <2>2, <2>3, <2>4, <2>5, StoreSteps, NextIsCall
<1> QED BY <1>1, <1>2, TypeCorrect, PTL DEF Spec

(* A map entry is never older than a completely read record of its number: *)
(* reading a snap again hides the earlier copy for good.                    *)
THEOREM MapLatestAlways == Spec => []MapLatest
<1>1. Init => MapLatest
  BY DEF Init, Constructed, MapLatest
<1>2. TypeOK /\ TypeOK' /\ MapTotal /\ MapLatest /\ [Next]_vars => MapLatest'
  <2> SUFFICES ASSUME TypeOK, TypeOK', MapTotal, MapLatest, [Next]_vars PROVE MapLatest'
    OBVIOUS
  <2>1. CASE UNCHANGED store
    BY <2>1 DEF store, MapLatest
  <2>2. CASE StoreKept
    <3>1. PICK r \in OutputRecord :
            /\ records' = Append(records, r)
            /\ recordMap' = [j \in DOMAIN recordMap \cup {r.id} |->
                               IF j = r.id THEN Len(records) + 1 ELSE recordMap[j]]
      BY <2>2 DEF StoreKept
    <3>2. SUFFICES ASSUME NEW i \in DOMAIN records', records'[i].whole
                   PROVE  i <= recordMap'[records'[i].id]
      BY DEF MapLatest
    <3>3. CASE records'[i].id = r.id
      BY <3>1, <3>3, PushedRecord
    <3>4. CASE records'[i].id # r.id
      <4>1. i \in DOMAIN records /\ records'[i] = records[i]
        BY <3>1, <3>4, PushedRecord
      <4>2. records[i].id \in DOMAIN recordMap /\ i <= recordMap[records[i].id]
        BY <3>2, <4>1 DEF MapTotal, MapLatest
      <4> QED BY <3>1, <3>4, <4>1, <4>2
    <3> QED BY <3>3, <3>4
  <2>3. CASE StoreOrphaned
    <3>1. PICK r \in OutputRecord : ~r.whole /\ records' = Append(records, r)
      BY <2>3 DEF StoreOrphaned
    <3> QED BY <2>3, <3>1, PushedRecord DEF StoreOrphaned, MapLatest
  <2>4. CASE StoreRebuilt
    <3>1. SUFFICES ASSUME NEW i \in DOMAIN records'
                   PROVE  i <= recordMap'[records'[i].id]
      BY DEF MapLatest
    <3>2. records' \in Seq(OutputRecord)
      BY DEF TypeOK
    <3>3. DOMAIN RebuiltMap(records') = {records'[j].id : j \in DOMAIN records'}
      BY <3>2, RebuiltMapLatest
    <3>4. records'[i].id \in DOMAIN RebuiltMap(records')
      BY <3>3
    <3>5. \A j \in DOMAIN records' :
            records'[j].id = records'[i].id => j <= RebuiltMap(records')[records'[i].id]
      BY <3>2, <3>4, RebuiltMapLatest
    <3> QED BY <2>4, <3>5 DEF StoreRebuilt
  <2>5. CASE StoreCleared
    BY <2>5 DEF StoreCleared, MapLatest
  <2> QED BY <2>1, <2>2, <2>3, <2>4, <2>5, StoreSteps, NextIsCall
<1> QED BY <1>1, <1>2, TypeCorrect, MapTotalAlways, PTL DEF Spec

(* No read makes data(snap) hand out a record whose read threw: only        *)
(* rebuildMap(), after addRecord() or clearAt(), can bring an orphan back.  *)
THEOREM OrphansStayHidden == Spec => OrphansHidden
<1> DEFINE Hidden == \/ Exposed' \subseteq Exposed
                     \/ Len(records') < Len(records)
                     \/ records'[Len(records')].holds.file = Nobody
<1>1. TypeOK /\ MapSound /\ [Next]_vars => [Hidden]_vars
  <2> SUFFICES ASSUME TypeOK, MapSound, [Next]_vars PROVE Hidden
    OBVIOUS
  <2>1. CASE UNCHANGED store
    BY <2>1 DEF store, Exposed
  <2>2. CASE StoreKept
    <3>1. PICK r \in OutputRecord :
            /\ r.whole
            /\ records' = Append(records, r)
            /\ recordMap' = [j \in DOMAIN recordMap \cup {r.id} |->
                               IF j = r.id THEN Len(records) + 1 ELSE recordMap[j]]
      BY <2>2 DEF StoreKept
    <3>2. SUFFICES ASSUME NEW k \in Exposed' PROVE k \in Exposed
      OBVIOUS
    <3>3. k # r.id
      BY <3>1, <3>2, PushedRecord DEF Exposed
    <3>4. k \in DOMAIN recordMap /\ recordMap'[k] = recordMap[k]
      BY <3>1, <3>2, <3>3 DEF Exposed
    <3>5. records'[recordMap'[k]] = records[recordMap[k]]
      BY <3>1, <3>4, PushedRecord DEF MapSound
    <3> QED BY <3>2, <3>4, <3>5 DEF Exposed
  <2>3. CASE StoreOrphaned
    <3>1. PICK r \in OutputRecord : records' = Append(records, r)
      BY <2>3 DEF StoreOrphaned
    <3>2. \A k \in DOMAIN recordMap : records'[recordMap[k]] = records[recordMap[k]]
      BY <3>1, PushedRecord DEF MapSound
    <3> QED BY <2>3, <3>2 DEF StoreOrphaned, Exposed
  <2>4. CASE StoreRebuilt
    BY <2>4 DEF StoreRebuilt
  <2>5. CASE StoreCleared
    BY <2>5 DEF StoreCleared, Exposed
  <2> QED BY <2>1, <2>2, <2>3, <2>4, <2>5, StoreSteps, NextIsCall
<1> QED BY <1>1, TypeCorrect, MapSoundAlways, PTL DEF Spec, OrphansHidden
-----------------------------------------------------------------------------
(***************************************************************************)
(* What the records read hold, and when the process dies, for every set of *)
(* files that were written by a model run, damaged or cut afterwards       *)
(* (FilesWritten).                                                         *)
(*                                                                         *)
(* A read is right when the object, the stream below it and the file       *)
(* agree, so the invariants relate the three: Session, the object and the  *)
(* file it has open; Stream, the position in an ASCII file and the cursor; *)
(* FirstIds and NetcdfHeader, what an open netCDF file has left in the     *)
(* object.                                                                 *)
(***************************************************************************)

Sound(f) == f.format = "netcdf4" /\ f.header = "ok" /\ f.vars # <<>>

Session ==
  /\ handle # Closed => open
  /\ open => filetype = D.format /\ filename \in opened
  /\ ~disturbed /\ ~open => currentSnap = 0
  /\ ~disturbed /\ ret # "crash" /\ filetype \in NetcdfFormats =>
       times > 0 /\ varids # <<>> /\ (open => Sound(D))

(* On the straight path, and before any header that lost tokens, the next    *)
(* line of an ASCII file begins the record the cursor stands at.             *)
Stream ==
  ~disturbed /\ ~PassedStump /\ handle # Closed /\ D.format \in AsciiFormats =>
    /\ numNodes = D.nodes
    /\ handle <= Len(D.lines)
    /\ handle < Len(D.lines) => HeadsRecord(D, handle + 1, currentSnap)

Begins(ids, v) == Len(v) <= Len(ids) /\ \A i \in 1..Len(v) : ids[i] = v[i]

(* The first variable ids are those of the first file that gave any. *)
FirstIds ==
  varids = <<>> \/ \E f \in opened : /\ disk[f].format = "netcdf4"
                                     /\ disk[f].vars # <<>>
                                     /\ Begins(varids, disk[f].vars)

NetcdfHeader ==
  OneLayout /\ open /\ ret # "crash" /\ Sound(D) =>
    /\ times = D.snaps
    /\ numSnaps = D.snaps
    /\ meta.max = D.max
    /\ meta.dim = IF Len(D.vars) = 1 THEN 1 ELSE D.dim
    /\ Begins(varids, D.vars)

Agree == disk \in Disks /\ Session /\ Stream /\ FirstIds /\ NetcdfHeader

-----------------------------------------------------------------------------
(* The calls, seen from the object and its stream. *)

Quiet ==
  /\ UNCHANGED <<disk, cursor, header, opened, disturbed>>
  /\ ret' = ret \/ (ret # "crash" /\ ret' # "crash")

(* A read threw: the stream may have moved, the object has not. *)
Failed ==
  /\ UNCHANGED <<disk, filename, open, filetype, currentSnap, header, opened>>
  /\ handle' # Closed => handle # Closed
  /\ disturbed'
  /\ ret # "crash" /\ ret' = "error"

Renamed ==
  /\ ~open
  /\ \E f \in Files : filename' = f
  /\ UNCHANGED <<disk, open, filetype, handle, currentSnap, header, opened, disturbed>>
  /\ ret # "crash" /\ ret' = "ok"

LEMMA Calls ==
  ASSUME TypeOK, [Call]_vars
  PROVE  \/ Quiet \/ Failed \/ Renamed
         \/ OpenUnknown \/ OpenAscii \/ OpenNetcdf \/ CloseFile
         \/ ReadAsciiRecord \/ ReadAsciiCrash
         \/ \E s \in AnyRequest : ReadNetcdfRecord(s) \/ ReadNetcdfCrash(s)
         \/ \E k \in Cursors : SetCurrentSnap(k)
<1>1. CASE OpenCall
  BY <1>1 DEF OpenCall, OpenRefused, Refuse, Running, Quiet
<1>2. CASE CloseCall
  BY <1>2 DEF CloseCall, CloseRefused, Refuse, Running, Quiet
<1>3. ASSUME NEW s \in AnyRequest, ReadCall(s)
      PROVE  \/ Quiet \/ Failed \/ ReadAsciiRecord \/ ReadAsciiCrash
             \/ ReadNetcdfRecord(s) \/ ReadNetcdfCrash(s)
  <2>1. CASE ReadUnknown \/ ReadAsciiPastLast \/ ReadNetcdfPastLast(s)
    BY <2>1 DEF ReadUnknown, ReadAsciiPastLast, ReadNetcdfPastLast, Refuse, Running, Quiet
  <2>2. CASE ReadAsciiNoHeader \/ ReadAsciiBadValue
    BY <2>2 DEF ReadAsciiNoHeader, ReadAsciiBadValue, ReadingAscii, Reading, Running,
                AtRecord, Orphan, Throw, Failed
  <2>3. CASE ReadNetcdfError(s)
    BY <2>3 DEF ReadNetcdfError, ReadingNetcdf, Reading, Running, Orphan, Throw, Failed
  <2> QED BY <1>3, <2>1, <2>2, <2>3 DEF ReadCall
<1>4. ASSUME NEW f \in Files, SetFilename(f) PROVE Quiet \/ Renamed
  BY <1>4 DEF SetFilename, Refuse, Return, Running, cursor, Quiet, Renamed
<1>5. CASE \/ \E k \in UserIds : AddRecord(k)
           \/ Clear
           \/ \E p \in Nat : ClearAt(p)
  BY <1>5 DEF AddRecord, Clear, ClearAt, Refuse, Return, Running, Quiet
<1>6. CASE UNCHANGED vars
  BY <1>6 DEF vars, Quiet
<1> QED BY <1>1, <1>2, <1>3, <1>4, <1>5, <1>6 DEF Call

(* No call is made of a process that has died. *)
LEMMA CallRuns == Call => ret # "crash"
BY DEF Call, OpenCall, OpenRefused, OpenUnknown, OpenAscii, OpenNetcdf, CloseCall, CloseRefused,
   CloseFile, ReadCall, ReadUnknown, ReadAsciiPastLast, ReadAsciiRecord, ReadAsciiNoHeader,
   ReadAsciiBadValue, ReadAsciiCrash, ReadingAscii, ReadNetcdfPastLast, ReadNetcdfRecord,
   ReadNetcdfError, ReadNetcdfCrash, ReadingNetcdf, Reading, Running, SetFilename, AddRecord,
   Clear, ClearAt, SetCurrentSnap

LEMMA SessionKept ==
  ASSUME TypeOK, Session, [Call]_vars
  PROVE  Session'
<1>1. CASE Quiet
  <2>1. /\ UNCHANGED <<disk, filename, open, filetype, handle, currentSnap, times, varids,
                      opened, disturbed>>
        /\ ret' # "crash" => ret # "crash"
    BY <1>1 DEF Quiet, cursor, header
  <2>2. D' = D
    BY <2>1 DEF D
  <2> QED BY <2>1, <2>2 DEF Session
<1>2. CASE Failed
  BY <1>2 DEF Failed, header, Session, D
<1>3. CASE Renamed
  <2>1. /\ UNCHANGED <<disk, open, filetype, handle, currentSnap, times, varids, opened,
                      disturbed>>
        /\ ~open /\ ret # "crash"
    BY <1>3 DEF Renamed, header
  <2> QED BY <2>1 DEF Session
<1>4. CASE OpenUnknown
  BY <1>4 DEF OpenUnknown, Throw, Running, Session, D
<1>5. CASE OpenAscii
  BY <1>5 DEF OpenAscii, OpenCommon, Throw, Return, Running, Session, D, AsciiFormats,
              NetcdfFormats
<1>6. CASE OpenNetcdf
  <2>1. D.vars \in Seq(Nat) /\ varids \in Seq(Nat) /\ D.snaps \in Nat
    BY FileTyped DEF FileDesc, TypeOK
  <2>2. D.vars # <<>> => varids \o D.vars # <<>>
    BY <2>1, ConcatProperties, EmptySeq, LenProperties
  <2>3. ~disturbed' /\ ret' # "crash" => times' > 0 /\ varids' # <<>> /\ Sound(D)
    BY <1>6, <2>1, <2>2 DEF OpenNetcdf, Throw, Abort, Return, Sound, NetcdfFormats
  <2>4. /\ D' = D /\ open' /\ filetype' = D.format /\ filename' \in opened'
    BY <1>6 DEF OpenNetcdf, OpenCommon, Running, Session, D
  <2> QED BY <2>3, <2>4 DEF Session
<1>7. CASE CloseFile
  BY <1>7 DEF CloseFile, Running, header, Session
<1>8. CASE ReadAsciiRecord
  <2>1. open /\ handle # Closed
    BY <1>8 DEF ReadAsciiRecord, AtRecord, Session
  <2> QED BY <1>8, <2>1 DEF ReadAsciiRecord, ReadingAscii, Reading, Running, Keep, Return,
                            header, Session, D, AsciiFormats, NetcdfFormats
<1>9. CASE ReadAsciiCrash
  <2>1. open /\ handle # Closed
    BY <1>9 DEF ReadAsciiCrash, AtRecord, Session
  <2> QED BY <1>9, <2>1 DEF ReadAsciiCrash, ReadingAscii, Reading, Running, Abort, header,
                            Session, D
<1>10. ASSUME NEW s \in AnyRequest, ReadNetcdfRecord(s) PROVE Session'
  <2>1. open /\ handle # Closed
    BY <1>10 DEF ReadNetcdfRecord, InFile, Session
  <2>2. /\ UNCHANGED <<disk, filename, open, filetype, handle, header, opened, disturbed>>
        /\ times > 0 /\ varids # <<>> /\ ret # "crash"
    BY <1>10 DEF ReadNetcdfRecord, ReadingNetcdf, Reading, Running, Keep, Return
  <2> QED BY <2>1, <2>2 DEF header, Session, D
<1>11. ASSUME NEW s \in AnyRequest, ReadNetcdfCrash(s) PROVE Session'
  BY <1>11 DEF ReadNetcdfCrash, ReadingNetcdf, Reading, Running, Abort, header, Session, D
<1>12. ASSUME NEW k \in Cursors, SetCurrentSnap(k) PROVE Session'
  BY <1>12 DEF SetCurrentSnap, Running, header, Session, D
<1> QED BY <1>1, <1>2, <1>3, <1>4, <1>5, <1>6, <1>7, <1>8, <1>9, <1>10, <1>11, <1>12, Calls

-----------------------------------------------------------------------------
(* ASCII files. *)

LEMMA OpenWritten ==
  ASSUME FilesWritten, TypeOK, disk \in Disks
  PROVE  Written(D)
BY DEF FilesWritten, TypeOK, D

(* The line a reader on the straight path takes for a header. *)
LEMMA HeaderLine ==
  ASSUME TypeOK, Session, Stream, ~disturbed, ~PassedStump, AtRecord,
         filetype \in AsciiFormats
  PROVE  /\ D.format \in AsciiFormats /\ open
         /\ handle \in Nat /\ Top \in DOMAIN D.lines /\ D.lines \in Seq(Line)
         /\ DOMAIN D.lines = 1..Len(D.lines) /\ Len(D.lines) \in Nat
         /\ D.lines[Top] \in Line
         /\ numNodes = D.nodes /\ D.nodes \in Nat
         /\ HeadsRecord(D, Top, currentSnap)
<1>1. open /\ handle # Closed /\ handle < Len(D.lines)
  BY DEF Session, AtRecord
<1>2. D.format \in AsciiFormats
  BY <1>1 DEF Session
<1>3. D.lines \in Seq(Line) /\ D.nodes \in Nat
  BY FileTyped DEF FileDesc
<1>4. handle \in Nat /\ DOMAIN D.lines = 1..Len(D.lines) /\ Len(D.lines) \in Nat
  BY <1>1, <1>3, LenProperties DEF TypeOK
<1>5. Top \in 1..Len(D.lines)
  BY <1>1, <1>4 DEF Top
<1>6. D.lines[Top] \in Line
  BY <1>3, <1>5, ElementOfSeq
<1> QED BY <1>1, <1>2, <1>3, <1>4, <1>5, <1>6 DEF Stream, Top

(* A record read on the straight path is the next one of the file, and the *)
(* stream stands behind it.                                                *)
LEMMA StraightRead ==
  ASSUME Written(D), TypeOK, Session, Stream, ~disturbed, ~PassedStump, ReadAsciiRecord,
         D.lines[Top].kind # "stump"
  PROVE  \E k \in {currentSnap, Garbled} :
           /\ k = Garbled => D.cut
           /\ Keep(currentSnap, [file |-> filename, snap |-> k, vars |-> <<>>])
           /\ handle' <= Len(D.lines)
           /\ handle' < Len(D.lines) => HeadsRecord(D, handle' + 1, currentSnap + 1)
<1>1. PICK n \in Announced(D.lines[Top]) :
        /\ \A i \in (Top + 1)..(Top + n) : ~Rejects(i)
        /\ handle' = Consumed(Top + n)
        /\ Keep(currentSnap, [file |-> filename, snap |-> SnapRead(n), vars |-> <<>>])
  BY DEF ReadAsciiRecord
<1>2. /\ D.format \in AsciiFormats /\ open
      /\ handle \in Nat /\ Top \in DOMAIN D.lines /\ D.lines \in Seq(Line)
      /\ DOMAIN D.lines = 1..Len(D.lines) /\ Len(D.lines) \in Nat
      /\ D.lines[Top] \in Line
      /\ numNodes = D.nodes /\ D.nodes \in Nat
      /\ HeadsRecord(D, Top, currentSnap)
  BY HeaderLine DEF ReadAsciiRecord, ReadingAscii
<1>3. WrittenAscii(D)
  BY <1>2 DEF Written
<1>4. /\ D.lines[Top].kind \in RecordHeads /\ D.lines[Top].snap = currentSnap
      /\ n = ValueLines(D, Top) /\ n \in Nat
  BY <1>1, <1>2 DEF Announced, Overruns, HeadsRecord, ValueLines, RecordHeads, Line
<1>5. /\ \A j \in DOMAIN D.lines :
            Top < j /\ j < Top + n + 1 => D.lines[j].snap = currentSnap
      /\ Top + n + 1 \in DOMAIN D.lines => HeadsRecord(D, Top + n + 1, currentSnap + 1)
  BY <1>2, <1>3, <1>4 DEF WrittenAscii
<1>6. Top \in Nat /\ Top + n \in Nat /\ Top <= Len(D.lines)
  BY <1>2, <1>4
<1>7. Top + n <= Len(D.lines) \/ D.cut
  <2> SUFFICES ASSUME Top + n > Len(D.lines), ~D.cut PROVE FALSE
    BY <1>2, <1>6
  <2>1. Top + n \in (Top + 1)..(Top + n)
    BY <1>2, <1>4, <1>6
  <2>2. LineAt(Top + n) = EmptyLine
    BY <1>2, <1>6 DEF LineAt
  <2> QED BY <1>1, <2>1, <2>2 DEF Rejects, EmptyLine
<1>8. SnapRead(n) \in {currentSnap, Garbled} /\ (SnapRead(n) = Garbled => D.cut)
  <2>1. SnapRead(n) \in {currentSnap, Garbled}
    BY <1>4 DEF SnapRead
  <2>2. CASE Top + n <= Len(D.lines) /\ ~D.cut
    <3>1. ASSUME NEW i \in Top..(Top + n) PROVE D.lines[i].snap = D.lines[Top].snap
      <4>1. CASE i = Top
        BY <4>1
      <4>2. CASE i # Top
        <5>1. i \in 1..Len(D.lines) /\ Top < i /\ i < Top + n + 1
          BY <1>2, <1>4, <1>6, <2>2, <4>2
        <5> QED BY <1>2, <1>4, <1>5, <5>1
      <4> QED BY <4>1, <4>2
    <3>2. SnapRead(n) = currentSnap
      BY <1>4, <2>2, <3>1 DEF SnapRead
    <3>3. currentSnap # Garbled
      BY DEF TypeOK, Garbled
    <3> QED BY <3>2, <3>3
  <2> QED BY <1>7, <2>1, <2>2
<1>9. /\ handle' <= Len(D.lines)
      /\ handle' < Len(D.lines) => HeadsRecord(D, handle' + 1, currentSnap + 1)
  BY <1>1, <1>2, <1>5, <1>6 DEF Consumed
<1> QED BY <1>1, <1>8, <1>9

(* A header that lost tokens and was passed stays behind the stream. *)
LEMMA StumpBehind ==
  ASSUME TypeOK, Session, ReadAsciiRecord \/ ReadAsciiCrash
  PROVE  /\ D' = D /\ open' /\ open
         /\ handle \in Nat /\ Top \in DOMAIN D.lines /\ Top <= handle'
         /\ PassedStump \/ D.lines[Top].kind = "stump" => PassedStump'
<1>1. /\ D' = D /\ open' = open /\ filetype \in AsciiFormats /\ AtRecord
  BY DEF ReadAsciiRecord, ReadAsciiCrash, ReadingAscii, Reading, Running, D
<1>2. open /\ D \in FileDesc
  BY <1>1, FileTyped DEF AtRecord, Session
<1>3. D.lines \in Seq(Line) /\ handle \in Nat
  BY <1>1, <1>2 DEF FileDesc, AtRecord, TypeOK
<1>4. /\ DOMAIN D.lines = 1..Len(D.lines) /\ Len(D.lines) \in Nat /\ Top \in DOMAIN D.lines
      /\ D.lines[Top] \in Line
  BY <1>1, <1>3, LenProperties, ElementOfSeq DEF AtRecord, Top
<1>5. Top <= handle' /\ handle' \in Nat
  <2>1. CASE ReadAsciiCrash
    BY <1>3, <2>1 DEF ReadAsciiCrash, Top
  <2>2. CASE ReadAsciiRecord
    <3>1. PICK n \in Announced(D.lines[Top]) : handle' = Consumed(Top + n)
      BY <2>2 DEF ReadAsciiRecord
    <3>2. n \in Nat
      BY <1>4, <3>1 DEF Announced, Line, TypeOK
    <3> QED BY <1>3, <1>4, <3>1, <3>2 DEF Consumed, Top
  <2> QED BY <2>1, <2>2
<1>6. PassedStump \/ D.lines[Top].kind = "stump" => PassedStump'
  BY <1>1, <1>2, <1>3, <1>4, <1>5 DEF PassedStump, Top
<1> QED BY <1>1, <1>2, <1>3, <1>4, <1>5, <1>6

(* An ASCII reader overruns its token list only off the straight path, or at *)
(* or behind a header that lost tokens.                                      *)
LEMMA OverrunExplained ==
  ASSUME TypeOK, Session, Stream, ReadAsciiCrash
  PROVE  disturbed' \/ PassedStump'
<1>1. AtRecord /\ filetype \in AsciiFormats /\ disturbed' = disturbed
      /\ Overruns(D.lines[Top])
  BY DEF ReadAsciiCrash, ReadingAscii, Abort
<1>2. CASE D.lines[Top].kind = "stump" \/ PassedStump
  BY <1>2, StumpBehind
<1>3. CASE D.lines[Top].kind # "stump" /\ ~PassedStump
  <2>1. D.lines[Top].kind = "vector"
    BY <1>1, <1>3 DEF Overruns
  <2>2. ~disturbed => HeadsRecord(D, Top, currentSnap)
    BY <1>1, <1>3, HeaderLine
  <2> QED BY <1>1, <2>1, <2>2 DEF HeadsRecord, RecordHeads
<1> QED BY <1>2, <1>3

LEMMA StreamKept ==
  ASSUME Written(D), TypeOK, Session, Stream, [Call]_vars
  PROVE  Stream'
<1> USE DEF HeadsRecord
<1>1. CASE Quiet
  BY <1>1 DEF Quiet, cursor, header, Stream, PassedStump, D
<1>2. CASE Failed
  BY <1>2 DEF Failed, Stream
<1>3. CASE Renamed
  BY <1>3 DEF Renamed, Session, Stream
<1>4. CASE OpenUnknown
  BY <1>4 DEF OpenUnknown, Throw, Stream
<1>5. CASE OpenAscii
  <2> SUFFICES ASSUME ~disturbed' PROVE Stream'
    BY DEF Stream
  <2>1. D.header = "ok" /\ ~disturbed /\ ~open
    BY <1>5 DEF OpenAscii, Throw, Return
  <2>2. /\ D' = D /\ currentSnap' = 0 /\ handle' = 0 /\ numNodes' = D.nodes
        /\ D.format \in AsciiFormats
    BY <1>5, <2>1 DEF OpenAscii, OpenCommon, Running, Session, D
  <2>3. D.lines \in Seq(Line) /\ WrittenAscii(D)
    BY <2>2, FileTyped DEF FileDesc, Written
  <2>4. Len(D.lines) \in Nat /\ (D.lines = <<>> => Len(D.lines) = 0)
    BY <2>3, LenProperties
  <2>5. 0 < Len(D.lines) => HeadsRecord(D, 1, 0)
    BY <2>3, <2>4 DEF WrittenAscii
  <2> QED BY <2>2, <2>4, <2>5 DEF Stream
<1>6. CASE OpenNetcdf
  <2>1. D' = D /\ D.format \in NetcdfFormats
    BY <1>6 DEF OpenNetcdf, OpenCommon, Running, D
  <2> QED BY <2>1 DEF Stream, AsciiFormats, NetcdfFormats
<1>7. CASE CloseFile
  BY <1>7 DEF CloseFile, Stream
<1>8. CASE ReadAsciiRecord
  <2> SUFFICES ASSUME ~disturbed', ~PassedStump' PROVE Stream'
    BY DEF Stream
  <2>0. ~PassedStump /\ D.lines[Top].kind # "stump"
    BY <1>8, StumpBehind
  <2>1. /\ ~disturbed /\ D' = D /\ numNodes' = numNodes /\ currentSnap' = currentSnap + 1
        /\ AtRecord /\ filetype \in AsciiFormats
    BY <1>8 DEF ReadAsciiRecord, ReadingAscii, Reading, Running, Keep, Return, header, D
  <2>2. numNodes = D.nodes
    BY <2>0, <2>1, HeaderLine
  <2>3. /\ handle' <= Len(D.lines)
        /\ handle' < Len(D.lines) => HeadsRecord(D, handle' + 1, currentSnap + 1)
    BY <1>8, <2>0, <2>1, StraightRead
  <2> QED BY <2>1, <2>2, <2>3 DEF Stream
<1>9. CASE ReadAsciiCrash
  <2>1. disturbed' \/ PassedStump'
    BY <1>9, OverrunExplained
  <2> QED BY <2>1 DEF Stream
<1>10. ASSUME NEW s \in AnyRequest, ReadNetcdfRecord(s) \/ ReadNetcdfCrash(s) PROVE Stream'
  <2>1. /\ UNCHANGED <<disk, filename, open, filetype, handle, disturbed>>
        /\ filetype \in NetcdfFormats
    BY <1>10 DEF ReadNetcdfRecord, ReadNetcdfCrash, ReadingNetcdf, Reading, Running, Keep,
                 Return, Abort
  <2>2. D' = D
    BY <2>1 DEF D
  <2> QED BY <2>1, <2>2 DEF Session, Stream, AsciiFormats, NetcdfFormats
<1>11. ASSUME NEW k \in Cursors, SetCurrentSnap(k) PROVE Stream'
  BY <1>11 DEF SetCurrentSnap, Stream
<1> QED BY <1>1, <1>2, <1>3, <1>4, <1>5, <1>6, <1>7, <1>8, <1>9, <1>10, <1>11, Calls

-----------------------------------------------------------------------------
(* netCDF files. *)

(* An open adds its own ids behind those it finds. *)
LEMMA IdsAppended ==
  ASSUME NEW ids \in Seq(Nat), NEW v \in Seq(Nat), NEW w \in Seq(Nat), Begins(ids, v)
  PROVE  Begins(ids \o w, v)
<1>1. /\ Len(ids) \in Nat /\ Len(v) \in Nat /\ Len(w) \in Nat
      /\ Len(ids \o w) = Len(ids) + Len(w)
      /\ \A i \in 1..Len(ids) : (ids \o w)[i] = ids[i]
  BY ConcatProperties, LenProperties
<1> QED BY <1>1 DEF Begins

LEMMA FirstIdsKept ==
  ASSUME TypeOK, FirstIds, [Call]_vars
  PROVE  FirstIds'
<1>1. CASE OpenNetcdf
  <2>1. varids \in Seq(Nat) /\ D.vars \in Seq(Nat)
    BY FileTyped DEF TypeOK, FileDesc
  <2>2. disk' = disk /\ opened' = opened \cup {filename}
    BY <1>1 DEF OpenNetcdf, OpenCommon, Running
  <2>3. CASE varids' = varids
    BY <2>2, <2>3 DEF FirstIds
  <2>4. CASE varids' # varids
    <3>1. varids' = varids \o D.vars /\ D.vars # <<>> /\ D.format = "netcdf4"
      BY <1>1, <2>4 DEF OpenNetcdf, header, NetcdfFormats
    <3>2. CASE varids = <<>>
      <4>1. varids' = D.vars
        BY <2>1, <3>1, <3>2, ConcatEmptySeq
      <4>2. Begins(varids', D.vars)
        BY <2>1, <4>1, LenProperties DEF Begins
      <4> QED BY <2>2, <3>1, <4>2 DEF FirstIds, D
    <3>3. ASSUME NEW f \in opened, disk[f].format = "netcdf4", disk[f].vars # <<>>,
                 Begins(varids, disk[f].vars)
          PROVE  FirstIds'
      <4>1. disk[f].vars \in Seq(Nat)
        BY DEF TypeOK, FileDesc
      <4>2. Begins(varids', disk[f].vars)
        BY <2>1, <3>1, <3>3, <4>1, IdsAppended
      <4> QED BY <2>2, <3>3, <4>2 DEF FirstIds
    <3> QED BY <3>2, <3>3 DEF FirstIds
  <2> QED BY <2>3, <2>4
<1>2. ASSUME UNCHANGED <<disk, varids>>, opened \subseteq opened' PROVE FirstIds'
  BY <1>2 DEF FirstIds
<1>3. CASE Quiet \/ Failed \/ Renamed
  BY <1>2, <1>3 DEF Quiet, Failed, Renamed, header
<1>4. CASE OpenUnknown \/ OpenAscii \/ CloseFile
  BY <1>2, <1>4 DEF OpenUnknown, OpenAscii, CloseFile, OpenCommon, Running, header
<1>5. CASE ReadAsciiRecord \/ ReadAsciiCrash
  BY <1>2, <1>5 DEF ReadAsciiRecord, ReadAsciiCrash, ReadingAscii, Reading, Running, header
<1>6. ASSUME NEW s \in AnyRequest, ReadNetcdfRecord(s) \/ ReadNetcdfCrash(s) PROVE FirstIds'
  BY <1>2, <1>6 DEF ReadNetcdfRecord, ReadNetcdfCrash, ReadingNetcdf, Reading, Running, header
<1>7. ASSUME NEW k \in Cursors, SetCurrentSnap(k) PROVE FirstIds'
  BY <1>2, <1>7 DEF SetCurrentSnap, Running, header
<1> QED BY <1>1, <1>3, <1>4, <1>5, <1>6, <1>7, Calls

(* What was opened stays opened, so a layout shared now was shared before. *)
LEMMA OpenedGrows ==
  ASSUME TypeOK, [Call]_vars
  PROVE  opened \subseteq opened' /\ disk' = disk /\ (OneLayout' => OneLayout)
<1>1. opened \subseteq opened' /\ disk' = disk
  BY Calls DEF Quiet, Failed, Renamed, OpenUnknown, OpenAscii, OpenNetcdf, OpenCommon,
     CloseFile, ReadAsciiRecord, ReadAsciiCrash, ReadingAscii, ReadNetcdfRecord,
     ReadNetcdfCrash, ReadingNetcdf, Reading, Running, SetCurrentSnap
<1> QED BY <1>1 DEF OneLayout

LEMMA NetcdfHeaderKept ==
  ASSUME TypeOK, Session, FirstIds, FirstIds', NetcdfHeader, [Call]_vars
  PROVE  NetcdfHeader'
<1> SUFFICES ASSUME OneLayout', open', ret' # "crash", Sound(D')
             PROVE  /\ times' = D'.snaps
                    /\ numSnaps' = D'.snaps
                    /\ meta'.max = D'.max
                    /\ meta'.dim = IF Len(D'.vars) = 1 THEN 1 ELSE D'.dim
                    /\ Begins(varids', D'.vars)
  BY DEF NetcdfHeader
<1>1. ASSUME UNCHANGED <<disk, filename, header>>, open, ret # "crash"
      PROVE  NetcdfHeader'
  <2>1. D' = D
    BY <1>1 DEF D
  <2>2. OneLayout
    BY OpenedGrows
  <2> QED BY <1>1, <2>1, <2>2 DEF header, NetcdfHeader
<1>2. CASE Quiet \/ Failed
  <2>1. UNCHANGED <<disk, filename, header>> /\ open' = open /\ ret # "crash"
    BY <1>2 DEF Quiet, Failed, cursor
  <2>2. open
    BY <2>1
  <2> QED BY <1>1, <2>1, <2>2 DEF NetcdfHeader
<1>3. CASE Renamed
  BY <1>3 DEF Renamed
<1>4. CASE OpenUnknown
  BY <1>4 DEF OpenUnknown
<1>5. CASE OpenAscii
  <2>1. D' = D /\ D.format # "netcdf4"
    BY <1>5 DEF OpenAscii, OpenCommon, Running, AsciiFormats, D
  <2> QED BY <2>1 DEF Sound
<1>6. CASE OpenNetcdf
  <2>1. D' = D /\ disk' = disk /\ filename \in opened'
    BY <1>6 DEF OpenNetcdf, OpenCommon, Running, D
  <2>2. D.format = "netcdf4" /\ D.header = "ok" /\ D.vars # <<>>
    BY <2>1 DEF Sound
  <2>3. /\ numSnaps' = D.snaps /\ times' = D.snaps
        /\ varids' = varids \o D.vars
        /\ meta' = [vector |-> D.vector, max |-> D.max,
                    dim |-> IF Len(D.vars) = 1 THEN 1 ELSE D.dim]
    BY <1>6, <2>2 DEF OpenNetcdf, Abort
  <2>4. varids' # <<>>
    <3>1. varids \in Seq(Nat) /\ D.vars \in Seq(Nat)
      BY FileTyped DEF TypeOK, FileDesc
    <3> QED BY <2>2, <2>3, <3>1, ConcatProperties, EmptySeq, LenProperties
  <2>5. PICK f \in opened' : /\ disk'[f].format = "netcdf4"
                             /\ Begins(varids', disk'[f].vars)
    BY <2>4 DEF FirstIds
  <2>6. disk'[f].vars = D.vars
    BY <2>1, <2>2, <2>5 DEF OneLayout, D
  <2> QED BY <2>1, <2>3, <2>5, <2>6
<1>7. CASE CloseFile
  BY <1>7 DEF CloseFile
<1>8. CASE ReadAsciiRecord
  BY <1>1, <1>8 DEF ReadAsciiRecord, ReadingAscii, Reading, Running, NetcdfHeader
<1>9. CASE ReadAsciiCrash
  BY <1>9 DEF ReadAsciiCrash, Abort
<1>10. ASSUME NEW s \in AnyRequest, ReadNetcdfRecord(s) \/ ReadNetcdfCrash(s) PROVE NetcdfHeader'
  BY <1>1, <1>10 DEF ReadNetcdfRecord, ReadNetcdfCrash, ReadingNetcdf, Reading, Running,
                     Abort, NetcdfHeader
<1>11. ASSUME NEW k \in Cursors, SetCurrentSnap(k) PROVE NetcdfHeader'
  BY <1>1, <1>11 DEF SetCurrentSnap, Running, NetcdfHeader
<1> QED BY <1>2, <1>3, <1>4, <1>5, <1>6, <1>7, <1>8, <1>9, <1>10, <1>11, Calls
        DEF NetcdfHeader

-----------------------------------------------------------------------------
(* The records. *)

(* A part of a sequence is as long as it says and shows the sequence. *)
LEMMA PartOf ==
  ASSUME NEW S, NEW s \in Seq(S), NEW m \in Nat, NEW n \in Nat,
         1 <= m, m <= n + 1, n <= Len(s)
  PROVE  /\ SubSeq(s, m, n) \in Seq(S)
         /\ Len(SubSeq(s, m, n)) = n - m + 1
         /\ \A j \in 1..(n - m + 1) : SubSeq(s, m, n)[j] = s[m + j - 1]
<1>1. Len(s) \in Nat /\ DOMAIN s = 1..Len(s)
  BY LenProperties
<1>2. \A j \in m..n : j \in 1..Len(s)
  BY <1>1
<1>3. \A j \in m..n : s[j] \in S
  BY <1>2, ElementOfSeq
<1>4. m \in Int /\ n \in Int
  OBVIOUS
<1>5. (IF m <= n THEN n - m + 1 ELSE 0) = n - m + 1
  OBVIOUS
<1> QED BY <1>3, <1>4, <1>5, SubSeqProperties

(* What removing an element leaves was there before. *)
LEMMA RemoveAtElements ==
  ASSUME NEW S, NEW s \in Seq(S), NEW p \in DOMAIN s, NEW i \in DOMAIN RemoveAt(s, p)
  PROVE  \E j \in DOMAIN s : RemoveAt(s, p)[i] = s[j]
<1>1. DOMAIN s = 1..Len(s) /\ Len(s) \in Nat
  BY LenProperties
<1>2. i \in 1..(Len(s) - 1)
  BY RemoveAtType, LenProperties
<1>3. PICK a : a = SubSeq(s, 1, p - 1)
  OBVIOUS
<1>4. PICK b : b = SubSeq(s, p + 1, Len(s))
  OBVIOUS
<1>5. RemoveAt(s, p) = a \o b
  BY <1>3, <1>4 DEF RemoveAt
<1>6. a \in Seq(S) /\ Len(a) = p - 1 /\ \A j \in 1..(p - 1) : a[j] = s[j]
  <2>1. p - 1 \in Nat /\ 1 <= (p - 1) + 1 /\ p - 1 <= Len(s) /\ 1 \in Nat /\ 1 <= 1
    BY <1>1
  <2>2. a \in Seq(S) /\ Len(a) = (p - 1) - 1 + 1
        /\ \A j \in 1..((p - 1) - 1 + 1) : a[j] = s[1 + j - 1]
    BY <1>3, <2>1, PartOf
  <2> QED BY <1>1, <2>2
<1>7. b \in Seq(S) /\ Len(b) = Len(s) - p /\ \A j \in 1..(Len(s) - p) : b[j] = s[p + j]
  <2>1. p + 1 \in Nat /\ 1 <= p + 1 /\ p + 1 <= Len(s) + 1 /\ Len(s) <= Len(s)
    BY <1>1
  <2>2. b \in Seq(S) /\ Len(b) = Len(s) - (p + 1) + 1
        /\ \A j \in 1..(Len(s) - (p + 1) + 1) : b[j] = s[(p + 1) + j - 1]
    BY <1>1, <1>4, <2>1, PartOf
  <2>3. Len(s) - (p + 1) + 1 = Len(s) - p
    BY <1>1
  <2>4. \A j \in 1..(Len(s) - p) : (p + 1) + j - 1 = p + j
    BY <1>1
  <2> QED BY <2>2, <2>3, <2>4, Zenon
<1>8. (a \o b)[i] = IF i <= p - 1 THEN a[i] ELSE b[i - (p - 1)]
  <2>1. i \in 1..(Len(a) + Len(b))
    BY <1>1, <1>2, <1>6, <1>7
  <2>2. (a \o b)[i] = IF i <= Len(a) THEN a[i] ELSE b[i - Len(a)]
    BY <1>6, <1>7, <2>1, ConcatProperties
  <2> QED BY <1>6, <2>2
<1>9. CASE i <= p - 1
  <2>1. i \in 1..(p - 1) /\ i \in 1..Len(s)
    BY <1>1, <1>2, <1>9
  <2>2. (a \o b)[i] = s[i]
    BY <1>6, <1>8, <1>9, <2>1
  <2> QED BY <1>1, <1>5, <2>1, <2>2
<1>10. CASE ~(i <= p - 1)
  <2>1. /\ i - (p - 1) \in 1..(Len(s) - p)
        /\ p + (i - (p - 1)) = i + 1 /\ i + 1 \in 1..Len(s)
    BY <1>1, <1>2, <1>10
  <2>2. b[i - (p - 1)] = s[p + (i - (p - 1))]
    BY <1>7, <2>1
  <2>3. (a \o b)[i] = s[i + 1]
    BY <1>8, <1>10, <2>1, <2>2
  <2> QED BY <1>1, <1>5, <2>1, <2>3
<1> QED BY <1>9, <1>10

(* A completely read record of a file was there before, or a read has just *)
(* put it at the end.                                                      *)
LEMMA RecordSteps ==
  ASSUME TypeOK, [Call]_vars, NEW i \in DOMAIN records',
         records'[i].whole, records'[i].holds.file \in Files
  PROVE  \/ \E j \in DOMAIN records : records'[i] = records[j]
         \/ i = Len(records) + 1 /\ ReadAsciiRecord
         \/ i = Len(records) + 1 /\ \E s \in AnyRequest : ReadNetcdfRecord(s)
<1>1. ASSUME NEW r \in OutputRecord, records' = Append(records, r)
      PROVE  \/ \E j \in DOMAIN records : records'[i] = records[j]
             \/ i = Len(records) + 1 /\ records'[i] = r
  BY <1>1, PushedRecord
<1>2. CASE UNCHANGED records
  BY <1>2
<1>3. CASE OpenCall \/ CloseCall
  BY <1>2, <1>3 DEF OpenCall, OpenRefused, OpenUnknown, OpenAscii, OpenNetcdf, OpenCommon,
                    CloseCall, CloseRefused, CloseFile, store
<1>4. ASSUME NEW s \in AnyRequest, ReadCall(s)
      PROVE  \/ \E j \in DOMAIN records : records'[i] = records[j]
             \/ i = Len(records) + 1 /\ (ReadAsciiRecord \/ ReadNetcdfRecord(s))
  <2>1. CASE ReadUnknown \/ ReadAsciiPastLast \/ ReadNetcdfPastLast(s)
    BY <1>2, <2>1 DEF ReadUnknown, ReadAsciiPastLast, ReadNetcdfPastLast, store
  <2>2. CASE ReadAsciiRecord \/ ReadNetcdfRecord(s)
    <3>1. \E k \in Nat, h \in Content : Keep(k, h)
      BY <2>2, AsciiReadKeeps, NetcdfReadKeeps, WantedTyped DEF TypeOK
    <3>2. PICK k \in Nat, h \in Content : records' = Append(records, NewRecord(k, h, TRUE))
      BY <3>1 DEF Keep
    <3>3. NewRecord(k, h, TRUE) \in OutputRecord
      BY NewRecordTyped
    <3> QED BY <1>1, <2>2, <3>2, <3>3
  <2>3. CASE \/ ReadAsciiNoHeader \/ ReadAsciiBadValue \/ ReadAsciiCrash
             \/ ReadNetcdfError(s) \/ ReadNetcdfCrash(s)
    <3>1. \E k \in Nat : records' = Append(records, NewRecord(k, Nothing(filename), FALSE))
      BY <2>3, WantedTyped DEF ReadAsciiNoHeader, ReadAsciiBadValue, ReadAsciiCrash,
         ReadNetcdfError, ReadNetcdfCrash, Orphan, TypeOK
    <3>2. PICK k \in Nat : records' = Append(records, NewRecord(k, Nothing(filename), FALSE))
      BY <3>1
    <3>3. Nothing(filename) \in Content
      BY NothingTyped DEF TypeOK
    <3>4. /\ NewRecord(k, Nothing(filename), FALSE) \in OutputRecord
          /\ ~NewRecord(k, Nothing(filename), FALSE).whole
      BY <3>3, NewRecordTyped
    <3> QED BY <1>1, <3>2, <3>4
  <2> QED BY <1>4, <2>1, <2>2, <2>3 DEF ReadCall
<1>5. CASE \E f \in Files : SetFilename(f)
  BY <1>2, <1>5 DEF SetFilename, store
<1>6. ASSUME NEW k \in UserIds, AddRecord(k)
      PROVE  \E j \in DOMAIN records : records'[i] = records[j]
  <2>1. Nothing(Nobody) \in Content /\ k \in Nat
    BY NothingTyped, ReaderAssumption
  <2>2. /\ NewRecord(k, Nothing(Nobody), TRUE) \in OutputRecord
        /\ NewRecord(k, Nothing(Nobody), TRUE).holds = Nothing(Nobody)
    BY <2>1, NewRecordTyped
  <2>3. Nothing(Nobody).file = Nobody /\ Nobody \notin Files
    BY ReaderAssumption DEF Nothing
  <2>4. records' = Append(records, NewRecord(k, Nothing(Nobody), TRUE))
    BY <1>6 DEF AddRecord
  <2> QED BY <1>1, <2>2, <2>3, <2>4
<1>7. CASE Clear
  BY <1>7, EmptySeq, LenProperties DEF Clear
<1>8. ASSUME NEW p \in Nat, ClearAt(p)
      PROVE  \E j \in DOMAIN records : records'[i] = records[j]
  <2>1. CASE p \in DOMAIN records
    BY <1>8, <2>1, RemoveAtElements DEF ClearAt, TypeOK
  <2>2. CASE p \notin DOMAIN records
    BY <1>2, <1>8, <2>2 DEF ClearAt, store
  <2> QED BY <2>1, <2>2
<1>9. CASE \E k \in Cursors : SetCurrentSnap(k)
  BY <1>2, <1>9 DEF SetCurrentSnap, store
<1>10. CASE UNCHANGED vars
  BY <1>2, <1>10 DEF vars, store
<1> QED BY <1>3, <1>4, <1>5, <1>6, <1>7, <1>8, <1>9, <1>10 DEF Call

(* A netCDF record is the slab of its number, through the variables of the *)
(* file that is open.                                                      *)
LEMMA NetcdfRead ==
  ASSUME Written(D), TypeOK, Session, NetcdfHeader, OneLayout,
         NEW s \in AnyRequest, ReadNetcdfRecord(s), Sound(D), D.dim < 3
  PROVE  \E k \in Nat \cup {Garbled} :
           /\ Keep(Wanted(s), [file |-> filename, vars |-> D.vars, snap |-> k])
           /\ k = Wanted(s) \/ (k = Garbled /\ D.max /\ Wanted(s) = D.snaps)
<1> DEFINE k == Wanted(s)
<1>1. k \in Nat
  BY WantedTyped
<1>2. /\ times = D.snaps /\ numSnaps = D.snaps /\ meta.max = D.max
      /\ meta.dim = IF Len(D.vars) = 1 THEN 1 ELSE D.dim
      /\ Begins(varids, D.vars)
  BY DEF ReadNetcdfRecord, ReadingNetcdf, Reading, Running, InFile, Session, NetcdfHeader
<1>3. D \in FileDesc /\ WrittenNetcdf(D)
  BY FileTyped DEF Written, Sound, NetcdfFormats
<1>4. /\ D.vars \in Seq(Nat) /\ Len(D.vars) \in Nat /\ DOMAIN D.vars = 1..Len(D.vars)
      /\ D.lines \in Seq(Line) /\ DOMAIN D.lines = 1..Len(D.lines)
      /\ D.snaps \in Nat /\ D.dim \in 0..3
      /\ varids \in Seq(Nat) /\ Len(varids) \in Nat
  BY <1>3, LenProperties DEF FileDesc, TypeOK
<1>5. Len(D.vars) = D.dim /\ D.dim \in {1, 2}
  <2>1. Len(D.vars) = D.dim
    BY <1>3 DEF WrittenNetcdf, Sound
  <2>2. Len(D.vars) # 0
    BY <1>4, EmptySeq DEF Sound
  <2> QED BY <1>4, <2>1, <2>2
<1>6. Components = IF D.dim = 1 THEN <<1>> ELSE <<1, 2>>
  BY <1>2, <1>5 DEF Components
<1>7. DOMAIN Components = 1..D.dim /\ \A i \in 1..D.dim : Components[i] = i
  <2>1. CASE D.dim = 1
    <3>1. Components = <<1>>
      BY <1>6, <2>1
    <3> QED BY <2>1, <3>1
  <2>2. CASE D.dim = 2
    <3>1. Components = <<1, 2>>
      BY <1>6, <2>2
    <3> QED BY <2>2, <3>1
  <2> QED BY <1>5, <2>1, <2>2
<1>8. Present /\ VarsRead = D.vars
  <2>1. \A i \in 1..D.dim : varids[i] = D.vars[i]
    BY <1>2, <1>5 DEF Begins
  <2>2. Present
    BY <1>2, <1>4, <1>5, <1>7 DEF Present, Begins
  <2>3. VarsRead = [i \in 1..D.dim |-> D.vars[i]]
    BY <1>7, <2>1 DEF VarsRead
  <2>4. D.vars = [i \in 1..D.dim |-> D.vars[i]]
    BY <1>4, <1>5
  <2> QED BY <2>2, <2>3, <2>4
<1>9. k < D.snaps => Slab(k) = k
  <2> SUFFICES ASSUME k < D.snaps PROVE Slab(k) = k
    OBVIOUS
  <2>1. /\ Len(D.lines) = D.snaps /\ \A i \in 1..D.snaps : D.lines[i].snap = i - 1
        /\ D.max => D.snaps <= 1
    BY <1>3, <1>4 DEF WrittenNetcdf
  <2>2. CASE meta.max
    <3>1. k = 0 /\ 1 \in 1..D.snaps
      BY <1>1, <1>2, <1>4, <2>1, <2>2
    <3> QED BY <1>4, <2>1, <2>2, <3>1 DEF Slab
  <2>3. CASE ~meta.max
    <3>1. k + 1 \in 1..D.snaps /\ (k + 1) - 1 = k
      BY <1>1, <1>4
    <3> QED BY <1>4, <2>1, <2>3, <3>1 DEF Slab
  <2> QED BY <2>2, <2>3
<1>10. k < D.snaps \/ (D.max /\ k = D.snaps)
  <2>1. k <= numSnaps /\ (meta.max \/ k < D.snaps)
    BY DEF ReadNetcdfRecord, ReadingNetcdf, InFile
  <2> QED BY <1>1, <1>2, <1>4, <2>1
<1>11. Keep(k, [file |-> filename, vars |-> D.vars,
                snap |-> IF k < D.snaps THEN Slab(k) ELSE Garbled])
  BY <1>2, <1>8 DEF ReadNetcdfRecord
<1> HIDE DEF k
<1>12. CASE k < D.snaps
  <2>1. Keep(k, [file |-> filename, vars |-> D.vars, snap |-> k])
    BY <1>9, <1>11, <1>12
  <2> QED BY <1>1, <2>1 DEF k
<1>13. CASE ~(k < D.snaps)
  <2>1. Keep(k, [file |-> filename, vars |-> D.vars, snap |-> Garbled])
    BY <1>11, <1>13
  <2> QED BY <1>10, <1>13, <2>1 DEF k
<1> QED BY <1>12, <1>13

(* The record a Keep leaves at the end of the vector. *)
LEMMA KeptRecord ==
  ASSUME TypeOK, NEW k \in Nat, NEW h \in Content, Keep(k, h)
  PROVE  LET r == records'[Len(records) + 1] IN r.id = k /\ r.holds = h
<1>1. /\ NewRecord(k, h, TRUE) \in OutputRecord
      /\ NewRecord(k, h, TRUE).id = k
      /\ NewRecord(k, h, TRUE).holds = h
  BY NewRecordTyped
<1>2. records' = Append(records, NewRecord(k, h, TRUE))
  BY DEF Keep
<1> QED BY <1>1, <1>2, PushedRecord

LEMMA AsciiFaithfulKept ==
  ASSUME Written(D), TypeOK, Session, Stream, AsciiFaithful, [Call]_vars
  PROVE  AsciiFaithful'
<1>1. disturbed => disturbed'
  BY Calls DEF Quiet, Failed, Renamed, OpenUnknown, OpenAscii, OpenNetcdf, CloseFile,
     ReadAsciiRecord, ReadAsciiCrash, ReadNetcdfRecord, ReadNetcdfCrash, Keep, Return,
     Throw, Abort, SetCurrentSnap
<1>2. disk' = disk
  BY OpenedGrows
<1> SUFFICES ASSUME ~disturbed, NEW i \in DOMAIN records', records'[i].whole,
                    records'[i].holds.file \in Files,
                    disk[records'[i].holds.file].format \in AsciiFormats,
                    HeadersWhole(disk[records'[i].holds.file])
             PROVE  \/ records'[i].holds.snap = records'[i].id
                    \/ records'[i].holds.snap = Garbled /\ disk[records'[i].holds.file].cut
  BY <1>1, <1>2 DEF AsciiFaithful
<1>3. CASE \E j \in DOMAIN records : records'[i] = records[j]
  BY <1>3 DEF AsciiFaithful
<1>4. CASE i = Len(records) + 1 /\ ReadAsciiRecord
  <2>5. PICK h \in Content : h.file = filename /\ Keep(currentSnap, h)
    BY <1>4, AsciiReadKeeps
  <2>6. records'[i].holds.file = filename
    BY <1>4, <2>5, KeptRecord DEF TypeOK
  <2>7. ~PassedStump /\ D.lines[Top].kind # "stump"
    BY <1>4, <2>6, StumpBehind DEF HeadersWhole, PassedStump, D
  <2>1. PICK k \in {currentSnap, Garbled} :
          /\ k = Garbled => D.cut
          /\ Keep(currentSnap, [file |-> filename, snap |-> k, vars |-> <<>>])
    BY <1>4, <2>7, StraightRead
  <2> DEFINE g == [file |-> filename, snap |-> k, vars |-> <<>>]
  <2>2. g \in Content /\ currentSnap \in Nat
    <3>1. <<>> \in Seq(Nat)
      BY EmptySeq
    <3> QED BY <3>1 DEF Content, TypeOK
  <2>3. records'[i].id = currentSnap /\ records'[i].holds = g
    BY <1>4, <2>1, <2>2, KeptRecord
  <2> QED BY <2>1, <2>3 DEF D
<1>5. ASSUME i = Len(records) + 1, NEW s \in AnyRequest, ReadNetcdfRecord(s) PROVE FALSE
  <2>1. D.format \in NetcdfFormats
    BY <1>5 DEF ReadNetcdfRecord, ReadingNetcdf, InFile, Session
  <2>2. PICK h \in Content : h.file = filename /\ Keep(Wanted(s), h)
    BY <1>5, NetcdfReadKeeps
  <2>3. records'[i].holds.file = filename
    BY <1>5, <2>2, KeptRecord, WantedTyped
  <2> QED BY <2>1, <2>3 DEF D, AsciiFormats, NetcdfFormats
<1> QED BY <1>3, <1>4, <1>5, RecordSteps

LEMMA NetcdfFaithfulKept ==
  ASSUME Written(D), TypeOK, Session, NetcdfHeader, NetcdfFaithful, [Call]_vars
  PROVE  NetcdfFaithful'
<1>1. disk' = disk /\ (OneLayout' => OneLayout)
  BY OpenedGrows
<1> SUFFICES ASSUME OneLayout, NEW i \in DOMAIN records', records'[i].whole,
                    records'[i].holds.file \in Files,
                    Sound(disk[records'[i].holds.file]), disk[records'[i].holds.file].dim < 3
             PROVE  LET r == records'[i]
                        f == disk[records'[i].holds.file]
                    IN  /\ \/ r.holds.snap = r.id
                           \/ r.holds.snap = Garbled /\ f.max /\ r.id = f.snaps
                        /\ r.holds.vars = f.vars
  BY <1>1 DEF NetcdfFaithful, Sound
<1>2. CASE \E j \in DOMAIN records : records'[i] = records[j]
  BY <1>2 DEF NetcdfFaithful, Sound
<1>3. CASE i = Len(records) + 1 /\ ReadAsciiRecord
  <2>1. D.format \in AsciiFormats
    BY <1>3 DEF ReadAsciiRecord, ReadingAscii, AtRecord, Session
  <2>2. PICK h \in Content : h.file = filename /\ Keep(currentSnap, h)
    BY <1>3, AsciiReadKeeps
  <2>3. records'[i].holds.file = filename
    BY <1>3, <2>2, KeptRecord DEF TypeOK
  <2> QED BY <2>1, <2>3 DEF D, Sound, AsciiFormats
<1>4. ASSUME i = Len(records) + 1, NEW s \in AnyRequest, ReadNetcdfRecord(s)
      PROVE  LET r == records'[i]
                 f == disk[records'[i].holds.file]
             IN  /\ \/ r.holds.snap = r.id
                    \/ r.holds.snap = Garbled /\ f.max /\ r.id = f.snaps
                 /\ r.holds.vars = f.vars
  <2>1. PICK h \in Content : h.file = filename /\ Keep(Wanted(s), h)
    BY <1>4, NetcdfReadKeeps
  <2>2. records'[i].holds.file = filename
    BY <1>4, <2>1, KeptRecord, WantedTyped
  <2>3. Sound(D) /\ D.dim < 3 /\ disk[records'[i].holds.file] = D
    BY <2>2 DEF D
  <2>4. PICK k \in Nat \cup {Garbled} :
          /\ Keep(Wanted(s), [file |-> filename, vars |-> D.vars, snap |-> k])
          /\ k = Wanted(s) \/ (k = Garbled /\ D.max /\ Wanted(s) = D.snaps)
    BY <1>4, <2>3, NetcdfRead
  <2> DEFINE g == [file |-> filename, vars |-> D.vars, snap |-> k]
  <2>5. g \in Content
    BY FileTyped DEF FileDesc, Content, TypeOK
  <2>6. records'[i].id = Wanted(s) /\ records'[i].holds = g
    BY <1>4, <2>4, <2>5, KeptRecord, WantedTyped
  <2> QED BY <2>3, <2>4, <2>6
<1> QED BY <1>2, <1>3, <1>4, RecordSteps

(* The variables read from an open maximum file are its own, as long as the  *)
(* files opened share theirs.                                                *)
LEMMA MaximumOwn ==
  ASSUME Written(D), TypeOK, OneLayout, NetcdfHeader, Sound(D), open, ret # "crash", meta.max
  PROVE  OwnFields
<1>1. /\ meta.dim = IF Len(D.vars) = 1 THEN 1 ELSE D.dim
      /\ Begins(varids, D.vars)
  BY DEF NetcdfHeader
<1>2. D \in FileDesc /\ WrittenNetcdf(D)
  BY FileTyped DEF Written, Sound, NetcdfFormats
<1>3. /\ D.vars \in Seq(Nat) /\ Len(D.vars) \in Nat /\ DOMAIN D.vars = 1..Len(D.vars)
      /\ D.dim \in 0..3 /\ Len(varids) \in Nat
  BY <1>2, LenProperties DEF FileDesc, TypeOK
<1>4. Len(D.vars) # 0
  BY <1>3, EmptySeq DEF Sound
<1>5. /\ D.dim < 3 => Len(D.vars) = D.dim
      /\ \A i \in 1..Len(D.vars) : D.vars[i] \in D.fields
  BY <1>2, <1>3 DEF WrittenNetcdf, Sound
<1>6. \A i \in 1..Len(D.vars) : i <= Len(varids) /\ varids[i] \in D.fields
  BY <1>1, <1>3, <1>5 DEF Begins
<1>7. CASE meta.dim = 1
  <2>1. Components = <<1>>
    BY <1>7 DEF Components
  <2>2. 1 \in 1..Len(D.vars)
    BY <1>3, <1>4
  <2> QED BY <1>6, <2>1, <2>2 DEF OwnFields, Present
<1>8. CASE meta.dim = 2
  <2>1. Components = <<1, 2>>
    BY <1>8 DEF Components
  <2>2. 1 \in 1..Len(D.vars) /\ 2 \in 1..Len(D.vars)
    BY <1>1, <1>3, <1>5, <1>8
  <2> QED BY <1>6, <2>1, <2>2 DEF OwnFields, Present
<1>9. CASE meta.dim \notin {1, 2}
  <2>1. Components = <<>>
    BY <1>9 DEF Components
  <2> QED BY <2>1 DEF OwnFields, Present
<1> QED BY <1>7, <1>8, <1>9

LEMMA CrashExplainedKept ==
  ASSUME Written(D), TypeOK, Session, Stream, NetcdfHeader, CrashExplained, [Call]_vars
  PROVE  CrashExplained'
<1>1. CASE UNCHANGED vars
  BY <1>1 DEF vars, cursor, header, store, CrashExplained, PassedStump, PastLast, OneLayout, D
<1>2. CASE Call /\ Quiet
  <2>1. ret # "crash"
    BY <1>2, CallRuns
  <2> QED BY <1>2, <2>1 DEF Quiet, CrashExplained
<1>3. CASE Failed \/ Renamed \/ OpenUnknown \/ OpenAscii \/ CloseFile \/ ReadAsciiRecord
  BY <1>3 DEF Failed, Renamed, OpenUnknown, OpenAscii, CloseFile, ReadAsciiRecord, Keep,
              Throw, Return, CrashExplained
<1>4. CASE OpenNetcdf
  <2>1. D' = D /\ open'
    BY <1>4 DEF OpenNetcdf, OpenCommon, Running, D
  <2>2. ret' = "crash" => D.snaps = 0
    BY <1>4 DEF OpenNetcdf, Throw, Return
  <2> QED BY <2>1, <2>2 DEF CrashExplained
<1>5. CASE ReadAsciiCrash
  BY <1>5, OverrunExplained DEF CrashExplained
<1>6. ASSUME NEW s \in AnyRequest, ReadNetcdfRecord(s) \/ ReadNetcdfCrash(s)
      PROVE  CrashExplained'
  <2>1. CASE ReadNetcdfRecord(s)
    BY <2>1 DEF ReadNetcdfRecord, Keep, Return, CrashExplained
  <2>2. CASE ReadNetcdfCrash(s)
    <3>1. /\ ret # "crash" /\ filetype \in NetcdfFormats
          /\ UNCHANGED <<disk, filename, open, filetype, handle, times, opened, disturbed>>
      BY <2>2 DEF ReadNetcdfCrash, ReadingNetcdf, Reading, Running, Abort, header
    <3>2. CASE Wanted(s) >= times
      <4>1. Wanted(s) \in Nat /\ Nothing(filename) \in Content
        BY WantedTyped, NothingTyped DEF TypeOK
      <4> DEFINE r == NewRecord(Wanted(s), Nothing(filename), FALSE)
      <4>2. r \in OutputRecord /\ r.id = Wanted(s)
        BY <4>1, NewRecordTyped
      <4>3. records' = Append(records, r)
        BY <2>2 DEF ReadNetcdfCrash
      <4>4. records' # <<>> /\ Last(records') = r
        <5> HIDE DEF r
        <5>1. records \in Seq(OutputRecord)
          BY DEF TypeOK
        <5>2. Len(records') = Len(records) + 1 /\ records'[Len(records) + 1] = r
          BY <4>2, <4>3, <5>1, AppendProperties
        <5> QED BY <4>2, <4>3, <5>1, <5>2, AppendProperties, EmptySeq, LenProperties DEF Last
      <4> QED BY <3>1, <3>2, <4>2, <4>4 DEF PastLast, CrashExplained
    <3>3. CASE varids = <<>>
      BY <3>1, <3>3 DEF Session, CrashExplained
    <3>4. CASE handle # Closed /\ meta.max /\ ~OwnFields
      <4>1. OneLayout' = OneLayout
        BY <3>1 DEF OneLayout
      <4>2. ~disturbed => open /\ Sound(D)
        BY <3>1, <3>4 DEF Session
      <4>3. disturbed \/ ~OneLayout
        BY <3>1, <3>4, <4>2, MaximumOwn
      <4> QED BY <3>1, <4>1, <4>3 DEF CrashExplained
    <3> QED BY <2>2, <3>2, <3>3, <3>4 DEF ReadNetcdfCrash
  <2> QED BY <1>6, <2>1, <2>2
<1>7. CASE \E k \in Cursors : SetCurrentSnap(k)
  BY <1>7 DEF SetCurrentSnap, CrashExplained
<1> QED BY <1>1, <1>2, <1>3, <1>4, <1>5, <1>6, <1>7, Calls

LEMMA AgreeKept ==
  ASSUME FilesWritten, TypeOK, Agree, [Call]_vars
  PROVE  Agree'
<1>1. Written(D) /\ disk' \in Disks
  BY OpenWritten, OpenedGrows DEF Agree
<1> QED BY <1>1, SessionKept, StreamKept, FirstIdsKept, NetcdfHeaderKept DEF Agree

(* The object, the stream below it and the file agree, in every reachable state. *)
THEOREM Agreement ==
  ASSUME FilesWritten PROVE Spec => []Agree
<1>1. Init => Agree
  BY DEF Init, Constructed, Agree, Session, Stream, FirstIds, NetcdfHeader, NetcdfFormats
<1>2. TypeOK /\ Agree /\ [Next]_vars => Agree'
  BY AgreeKept, NextIsCall
<1> QED BY <1>1, <1>2, TypeCorrect, PTL DEF Spec

(* On the straight path an ASCII record carries the number of the snap it   *)
(* holds: a record is never labelled with its neighbour's number, but for   *)
(* the last line of a file cut inside it, whatever the files, as long as    *)
(* each was written record after record.                                    *)
THEOREM AsciiFaithfulAlways ==
  ASSUME FilesWritten PROVE Spec => []AsciiFaithful
<1>1. Init => AsciiFaithful
  BY DEF Init, Constructed, AsciiFaithful
<1>2. TypeOK /\ Agree /\ AsciiFaithful /\ [Next]_vars => AsciiFaithful'
  BY AsciiFaithfulKept, OpenWritten, NextIsCall DEF Agree
<1> QED BY <1>1, <1>2, TypeCorrect, Agreement, PTL DEF Spec

(* A netCDF record holds the slab of its number and the variables of its own *)
(* file, after any history of sessions, failures and random reads, as long   *)
(* as the netCDF files opened so far share their variable ids.               *)
THEOREM NetcdfFaithfulAlways ==
  ASSUME FilesWritten PROVE Spec => []NetcdfFaithful
<1>1. Init => NetcdfFaithful
  BY DEF Init, Constructed, NetcdfFaithful
<1>2. TypeOK /\ Agree /\ NetcdfFaithful /\ [Next]_vars => NetcdfFaithful'
  BY NetcdfFaithfulKept, OpenWritten, NextIsCall DEF Agree
<1> QED BY <1>1, <1>2, TypeCorrect, Agreement, PTL DEF Spec

(* The process dies in a reader only when its owner went on after an error  *)
(* or moved the cursor, opened a netCDF file without a time record, came    *)
(* past a header that had lost tokens, asked for the snap behind the last,  *)
(* or opened netCDF files of different variables.                           *)
THEOREM CrashExplainedAlways ==
  ASSUME FilesWritten PROVE Spec => []CrashExplained
<1>1. Init => CrashExplained
  BY DEF Init, Constructed, CrashExplained
<1>2. TypeOK /\ Agree /\ CrashExplained /\ [Next]_vars => CrashExplained'
  BY CrashExplainedKept, OpenWritten, NextIsCall DEF Agree
<1> QED BY <1>1, <1>2, TypeCorrect, Agreement, PTL DEF Spec
=============================================================================
