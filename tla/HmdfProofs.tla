------------------------------ MODULE HmdfProofs ------------------------------
(***************************************************************************)
(* What a list of stations and its files keep to for all dates, values,    *)
(* names and bounds and every order of calls.                              *)
(*                                                                         *)
(* A call leaves a list of stations, each as long in its three vectors as  *)
(* in one, and null, unless the history says otherwise; a file says of the *)
(* stations it was written from what its kind holds of them.               *)
(***************************************************************************)
EXTENDS Hmdf, SequenceTheorems, WellFoundedInduction, TLAPS

-----------------------------------------------------------------------------
(* Numbers and sequences. *)

(* First(S) is the least element of a set of positions. *)
LEMMA FirstIs ==
  ASSUME NEW S \in SUBSET Nat, S # {}
  PROVE  First(S) \in S /\ \A i \in S : First(S) <= i
<1> DEFINE R == OpToRel(<, Nat)
<1>1. IsWellFoundedOn(R, Nat)
  BY NatLessThanWellFounded
<1> HIDE DEF R
<1>2. PICK i \in S : \A j \in S : <<j, i>> \notin R
  BY <1>1, WFMin
<1>3. ASSUME NEW j \in S, j < i PROVE FALSE
  <2>1. <<j, i>> \in R
    BY <1>3 DEF R, OpToRel
  <2> QED BY <1>2, <2>1
<1>4. \E k \in S : \A j \in S : k <= j
  BY <1>3
<1> QED BY <1>4 DEF First

LEMMA IsVector ==
  ASSUME NEW S, NEW n \in Nat, NEW s \in [1..n -> S]
  PROVE  s \in Seq(S) /\ Len(s) = n /\ DOMAIN s = 1..n
<1>1. s \in Seq(S)
  BY SeqDef
<1> QED BY <1>1, LenProperties

(* What a sequence over another's positions is. *)
LEMMA Appended ==
  ASSUME NEW S, NEW s \in Seq(S), NEW x \in S
  PROVE  Append(s, x) \in Seq(S) /\ Len(Append(s, x)) = Len(s) + 1
  OBVIOUS

(* The head of a concatenation. *)
LEMMA HeadOfConcat ==
  ASSUME NEW S, NEW s \in Seq(S), NEW t \in Seq(S)
  PROVE  SubSeq(s \o t, 1, Len(s)) = s
<1>1. /\ s \o t \in Seq(S) /\ Len(s \o t) = Len(s) + Len(t)
      /\ \A i \in 1..Len(s) + Len(t) : (s \o t)[i] = IF i <= Len(s) THEN s[i] ELSE t[i - Len(s)]
  BY ConcatProperties
<1>2. Len(s) \in Nat /\ Len(t) \in Nat
  BY LenProperties
<1>3. \A i \in 1..Len(s) : (s \o t)[i] = s[i] /\ s[i] \in S
  BY <1>1, <1>2, ElementOfSeq
<1> DEFINE h == SubSeq(s \o t, 1, Len(s))
<1>4. /\ h \in Seq(S)
      /\ Len(h) = IF 1 <= Len(s) THEN Len(s) - 1 + 1 ELSE 0
      /\ \A i \in 1..Len(s) - 1 + 1 : h[i] = (s \o t)[1 + i - 1]
  <2>1. \A i \in 1..Len(s) : (s \o t)[i] \in S
    BY <1>3
  <2> QED BY <1>2, <2>1, SubSeqProperties
<1> HIDE DEF h
<1>5. Len(h) = Len(s) /\ \A i \in 1..Len(h) : h[i] = s[i]
  BY <1>2, <1>3, <1>4
<1>6. h = s
  BY <1>4, <1>5, SeqEqual
<1> QED BY <1>6 DEF h

-----------------------------------------------------------------------------
(* Stations and files by their types. *)

AnyText == Texts \cup {"noname"}
AnyName == [text : AnyText, padded : BOOLEAN]

(* A date that was read is cut to the second, so no date of the caller's. *)
Station == [name : AnyName, id : Nat, date : Seq(Nat), u : Seq(Values), v : Seq(Values),
            vector : BOOLEAN, null : BOOLEAN]
Told == {x \in [name : AnyName, date : Seq(Nat), u : Seq(Values)] : Len(x.date) = Len(x.u)}

Kinds == {"none", "imeds", "netcdf", "adcirc"}

(* What a whole file says of the stations it was written from, and that they *)
(* had a date for every value.                                               *)
Says(d) ==
  /\ d.says \in Seq(Told)
  /\ d.whole =>
       /\ Len(d.says) = Len(d.of)
       /\ \A i \in 1..Len(d.of) :
            /\ Dated(d.of[i])
            /\ d.says[i] = Held(d.kind, d.of[i], NamedAs(d.kind, d.of[i].name))

(* A nameless station of a file was one without a name before. *)
Nameless(d) == \A i \in DOMAIN d.says : d.says[i].name = Name(Empty) => \E k \in DOMAIN d.of : d.of[k].name.text = Empty

FileTyped(d) ==
  /\ d.kind \in Kinds /\ d.whole \in BOOLEAN
  /\ d.of \in Seq(Station)
  /\ d.kind \in {"imeds", "netcdf"} => Says(d)
  /\ d.kind = "imeds" => Nameless(d)

(* As many dates and second components as first ones. *)
Even(s) == Len(s.date) = Len(s.u) /\ (s.vector => Len(s.v) = Len(s.u))

(* What the history lets a station be. *)
Good(s, lapses) ==
  /\ s \in Station
  /\ "parted" \notin lapses => Even(s)
  /\ "shown" \notin lapses => s.null

Listed == station \in Seq(Station) /\ \A i \in 1..Len(station) : Good(station[i], did)

TypeOK == vector \in BOOLEAN /\ calls \in Nat /\ Listed /\ FileTyped(disk)

HmdfInv == TypeOK /\ DeathExplainedHmdf /\ AdcircConsistent

LEMMA GoodStays ==
  ASSUME NEW s, NEW d, NEW e, Good(s, d), d \subseteq e
  PROVE  Good(s, e)
  BY DEF Good

(* One station exchanged. *)
LEMMA OneExchanged ==
  ASSUME Listed, NEW i \in DOMAIN station, NEW s, Good(s, did'), did \subseteq did',
         station' = [station EXCEPT ![i] = s]
  PROVE  Listed'
<1>1. /\ station \in Seq(Station) /\ DOMAIN station = 1..Len(station)
      /\ \A k \in 1..Len(station) : Good(station[k], did)
  BY LenProperties DEF Listed
<1>2. s \in Station
  BY DEF Good
<1>3. /\ station' \in Seq(Station)
      /\ Len(station') = Len(station)
      /\ \A k \in 1..Len(station) : station'[k] = IF k = i THEN s ELSE station[k]
  BY <1>1, <1>2, ExceptSeq
<1>4. \A k \in 1..Len(station') : Good(station'[k], did')
  <2> SUFFICES ASSUME NEW k \in 1..Len(station) PROVE Good(station'[k], did')
    BY <1>3
  <2>1. Good(station[k], did')
    BY <1>1, GoodStays
  <2> QED BY <1>3, <2>1
<1> QED BY <1>3, <1>4 DEF Listed

(* More stations at the end. *)
LEMMA MoreListed ==
  ASSUME Listed, NEW more \in Seq(Station), \A i \in 1..Len(more) : Good(more[i], did'),
         did \subseteq did', station' = station \o more
  PROVE  Listed'
<1>1. station \in Seq(Station) /\ \A k \in 1..Len(station) : Good(station[k], did)
  BY DEF Listed
<1>2. /\ station' \in Seq(Station)
      /\ Len(station') = Len(station) + Len(more)
      /\ \A k \in 1..Len(station) + Len(more) :
           station'[k] = IF k <= Len(station) THEN station[k] ELSE more[k - Len(station)]
  BY <1>1, ConcatProperties
<1>3. Len(station) \in Nat /\ Len(more) \in Nat
  BY <1>1, LenProperties
<1>4. ASSUME NEW k \in 1..Len(station')
      PROVE  Good(station'[k], did')
  <2>1. CASE k <= Len(station)
    <3>1. k \in 1..Len(station)
      BY <1>2, <1>3, <2>1
    <3>2. Good(station[k], did')
      BY <1>1, <3>1, GoodStays
    <3> QED BY <1>2, <2>1, <3>2
  <2>2. CASE ~(k <= Len(station))
    <3>1. k - Len(station) \in 1..Len(more)
      BY <1>2, <1>3, <2>2
    <3> QED BY <1>2, <2>2, <3>1
  <2> QED BY <2>1, <2>2
<1> QED BY <1>2, <1>4 DEF Listed

LEMMA EmptyListed ==
  ASSUME station' = <<>>
  PROVE  Listed'
<1>1. station' \in Seq(Station) /\ Len(station') = 0
  BY EmptySeq
<1> QED BY <1>1 DEF Listed

LEMMA BlankIs ==
  ASSUME NEW text \in AnyText, NEW id \in Nat, NEW v \in BOOLEAN, NEW d
  PROVE  Good(Blank(text, id, v), d)
<1>1. <<>> \in Seq(Nat) /\ <<>> \in Seq(Values) /\ Len(<<>>) = 0
  BY EmptySeq
<1> QED BY <1>1 DEF Good, Blank, Station, Even, Name, AnyName

(* What a station says once and for all. *)
LEMMA StationParts ==
  ASSUME NEW s \in Station
  PROVE  /\ s.name \in AnyName /\ s.name.text \in AnyText /\ s.name.padded \in BOOLEAN
         /\ s.date \in Seq(Nat) /\ s.u \in Seq(Values) /\ s.v \in Seq(Values)
         /\ Len(s.date) \in Nat /\ Len(s.u) \in Nat /\ Len(s.v) \in Nat
         /\ DOMAIN s.date = 1..Len(s.date) /\ DOMAIN s.u = 1..Len(s.u) /\ DOMAIN s.v = 1..Len(s.v)
         /\ s.vector \in BOOLEAN /\ s.null \in BOOLEAN
<1>1. s.date \in Seq(Nat) /\ s.u \in Seq(Values) /\ s.v \in Seq(Values)
  BY DEF Station
<1>2. s.name \in AnyName /\ s.vector \in BOOLEAN /\ s.null \in BOOLEAN
  BY DEF Station
<1> QED BY <1>1, <1>2, LenProperties DEF AnyName

LEMMA ListedParts ==
  ASSUME Listed
  PROVE  /\ station \in Seq(Station) /\ Len(station) \in Nat /\ DOMAIN station = 1..Len(station)
         /\ \A i \in 1..Len(station) : station[i] \in Station /\ Good(station[i], did)
  BY LenProperties, ElementOfSeq DEF Listed

-----------------------------------------------------------------------------
(* The calls on one station. *)

Called(i, s) == /\ station' = [station EXCEPT ![i] = s]
                /\ Good(s, did')
                /\ did \subseteq did'
                /\ UNCHANGED <<vector, disk>>
                /\ calls' = calls + 1

LEMMA SetNextKeeps ==
  ASSUME TypeOK, NEW i \in DOMAIN station, NEW d \in Dates, NEW x \in Values, SetNext(i, d, x)
  PROVE  Called(i, Grown(station[i], d, x))
<1> DEFINE s == station[i]
<1>1. s \in Station /\ Good(s, did)
  BY ListedParts DEF TypeOK
<1>2. /\ s.date \in Seq(Nat) /\ s.u \in Seq(Values) /\ s.v \in Seq(Values) /\ s.vector \in BOOLEAN
      /\ Len(s.date) \in Nat /\ Len(s.u) \in Nat /\ Len(s.v) \in Nat
  BY <1>1, StationParts
<1>3. d \in Nat
  BY HmdfAssumption
<1>4. /\ Append(s.date, d) \in Seq(Nat) /\ Len(Append(s.date, d)) = Len(s.date) + 1
      /\ Append(s.u, x) \in Seq(Values) /\ Len(Append(s.u, x)) = Len(s.u) + 1
      /\ Append(s.v, x) \in Seq(Values) /\ Len(Append(s.v, x)) = Len(s.v) + 1
  BY <1>2, <1>3, Appended
<1> DEFINE g == Grown(s, d, x)
<1>5. g = [s EXCEPT !.date = Append(s.date, d), !.u = Append(s.u, x),
                    !.v = IF s.vector THEN Append(s.v, x) ELSE s.v]
  BY DEF Grown
<1>6. g \in Station
  BY <1>1, <1>2, <1>4, <1>5 DEF Station
<1>7. /\ g.date = Append(s.date, d) /\ g.u = Append(s.u, x) /\ g.vector = s.vector /\ g.null = s.null
      /\ g.v = IF s.vector THEN Append(s.v, x) ELSE s.v
  BY <1>1, <1>5 DEF Station
<1>8. Even(s) => Even(g)
  BY <1>2, <1>4, <1>7 DEF Even
<1>9. Good(g, did)
  BY <1>1, <1>6, <1>7, <1>8 DEF Good
<1>10. did' = did /\ station' = [station EXCEPT ![i] = g] /\ UNCHANGED <<vector, disk>> /\ calls' = calls + 1
  BY DEF SetNext, Edit, Become, Call, Counted
<1> HIDE DEF s, g
<1> QED BY <1>9, <1>10 DEF Called, s, g

(* After whole vectors were handed over nothing is said of their lengths. *)
LEMMA PartedGood ==
  ASSUME NEW s \in Station, NEW d, Good(s, d), NEW t \in Station, t.null = s.null
  PROVE  Good(t, d \cup {"parted"})
  BY DEF Good

LEMMA SetDateKeeps ==
  ASSUME TypeOK, NEW i \in DOMAIN station, NEW ds \in Calendars, SetDate(i, ds)
  PROVE  Called(i, [station[i] EXCEPT !.date = ds])
<1> DEFINE s == station[i]
           t == [s EXCEPT !.date = ds]
<1>1. s \in Station /\ Good(s, did)
  BY ListedParts DEF TypeOK
<1>2. ds \in Seq(Nat)
  <2>1. ds \in Seq(Dates) /\ Dates \subseteq Nat
    BY HmdfAssumption
  <2> QED BY <2>1, SeqMonotonic
<1>3. t \in Station /\ t.null = s.null
  BY <1>1, <1>2 DEF Station
<1>4. Good(t, did \cup {"parted"})
  BY <1>1, <1>3, PartedGood
<1>5. /\ station' = [station EXCEPT ![i] = t] /\ did' = did \cup {"parted"}
      /\ UNCHANGED <<vector, disk>> /\ calls' = calls + 1
  BY DEF SetDate, Become, Parting, Counted
<1> HIDE DEF s, t
<1> QED BY <1>4, <1>5 DEF Called, s, t

LEMMA SetDataKeeps ==
  ASSUME TypeOK, NEW i \in DOMAIN station, NEW us \in Series, NEW vs \in Series, SetData(i, us, vs)
  PROVE  Called(i, [station[i] EXCEPT !.u = us, !.v = IF station[i].vector THEN vs ELSE @])
<1> DEFINE s == station[i]
           t == [s EXCEPT !.u = us, !.v = IF s.vector THEN vs ELSE @]
<1>1. s \in Station /\ Good(s, did)
  BY ListedParts DEF TypeOK
<1>2. us \in Seq(Values) /\ vs \in Seq(Values)
  BY HmdfAssumption
<1>3. t \in Station /\ t.null = s.null
  BY <1>1, <1>2 DEF Station
<1>4. Good(t, did \cup {"parted"})
  BY <1>1, <1>3, PartedGood
<1>5. /\ station' = [station EXCEPT ![i] = t] /\ did' = did \cup {"parted"}
      /\ UNCHANGED <<vector, disk>> /\ calls' = calls + 1
  BY DEF SetData, Become, Parting, Counted
<1> HIDE DEF s, t
<1> QED BY <1>4, <1>5 DEF Called, s, t

FloatsOver(us, v) == IF Len(us) <= Len(v) THEN us \o SubSeq(v, Len(us) + 1, Len(v)) ELSE v

LEMMA SetFloatsKeeps ==
  ASSUME TypeOK, NEW i \in DOMAIN station, NEW us \in Series, SetFloats(i, us)
  PROVE  Called(i, [station[i] EXCEPT !.u = us, !.v = FloatsOver(us, station[i].v)])
<1> DEFINE s == station[i]
           t == [s EXCEPT !.u = us, !.v = FloatsOver(us, s.v)]
<1>1. s \in Station /\ Good(s, did) /\ station \in Seq(Station)
  BY ListedParts DEF TypeOK
<1>2. us \in Seq(Values) /\ s.v \in Seq(Values) /\ Len(us) \in Nat /\ Len(s.v) \in Nat
  BY <1>1, HmdfAssumption, StationParts, LenProperties
<1>3. FloatsOver(us, s.v) \in Seq(Values)
  <2>1. \A k \in Len(us) + 1..Len(s.v) : s.v[k] \in Values
    BY <1>2, ElementOfSeq
  <2>2. SubSeq(s.v, Len(us) + 1, Len(s.v)) \in Seq(Values)
    BY <1>2, <2>1, SubSeqProperties
  <2> QED BY <1>2, <2>2, ConcatProperties DEF FloatsOver
<1>4. t \in Station /\ t.null = s.null
  BY <1>1, <1>2, <1>3 DEF Station
<1>5. Good(t, did \cup {"parted"})
  BY <1>1, <1>4, PartedGood
<1>6. /\ did' = did \cup {"parted"}
      /\ UNCHANGED <<vector, disk>> /\ calls' = calls + 1
  BY DEF SetFloats, Parting, Counted
<1>7. station' = [station EXCEPT ![i] = t]
  <2>1. station' = [station EXCEPT ![i].u = us, ![i].v = FloatsOver(us, s.v)]
    BY DEF SetFloats, FloatsOver
  <2>2. DOMAIN station = 1..Len(station)
    BY <1>1, LenProperties
  <2> HIDE DEF FloatsOver
  <2> QED BY <1>1, <2>1, <2>2 DEF Station
<1> HIDE DEF s, t
<1> QED BY <1>5, <1>6, <1>7 DEF Called, s, t

LEMMA SetDataAtKeeps ==
  ASSUME TypeOK, NEW i \in DOMAIN station, NEW j, NEW x \in Values, SetDataAt(i, j, x)
  PROVE  Called(i, [station[i] EXCEPT !.u[j] = x])
<1> DEFINE s == station[i]
           t == [s EXCEPT !.u[j] = x]
<1>1. s \in Station /\ Good(s, did)
  BY ListedParts DEF TypeOK
<1>2. s.u \in Seq(Values) /\ j \in 1..Len(s.u)
  BY <1>1, StationParts DEF SetDataAt
<1>3. [s.u EXCEPT ![j] = x] \in Seq(Values) /\ Len([s.u EXCEPT ![j] = x]) = Len(s.u)
  BY <1>2, ExceptSeq
<1>4. /\ t \in Station /\ t.u = [s.u EXCEPT ![j] = x]
      /\ t.date = s.date /\ t.v = s.v /\ t.null = s.null /\ t.vector = s.vector
  BY <1>1, <1>3 DEF Station
<1>5. Good(t, did)
  BY <1>1, <1>3, <1>4 DEF Good, Even
<1>6. /\ station' = [station EXCEPT ![i] = t] /\ did' = did
      /\ UNCHANGED <<vector, disk>> /\ calls' = calls + 1
  BY DEF SetDataAt, Edit, Become, Call, Counted
<1> HIDE DEF s, t
<1> QED BY <1>5, <1>6 DEF Called, s, t

(* A date set, where there is one; where there is none the vectors have     *)
(* parted before.                                                           *)
LEMMA SetDateAtKeeps ==
  ASSUME TypeOK, NEW i \in DOMAIN station, NEW j, NEW d \in Dates, SetDateAt(i, j, d)
  PROVE  \/ \E s : Called(i, s) /\ fate' = "running"
         \/ "parted" \in did' /\ UNCHANGED <<station, did, vector, disk>> /\ calls' = calls + 1
<1> DEFINE s == station[i]
           t == [s EXCEPT !.date[j] = d]
<1>1. s \in Station /\ Good(s, did) /\ station \in Seq(Station)
  BY ListedParts DEF TypeOK
<1>2. /\ s.date \in Seq(Nat) /\ DOMAIN s.date = 1..Len(s.date) /\ DOMAIN s.u = 1..Len(s.u)
      /\ j \in 1..Len(s.u) /\ d \in Nat
  BY <1>1, StationParts, HmdfAssumption DEF SetDateAt
<1>3. did' = did /\ UNCHANGED <<vector, disk>> /\ calls' = calls + 1
  BY DEF SetDateAt, Call, Counted
<1>4. CASE j \in DOMAIN s.date
  <2>1. [s.date EXCEPT ![j] = d] \in Seq(Nat) /\ Len([s.date EXCEPT ![j] = d]) = Len(s.date)
    BY <1>2, <1>4, ExceptSeq
  <2>2. /\ t \in Station /\ t.date = [s.date EXCEPT ![j] = d]
        /\ t.u = s.u /\ t.v = s.v /\ t.null = s.null /\ t.vector = s.vector
    BY <1>1, <2>1 DEF Station
  <2>3. Good(t, did)
    BY <1>1, <2>1, <2>2 DEF Good, Even
  <2>4. station' = [station EXCEPT ![i] = t] /\ fate' = "running"
    <3>1. station' = [station EXCEPT ![i].date[j] = d] /\ fate' = "running"
      BY <1>4 DEF SetDateAt
    <3>2. DOMAIN station = 1..Len(station)
      BY <1>1, LenProperties
    <3> QED BY <1>1, <3>1, <3>2 DEF Station
  <2> HIDE DEF s, t
  <2>5. Called(i, t)
    BY <1>3, <2>3, <2>4 DEF Called
  <2> QED BY <2>4, <2>5
<1>5. CASE j \notin DOMAIN s.date
  <2>1. UNCHANGED station
    BY <1>5 DEF SetDateAt
  <2>2. "parted" \in did
    BY <1>1, <1>2, <1>5 DEF Good, Even
  <2> QED BY <1>3, <2>1, <2>2
<1> QED BY <1>4, <1>5

LEMMA SetIsNullKeeps ==
  ASSUME TypeOK, NEW i \in DOMAIN station, NEW b \in BOOLEAN, SetIsNull(i, b)
  PROVE  Called(i, [station[i] EXCEPT !.null = b])
<1> DEFINE s == station[i]
           t == [s EXCEPT !.null = b]
<1>1. s \in Station /\ Good(s, did)
  BY ListedParts DEF TypeOK
<1>2. t \in Station /\ t.date = s.date /\ t.u = s.u /\ t.v = s.v /\ t.null = b /\ t.vector = s.vector
  BY <1>1 DEF Station
<1>3. did' = IF b THEN did ELSE did \cup {"shown"}
  BY DEF SetIsNull
<1>4. Good(t, did')
  BY <1>1, <1>2, <1>3 DEF Good, Even
<1>5. /\ station' = [station EXCEPT ![i] = t]
      /\ UNCHANGED <<vector, disk>> /\ calls' = calls + 1
  BY DEF SetIsNull, Become, Counted
<1>6. did \subseteq did'
  BY <1>3
<1> HIDE DEF s, t
<1> QED BY <1>4, <1>5, <1>6 DEF Called, s, t

LEMMA Emptied ==
  ASSUME NEW s \in Station, NEW d, Good(s, d), NEW b \in BOOLEAN
  PROVE  Good([s EXCEPT !.date = <<>>, !.u = <<>>, !.v = <<>>, !.vector = b], d)
<1>1. <<>> \in Seq(Nat) /\ <<>> \in Seq(Values) /\ Len(<<>>) = 0
  BY EmptySeq
<1> QED BY <1>1 DEF Good, Even, Station

LEMMA SetStationVectorKeeps ==
  ASSUME TypeOK, NEW i \in DOMAIN station, NEW b \in BOOLEAN, SetStationVector(i, b)
  PROVE  Called(i, [station[i] EXCEPT !.date = <<>>, !.u = <<>>, !.v = <<>>, !.vector = b])
<1>1. station[i] \in Station /\ Good(station[i], did)
  BY ListedParts DEF TypeOK
<1> DEFINE t == [station[i] EXCEPT !.date = <<>>, !.u = <<>>, !.v = <<>>, !.vector = b]
<1>2. Good(t, did)
  BY <1>1, Emptied
<1>3. /\ station' = [station EXCEPT ![i] = t] /\ did' = did
      /\ UNCHANGED <<vector, disk>> /\ calls' = calls + 1
  BY DEF SetStationVector, Edit, Become, Call, Counted
<1> HIDE DEF t
<1> QED BY <1>2, <1>3 DEF Called, t

LEMMA ClearStationKeeps ==
  ASSUME TypeOK, NEW i \in DOMAIN station, ClearStation(i)
  PROVE  Called(i, [station[i] EXCEPT !.name = Name("noname"), !.id = Noid, !.vector = FALSE, !.null = TRUE])
<1>1. station[i] \in Station /\ Good(station[i], did)
  BY ListedParts DEF TypeOK
<1> DEFINE t == [station[i] EXCEPT !.name = Name("noname"), !.id = Noid, !.vector = FALSE, !.null = TRUE]
<1>2. Good(t, did)
  BY <1>1 DEF Good, Even, Station, Name, AnyName, AnyText, Noid
<1>3. /\ station' = [station EXCEPT ![i] = t] /\ did' = did
      /\ UNCHANGED <<vector, disk>> /\ calls' = calls + 1
  BY DEF ClearStation, Edit, Become, Call, Counted
<1> HIDE DEF t
<1> QED BY <1>2, <1>3 DEF Called, t

LEMMA SetStationKeeps ==
  ASSUME TypeOK, NEW i \in DOMAIN station, NEW text \in Texts, NEW id \in Ids, NEW v \in BOOLEAN,
         SetStation(i, text, id, v)
  PROVE  Called(i, Blank(text, id, v))
<1>1. Good(Blank(text, id, v), did)
  BY BlankIs, HmdfAssumption DEF AnyText
<1>2. /\ station' = [station EXCEPT ![i] = Blank(text, id, v)] /\ did' = did
      /\ UNCHANGED <<vector, disk>> /\ calls' = calls + 1
  BY DEF SetStation, Edit, Become, Call, Counted
<1> QED BY <1>1, <1>2 DEF Called

(* One vector of a station sorted. *)
Turned(s, n, p, most) == [k \in 1..Len(s) |-> IF k \in 1..n THEN Clean(s[p[k]], most) ELSE s[k]]

LEMMA Rearranged ==
  ASSUME NEW s \in Seq(Values), NEW n \in Nat, n <= Len(s), NEW p \in [1..n -> 1..n], NEW most \in Values
  PROVE  Turned(s, n, p, most) \in Seq(Values) /\ Len(Turned(s, n, p, most)) = Len(s)
<1>1. Len(s) \in Nat
  BY LenProperties
<1>2. \A k \in 1..Len(s) : s[k] \in Values
  BY ElementOfSeq
<1>3. ASSUME NEW k \in 1..n PROVE s[p[k]] \in Values
  <2>1. p[k] \in 1..n
    OBVIOUS
  <2>2. p[k] \in 1..Len(s)
    BY <1>1, <2>1
  <2> QED BY <1>2, <2>2
<1>4. \A x \in Values : Clean(x, most) \in Values
  BY HmdfAssumption DEF Clean
<1> DEFINE t == [k \in 1..Len(s) |-> IF k \in 1..n THEN Clean(s[p[k]], most) ELSE s[k]]
<1>5. t \in [1..Len(s) -> Values]
  BY <1>2, <1>3, <1>4
<1> HIDE DEF t
<1>6. t \in Seq(Values) /\ Len(t) = Len(s)
  BY <1>1, <1>5, IsVector
<1> QED BY <1>6 DEF t, Turned

(* Sorting exchanges whole pairs. *)
LEMMA SanitizeKeeps ==
  ASSUME TypeOK, NEW i \in DOMAIN station, NEW most \in Values, Sanitize(i, most)
  PROVE  \E s : Called(i, s)
<1> DEFINE s == station[i]
           n == Len(s.date)
<1>1. s \in Station /\ Good(s, did)
  BY ListedParts DEF TypeOK
<1>2. /\ s.date \in Seq(Nat) /\ s.u \in Seq(Values) /\ s.v \in Seq(Values) /\ s.vector \in BOOLEAN
      /\ n \in Nat /\ Len(s.u) \in Nat /\ Len(s.v) \in Nat
      /\ DOMAIN s.date = 1..n /\ DOMAIN s.u = 1..Len(s.u) /\ DOMAIN s.v = 1..Len(s.v)
  BY <1>1, StationParts
<1>3. PICK p \in [1..n -> 1..n] : station' = [station EXCEPT ![i] = Ordered(s, p, most)]
  BY DEF Sanitize
<1>4. Reaches(s)
  BY DEF Sanitize
<1> DEFINE t == Ordered(s, p, most)
           date == [k \in 1..n |-> s.date[p[k]]]
           u == Turned(s.u, n, p, most)
           v == Turned(s.v, n, p, most)
<1>5. date \in Seq(Nat) /\ Len(date) = n
  <2>1. \A k \in 1..n : s.date[p[k]] \in Nat
    BY <1>2, ElementOfSeq
  <2>2. date \in [1..n -> Nat]
    BY <2>1
  <2> QED BY <1>2, <2>2, IsVector
<1>7. u \in Seq(Values) /\ Len(u) = Len(s.u)
  <2>1. n <= Len(s.u)
    BY <1>4 DEF Reaches
  <2> QED BY <1>2, <2>1, Rearranged
<1>8. s.vector => v \in Seq(Values) /\ Len(v) = Len(s.v)
  <2> SUFFICES ASSUME s.vector PROVE v \in Seq(Values) /\ Len(v) = Len(s.v)
    OBVIOUS
  <2>1. n <= Len(s.v)
    BY <1>4 DEF Reaches
  <2> QED BY <1>2, <2>1, Rearranged
<1>9. t = [s EXCEPT !.date = date, !.u = u, !.v = IF s.vector THEN v ELSE s.v]
  BY <1>2 DEF Ordered, Turned
<1> HIDE DEF t, date, u, v
<1>10. /\ t \in Station /\ t.date = date /\ t.u = u /\ t.v = IF s.vector THEN v ELSE s.v
       /\ t.null = s.null /\ t.vector = s.vector
  BY <1>1, <1>2, <1>5, <1>7, <1>8, <1>9 DEF Station
<1>11. Good(t, did)
  BY <1>1, <1>5, <1>7, <1>8, <1>10 DEF Good, Even
<1>12. did' = did /\ UNCHANGED <<vector, disk>> /\ calls' = calls + 1
  BY DEF Sanitize, Call, Counted
<1>13. station' = [station EXCEPT ![i] = t]
  BY <1>3 DEF t
<1>14. Called(i, t)
  BY <1>11, <1>12, <1>13 DEF Called
<1> QED BY <1>14

-----------------------------------------------------------------------------
(* The calls on the list. *)

Kept == Listed' /\ did \subseteq did' /\ UNCHANGED disk /\ vector' \in BOOLEAN /\ calls' \in Nat

LEMMA CalledKept ==
  ASSUME TypeOK, NEW i \in DOMAIN station, NEW s, Called(i, s)
  PROVE  Kept
<1>1. Listed'
  BY OneExchanged DEF Called, TypeOK
<1> QED BY <1>1 DEF Kept, Called, TypeOK

(* Stations without data are good in any case. *)
LEMMA BlankListed ==
  ASSUME NEW text \in AnyText, NEW id \in Nat, NEW v \in BOOLEAN
  PROVE  /\ <<Blank(text, id, v)>> \in Seq(Station) /\ Len(<<Blank(text, id, v)>>) = 1
         /\ \A i \in 1..1 : Good(<<Blank(text, id, v)>>[i], did')
<1>1. Good(Blank(text, id, v), did')
  BY BlankIs
<1>2. Blank(text, id, v) \in Station
  BY <1>1 DEF Good
<1> HIDE DEF Blank
<1> QED BY <1>1, <1>2

LEMMA AddStationKept ==
  ASSUME TypeOK, NEW text \in Texts, NEW id \in Ids, AddStation(text, id)
  PROVE  Kept
<1> DEFINE b == Blank(text, id, vector)
<1>1. /\ station' = Append(station, b) /\ did' = did /\ UNCHANGED <<vector, disk>> /\ calls' = calls + 1
  BY DEF AddStation, Call, Counted
<1>2. <<b>> \in Seq(Station) /\ Len(<<b>>) = 1 /\ \A i \in 1..1 : Good(<<b>>[i], did')
  BY BlankListed, HmdfAssumption DEF TypeOK, AnyText
<1>3. b \in Station
  BY BlankIs, HmdfAssumption DEF Good, TypeOK, AnyText
<1> HIDE DEF b
<1>4. Append(station, b) = station \o <<b>>
  BY <1>3, AppendIsConcat DEF TypeOK, Listed
<1>5. Listed'
  <2>1. Listed /\ did \subseteq did' /\ station' = station \o <<b>>
    BY <1>1, <1>4 DEF TypeOK
  <2>2. \A i \in 1..Len(<<b>>) : Good(<<b>>[i], did')
    BY <1>2
  <2> QED BY <1>2, <2>1, <2>2, MoreListed
<1> QED BY <1>1, <1>5 DEF Kept, TypeOK

LEMMA SetVectorKept ==
  ASSUME TypeOK, NEW b \in BOOLEAN, SetVector(b)
  PROVE  Kept
<1> DEFINE E(i) == [station[i] EXCEPT !.date = <<>>, !.u = <<>>, !.v = <<>>, !.vector = b]
           n == Len(station)
<1>1. n \in Nat /\ DOMAIN station = 1..n
  BY ListedParts DEF TypeOK
<1>2. \A i \in 1..n : Good(E(i), did)
  BY <1>1, ListedParts, Emptied DEF TypeOK
<1>3. \A i \in 1..n : E(i) \in Station
  BY <1>2 DEF Good
<1>4. station' = [i \in 1..n |-> E(i)]
  BY <1>1 DEF SetVector
<1>5. did' = did /\ vector' = b /\ UNCHANGED disk /\ calls' = calls + 1
  BY DEF SetVector, Call, Counted
<1> HIDE DEF E, n
<1>6. station' \in [1..n -> Station]
  BY <1>3, <1>4
<1>7. station' \in Seq(Station) /\ Len(station') = n
  BY <1>1, <1>6, IsVector
<1>8. \A i \in 1..n : Good(station'[i], did)
  BY <1>2, <1>4
<1> QED BY <1>5, <1>7, <1>8 DEF Kept, Listed, TypeOK

LEMMA ClearKept ==
  ASSUME TypeOK, Clear
  PROVE  Kept
<1>1. Listed'
  BY EmptyListed DEF Clear
<1> QED BY <1>1 DEF Kept, Clear, Call, Counted, TypeOK

LEMMA CopyKept ==
  ASSUME TypeOK, NEW itself \in BOOLEAN, NEW text \in Texts, NEW id \in Ids,
         CopyStationList(itself, text, id)
  PROVE  Kept
<1>1. CASE station' = <<>>
  <2>1. Listed'
    BY <1>1, EmptyListed
  <2> QED BY <2>1 DEF Kept, CopyStationList, Call, Counted, TypeOK
<1>2. CASE station' = <<Blank(text, id, FALSE)>>
  <2>1. Listed'
    BY <1>2, BlankListed, HmdfAssumption DEF Listed, AnyText
  <2> QED BY <2>1 DEF Kept, CopyStationList, Call, Counted, TypeOK
<1> QED BY <1>1, <1>2 DEF CopyStationList

(* Nothing of the list or its history changes. *)
LEMMA SameKept ==
  ASSUME TypeOK, UNCHANGED <<station, did, disk, vector>>, calls' \in Nat
  PROVE  Kept
  BY DEF Kept, TypeOK, Listed, Good

-----------------------------------------------------------------------------
(* What may end a process. *)

LEMMA UnevenIsParted ==
  ASSUME Listed, NEW i \in DOMAIN station, ~Even(station[i])
  PROVE  "parted" \in did
  BY ListedParts DEF Good

LEMMA UndatedIsUneven ==
  ASSUME NEW s \in Station, ~Dated(s)
  PROVE  ~Even(s)
  BY StationParts DEF Even, Dated, NumSnaps

LEMMA StationStep ==
  ASSUME TypeOK, NEW i \in DOMAIN station,
         \/ \E d \in Dates, x \in Values : SetNext(i, d, x)
         \/ \E ds \in Calendars : SetDate(i, ds)
         \/ \E us, vs \in Series : SetData(i, us, vs)
         \/ \E us \in Series : SetFloats(i, us)
         \/ \E j \in 1..MaxSnaps, d \in Dates, x \in Values : SetDateAt(i, j, d) \/ SetDataAt(i, j, x)
         \/ \E b \in BOOLEAN : SetIsNull(i, b) \/ SetStationVector(i, b)
         \/ ClearStation(i)
         \/ \E most \in Values : Sanitize(i, most)
         \/ SanitizeFails(i)
         \/ \E text \in Texts, id \in Ids, v \in BOOLEAN : SetStation(i, text, id, v)
  PROVE  Kept /\ (fate' = "overrun" => "parted" \in did')
<1>1. CASE \E d \in Dates, x \in Values : SetNext(i, d, x)
  <2>1. PICK d \in Dates, x \in Values : SetNext(i, d, x)
    BY <1>1
  <2>2. fate' = "running"
    BY <2>1 DEF SetNext, Edit, Become, Call, Counted
  <2> QED BY <2>1, <2>2, SetNextKeeps, CalledKept
<1>2. CASE \E ds \in Calendars : SetDate(i, ds)
  <2>1. PICK ds \in Calendars : SetDate(i, ds)
    BY <1>2
  <2>2. fate' = "running"
    BY <2>1 DEF SetDate, Become, Parting, Counted
  <2> QED BY <2>1, <2>2, SetDateKeeps, CalledKept
<1>3. CASE \E us, vs \in Series : SetData(i, us, vs)
  <2>1. PICK us \in Series, vs \in Series : SetData(i, us, vs)
    BY <1>3
  <2>2. fate' = "running"
    BY <2>1 DEF SetData, Become, Parting, Counted
  <2>3. \E s : Called(i, s)
    BY <2>1, SetDataKeeps
  <2> QED BY <2>2, <2>3, CalledKept
<1>4. CASE \E us \in Series : SetFloats(i, us)
  <2>1. PICK us \in Series : SetFloats(i, us)
    BY <1>4
  <2>2. "parted" \in did'
    BY <2>1 DEF SetFloats, Parting
  <2> QED BY <2>1, <2>2, SetFloatsKeeps, CalledKept
<1>5. CASE \E j \in 1..MaxSnaps, d \in Dates, x \in Values : SetDateAt(i, j, d) \/ SetDataAt(i, j, x)
  <2>1. PICK j \in 1..MaxSnaps, d \in Dates, x \in Values : SetDateAt(i, j, d) \/ SetDataAt(i, j, x)
    BY <1>5
  <2>2. CASE SetDateAt(i, j, d)
    <3>1. CASE \E s : Called(i, s) /\ fate' = "running"
      BY <3>1, CalledKept
    <3>2. CASE "parted" \in did' /\ UNCHANGED <<station, did, vector, disk>> /\ calls' = calls + 1
      BY <3>2, SameKept DEF TypeOK
    <3> QED BY <2>2, <3>1, <3>2, SetDateAtKeeps
  <2>3. CASE SetDataAt(i, j, x)
    <3>1. fate' = "running"
      BY <2>3 DEF SetDataAt, Edit, Become, Call, Counted
    <3> QED BY <2>3, <3>1, SetDataAtKeeps, CalledKept
  <2> QED BY <2>1, <2>2, <2>3
<1>6. CASE \E b \in BOOLEAN : SetIsNull(i, b) \/ SetStationVector(i, b)
  <2>1. PICK b \in BOOLEAN : SetIsNull(i, b) \/ SetStationVector(i, b)
    BY <1>6
  <2>2. fate' = "running"
    BY <2>1 DEF SetIsNull, SetStationVector, Edit, Become, Call, Counted
  <2>3. \E s : Called(i, s)
    BY <2>1, SetIsNullKeeps, SetStationVectorKeeps
  <2> QED BY <2>2, <2>3, CalledKept
<1>7. CASE ClearStation(i)
  <2>1. fate' = "running"
    BY <1>7 DEF ClearStation, Edit, Become, Call, Counted
  <2> QED BY <1>7, <2>1, ClearStationKeeps, CalledKept
<1>8. CASE \E most \in Values : Sanitize(i, most)
  <2>1. PICK most \in Values : Sanitize(i, most)
    BY <1>8
  <2>2. fate' = "running"
    BY <2>1 DEF Sanitize, Call, Counted
  <2> QED BY <2>1, <2>2, SanitizeKeeps, CalledKept
<1>9. CASE SanitizeFails(i)
  <2>1. Kept /\ did' = did
    BY <1>9, SameKept DEF SanitizeFails, Call, Counted, TypeOK
  <2>2. ~Even(station[i])
    <3>1. station[i] \in Station
      BY ListedParts DEF TypeOK
    <3> QED BY <1>9, <3>1, StationParts DEF SanitizeFails, Reaches, Even
  <2> QED BY <2>1, <2>2, UnevenIsParted DEF TypeOK
<1>10. CASE \E text \in Texts, id \in Ids, v \in BOOLEAN : SetStation(i, text, id, v)
  <2>1. PICK text \in Texts, id \in Ids, v \in BOOLEAN : SetStation(i, text, id, v)
    BY <1>10
  <2>2. fate' = "running"
    BY <2>1 DEF SetStation, Edit, Become, Call, Counted
  <2> QED BY <2>1, <2>2, SetStationKeeps, CalledKept
<1> QED BY <1>1, <1>2, <1>3, <1>4, <1>5, <1>6, <1>7, <1>8, <1>9, <1>10

(* dataBounds() of stations that are all null looks at no data. *)
LEMMA DataBoundsStep ==
  ASSUME TypeOK, DataBounds
  PROVE  Kept /\ last' = "bounds" /\ (fate' = "overrun" => "shown" \in did')
<1>1. Kept /\ last' = "bounds" /\ did' = did
  BY SameKept DEF DataBounds, Call, Counted, TypeOK
<1>2. ASSUME "shown" \notin did PROVE fate' = "running"
  <2>1. \A i \in DOMAIN station : Bounded(station[i])
    BY <1>2, ListedParts DEF Good, Bounded, TypeOK
  <2> QED BY <2>1 DEF DataBounds
<1> QED BY <1>1, <1>2

LEMMA ListStep ==
  ASSUME TypeOK,
         \/ \E text \in Texts, id \in Ids : AddStation(text, id)
         \/ \E b \in BOOLEAN : SetVector(b)
         \/ \E itself \in BOOLEAN, text \in Texts, id \in Ids : CopyStationList(itself, text, id)
         \/ Clear
  PROVE  Kept /\ fate' = "running"
<1>1. fate' = "running"
  BY DEF AddStation, SetVector, CopyStationList, Clear, Call, Counted
<1> QED BY <1>1, AddStationKept, SetVectorKept, CopyKept, ClearKept

-----------------------------------------------------------------------------
(* Writing. *)

LEMMA SecondsNat ==
  ASSUME NEW d \in Nat
  PROVE  Seconds(d) \in Nat
<1>1. d % Tick \in 0..Tick - 1 /\ d % Tick <= d
  BY HmdfAssumption
<1> QED BY <1>1 DEF Seconds

LEMMA HeldTold ==
  ASSUME NEW s \in Station, Dated(s), NEW kind \in {"imeds", "netcdf"}, NEW name \in AnyName
  PROVE  Held(kind, s, name) \in Told
<1>1. /\ s.date \in Seq(Nat) /\ s.u \in Seq(Values) /\ Len(s.u) \in Nat /\ Len(s.date) \in Nat
      /\ DOMAIN s.u = 1..Len(s.u) /\ Len(s.u) <= Len(s.date)
  BY StationParts DEF Dated, NumSnaps
<1>2. \A i \in 1..Len(s.u) : s.date[i] \in Nat /\ s.u[i] \in Values
  BY <1>1, ElementOfSeq
<1> DEFINE date == [i \in DOMAIN s.u |-> Seconds(s.date[i])]
           u == [i \in DOMAIN s.u |-> Printed(kind, s.u[i])]
<1>3. date \in [1..Len(s.u) -> Nat]
  BY <1>1, <1>2, SecondsNat
<1>4. u \in [1..Len(s.u) -> Values]
  BY <1>1, <1>2, HmdfAssumption
<1> HIDE DEF date, u
<1>5. /\ date \in Seq(Nat) /\ Len(date) = Len(s.u)
      /\ u \in Seq(Values) /\ Len(u) = Len(s.u)
  BY <1>1, <1>3, <1>4, IsVector
<1>6. Held(kind, s, name) = [name |-> name, date |-> date, u |-> u]
  BY DEF Held, date, u
<1> QED BY <1>5, <1>6 DEF Told

LEMMA NamesHeld ==
  ASSUME NEW s \in Station
  PROVE  /\ ImedsName(s) \in AnyName /\ ImedsName(s) = NamedAs("imeds", s.name)
         /\ ImedsName(s) = Name(Empty) => s.name.text = Empty
         /\ [s.name EXCEPT !.padded = TRUE] \in AnyName
         /\ [s.name EXCEPT !.padded = TRUE] = NamedAs("netcdf", s.name)
<1>1. s.name \in AnyName /\ s.name.text \in AnyText
  BY StationParts
<1>2. Plain(s.name.text) \in AnyText /\ (Plain(s.name.text) = Empty <=> s.name.text = Empty)
  <2>1. \A n \in AnyText : Plain(n) \in AnyText /\ (Plain(n) = Empty <=> n = Empty)
    BY HmdfAssumption DEF AnyText
  <2> QED BY <1>1, <2>1, Zenon
<1>3. ImedsName(s) = [s.name EXCEPT !.text = Plain(s.name.text)]
  BY DEF ImedsName
<1>4. ImedsName(s).text = Plain(s.name.text) /\ ImedsName(s) \in AnyName
  BY <1>1, <1>2, <1>3 DEF AnyName
<1>5. ImedsName(s) = NamedAs("imeds", s.name)
  BY DEF ImedsName, NamedAs
<1>6. ImedsName(s) = Name(Empty) => s.name.text = Empty
  BY <1>2, <1>4 DEF Name
<1>7. [s.name EXCEPT !.padded = TRUE] = NamedAs("netcdf", s.name)
  BY DEF NamedAs
<1>8. [s.name EXCEPT !.padded = TRUE] \in AnyName
  BY <1>1 DEF AnyName
<1> QED BY <1>4, <1>5, <1>6, <1>7, <1>8

(* The first n stations in an IMEDS file. *)
LEMMA ImedsSaysIs ==
  ASSUME Listed, NEW n \in Nat, n <= Len(station), \A i \in 1..n : Dated(station[i])
  PROVE  /\ ImedsSays(n) \in Seq(Told) /\ Len(ImedsSays(n)) = n
         /\ \A i \in 1..n : ImedsSays(n)[i] = Held("imeds", station[i], NamedAs("imeds", station[i].name))
         /\ \A i \in 1..n : ImedsSays(n)[i].name = Name(Empty) => station[i].name.text = Empty
<1>1. \A i \in 1..n : station[i] \in Station
  BY ListedParts
<1>2. \A i \in 1..n : Held("imeds", station[i], ImedsName(station[i])) \in Told
  BY <1>1, HeldTold, NamesHeld
<1>3. ImedsSays(n) = [i \in 1..n |-> Held("imeds", station[i], ImedsName(station[i]))]
  BY DEF ImedsSays
<1>4. ImedsSays(n) \in [1..n -> Told]
  BY <1>2, <1>3
<1>5. ImedsSays(n) \in Seq(Told) /\ Len(ImedsSays(n)) = n
  BY <1>4, IsVector
<1>6. ASSUME NEW i \in 1..n
      PROVE  /\ ImedsSays(n)[i] = Held("imeds", station[i], NamedAs("imeds", station[i].name))
             /\ ImedsSays(n)[i].name = Name(Empty) => station[i].name.text = Empty
  <2>1. ImedsSays(n)[i] = Held("imeds", station[i], ImedsName(station[i]))
    BY <1>3
  <2>2. ImedsSays(n)[i].name = ImedsName(station[i])
    BY <2>1 DEF Held
  <2> QED BY <1>1, <2>1, <2>2, NamesHeld
<1> QED BY <1>5, <1>6

LEMMA WritingKept ==
  ASSUME TypeOK, NEW what, Writing(what)
  PROVE  /\ Listed' /\ vector' \in BOOLEAN /\ calls' \in Nat /\ did' = did
         /\ station' = station /\ last' = what /\ fate = "running"
  BY DEF TypeOK, Listed, Writing, Call, Counted

(* Among the stations before the first that stops a writer there is none    *)
(* that does.                                                               *)
LEMMA BeforeFirst ==
  ASSUME Listed, NEW S \in SUBSET (DOMAIN station), S # {}
  PROVE  /\ First(S) \in S /\ First(S) \in 1..Len(station)
         /\ \A i \in 1..First(S) - 1 : i \in DOMAIN station /\ i \notin S
<1>1. DOMAIN station = 1..Len(station) /\ Len(station) \in Nat
  BY ListedParts
<1>2. First(S) \in S /\ \A i \in S : First(S) <= i
  BY <1>1, FirstIs
<1> QED BY <1>1, <1>2

ImedsStop == {i \in DOMAIN station : station[i].u # <<>> /\ (station[i].vector \/ ~Dated(station[i]))}

LEMMA NotStopped ==
  ASSUME Listed, NEW i \in DOMAIN station, i \notin ImedsStop
  PROVE  Dated(station[i])
<1>1. station[i] \in Station
  BY ListedParts
<1>2. CASE station[i].u = <<>>
  <2>1. Len(station[i].u) = 0 /\ Len(station[i].date) \in Nat
    BY <1>1, <1>2, EmptySeq, StationParts
  <2> QED BY <2>1 DEF Dated, NumSnaps
<1> QED BY <1>2 DEF ImedsStop

LEMMA WriteImedsStep ==
  ASSUME TypeOK, WriteImeds
  PROVE  /\ FileTyped(disk') /\ (disk' = disk \/ disk'.kind = "imeds")
         /\ fate' = "overrun" => "parted" \in did
<1>1. Listed /\ FileTyped(disk) /\ station \in Seq(Station) /\ Len(station) \in Nat /\ DOMAIN station = 1..Len(station)
  BY ListedParts DEF TypeOK
<1> DEFINE i == First(ImedsStop)
<1>2. IF ImedsStop = {} THEN Stored("imeds", TRUE, ImedsSays(Len(station)))
      ELSE IF station[i].vector
      THEN Stored("imeds", FALSE, Append(ImedsSays(i - 1), [name |-> ImedsName(station[i]), date |-> <<>>, u |-> <<>>]))
      ELSE Overrun
  BY DEF WriteImeds, ImedsStop
<1>3. CASE ImedsStop = {}
  <2>1. \A k \in 1..Len(station) : Dated(station[k])
    BY <1>1, <1>3, NotStopped
  <2> DEFINE says == ImedsSays(Len(station))
  <2>2. disk' = [kind |-> "imeds", whole |-> TRUE, says |-> says, of |-> station] /\ fate' = "running"
    BY <1>2, <1>3 DEF Stored
  <2>3. /\ says \in Seq(Told) /\ Len(says) = Len(station)
        /\ \A k \in 1..Len(station) : says[k] = Held("imeds", station[k], NamedAs("imeds", station[k].name))
        /\ \A k \in 1..Len(station) : says[k].name = Name(Empty) => station[k].name.text = Empty
    BY <1>1, <2>1, ImedsSaysIs
  <2> HIDE DEF says
  <2>4. DOMAIN says = 1..Len(station)
    BY <2>3, LenProperties
  <2>5. Says(disk')
    BY <2>1, <2>2, <2>3 DEF Says
  <2>6. Nameless(disk')
    BY <1>1, <2>2, <2>3, <2>4 DEF Nameless
  <2> QED BY <1>1, <2>2, <2>5, <2>6 DEF FileTyped, Kinds
<1>4. CASE ImedsStop # {}
  <2>1. i \in ImedsStop /\ i \in 1..Len(station) /\ \A k \in 1..i - 1 : k \in DOMAIN station /\ k \notin ImedsStop
    BY <1>1, <1>4, BeforeFirst DEF ImedsStop
  <2> HIDE DEF i
  <2>2. i - 1 \in Nat /\ i - 1 <= Len(station) /\ \A k \in 1..i - 1 : Dated(station[k])
    BY <1>1, <2>1, NotStopped
  <2>3. station[i] \in Station
    BY <1>1, <2>1, ListedParts
  <2>4. CASE station[i].vector
    <3> DEFINE cut == [name |-> ImedsName(station[i]), date |-> <<>>, u |-> <<>>]
               head == ImedsSays(i - 1)
               says == Append(head, cut)
    <3>1. disk' = [kind |-> "imeds", whole |-> FALSE, says |-> says, of |-> station] /\ fate' = "running"
      BY <1>2, <1>4, <2>4 DEF Stored, i
    <3>2. /\ head \in Seq(Told) /\ Len(head) = i - 1
          /\ \A k \in 1..i - 1 : head[k].name = Name(Empty) => station[k].name.text = Empty
      BY <1>1, <2>2, ImedsSaysIs
    <3>3. cut \in Told
      <4>1. ImedsName(station[i]) \in AnyName
        BY <2>3, NamesHeld
      <4>2. <<>> \in Seq(Nat) /\ <<>> \in Seq(Values)
        BY EmptySeq
      <4> QED BY <4>1, <4>2 DEF Told
    <3>4. cut.name = Name(Empty) => station[i].name.text = Empty
      BY <2>3, NamesHeld
    <3> HIDE DEF cut, head
    <3>5. /\ says \in Seq(Told) /\ Len(says) = i
          /\ \A k \in 1..i - 1 : says[k] = head[k]
          /\ says[i] = cut
      BY <2>1, <3>2, <3>3, AppendProperties
    <3> HIDE DEF says
    <3>6. DOMAIN says = 1..i
      BY <3>5, LenProperties
    <3>7. \A k \in 1..i : says[k].name = Name(Empty) => station[k].name.text = Empty
      BY <2>1, <3>2, <3>4, <3>5
    <3>8. Says(disk')
      BY <3>1, <3>5 DEF Says
    <3>9. Nameless(disk')
      BY <1>1, <2>1, <3>1, <3>6, <3>7 DEF Nameless
    <3> QED BY <1>1, <3>1, <3>8, <3>9 DEF FileTyped, Kinds
  <2>5. CASE ~station[i].vector
    <3>1. disk' = disk
      BY <1>2, <1>4, <2>5 DEF Overrun, i
    <3>2. ~Dated(station[i])
      BY <2>1, <2>5 DEF ImedsStop
    <3>3. "parted" \in did
      BY <1>1, <2>1, <2>3, <3>2, UndatedIsUneven, UnevenIsParted
    <3> QED BY <1>1, <3>1, <3>3
  <2> QED BY <2>4, <2>5
<1> QED BY <1>3, <1>4

LEMMA WriteNetcdfStep ==
  ASSUME TypeOK, WriteNetcdf
  PROVE  /\ FileTyped(disk') /\ (disk' = disk \/ disk'.kind = "netcdf")
         /\ fate' = "overrun" => "parted" \in did \/ \E i \in DOMAIN station : Overread(station[i])
<1>1. Listed /\ FileTyped(disk) /\ station \in Seq(Station) /\ Len(station) \in Nat /\ DOMAIN station = 1..Len(station)
  BY ListedParts DEF TypeOK
<1> DEFINE stop == {i \in DOMAIN station : ~Dated(station[i]) \/ station[i].vector}
<1> DEFINE usual == IF stop = {} THEN Stored("netcdf", TRUE, NetcdfSays)
                    ELSE IF Dated(station[First(stop)]) THEN Stored("netcdf", FALSE, <<>>) ELSE Overrun
<1>2. usual \/ (Overrun /\ \E i \in DOMAIN station : Overread(station[i]))
  BY DEF WriteNetcdf
<1>3. CASE usual /\ stop = {}
  <2>1. \A k \in 1..Len(station) : station[k] \in Station /\ Dated(station[k])
    BY <1>1, <1>3, ListedParts
  <2> DEFINE E(k) == Held("netcdf", station[k], [station[k].name EXCEPT !.padded = TRUE])
  <2>2. disk' = [kind |-> "netcdf", whole |-> TRUE, says |-> NetcdfSays, of |-> station] /\ fate' = "running"
    BY <1>3 DEF Stored
  <2>3. \A k \in 1..Len(station) : E(k) \in Told /\ E(k) = Held("netcdf", station[k], NamedAs("netcdf", station[k].name))
    BY <2>1, HeldTold, NamesHeld
  <2>4. NetcdfSays = [k \in 1..Len(station) |-> E(k)]
    BY <1>1 DEF NetcdfSays
  <2> HIDE DEF E
  <2>5. NetcdfSays \in [1..Len(station) -> Told]
    BY <2>3, <2>4
  <2>6. NetcdfSays \in Seq(Told) /\ Len(NetcdfSays) = Len(station)
    BY <1>1, <2>5, IsVector
  <2>7. \A k \in 1..Len(station) : NetcdfSays[k] = Held("netcdf", station[k], NamedAs("netcdf", station[k].name))
    BY <2>3, <2>4
  <2>8. Says(disk')
    BY <2>1, <2>2, <2>6, <2>7 DEF Says
  <2> QED BY <1>1, <2>2, <2>8 DEF FileTyped, Kinds
<1>4. CASE usual /\ stop # {}
  <2>1. First(stop) \in stop
    BY <1>1, <1>4, BeforeFirst
  <2> DEFINE i == First(stop)
  <2>2. CASE Dated(station[i])
    <3>1. disk' = [kind |-> "netcdf", whole |-> FALSE, says |-> <<>>, of |-> station] /\ fate' = "running"
      BY <1>4, <2>2 DEF Stored
    <3>2. <<>> \in Seq(Told)
      BY EmptySeq
    <3>3. Says(disk')
      BY <3>1, <3>2 DEF Says
    <3> QED BY <1>1, <3>1, <3>3 DEF FileTyped, Kinds
  <2>3. CASE ~Dated(station[i])
    <3>1. disk' = disk
      BY <1>4, <2>3 DEF Overrun
    <3>2. "parted" \in did
      <4>1. station[i] \in Station
        BY <1>1, <2>1, ListedParts
      <4> HIDE DEF i
      <4>2. i \in DOMAIN station
        BY <2>1 DEF i
      <4> QED BY <1>1, <2>3, <4>1, <4>2, UndatedIsUneven, UnevenIsParted
    <3> QED BY <1>1, <3>1, <3>2
  <2> QED BY <2>2, <2>3
<1>5. CASE Overrun /\ \E i \in DOMAIN station : Overread(station[i])
  BY <1>1, <1>5 DEF Overrun
<1> HIDE DEF usual
<1> QED BY <1>2, <1>3, <1>4, <1>5

(* What the comparison of a station with the first one finds. *)
LEMMA CompareIs ==
  ASSUME TypeOK, NEW i \in DOMAIN station
  PROVE  /\ Compare(i) \in {"same", "differ", "overrun"}
         /\ Compare(i) = "overrun" => "parted" \in did
         /\ Compare(i) = "same" => /\ NumSnaps(station[i]) = Snaps
                                   /\ \A j \in 1..Snaps : station[i].date[j] = station[1].date[j]
<1>1. Listed /\ station[i] \in Station /\ 1 \in DOMAIN station /\ station[1] \in Station
  BY ListedParts DEF TypeOK
<1>2. Compare(i) \in {"same", "differ", "overrun"}
  BY DEF Compare
<1>3. ASSUME Compare(i) = "overrun" PROVE "parted" \in did
  <2>1. /\ NumSnaps(station[i]) = Snaps /\ Clash(i) # {} /\ ~Comparable(i, First(Clash(i)))
    BY <1>3 DEF Compare
  <2>2. Clash(i) \in SUBSET Nat /\ Clash(i) \subseteq 1..Snaps
    BY DEF Clash
  <2> DEFINE j == First(Clash(i))
  <2>3. j \in 1..Snaps
    BY <2>1, <2>2, FirstIs
  <2> HIDE DEF j
  <2>4. ~Dated(station[i]) \/ ~Dated(station[1])
    <3>1. ~(j <= Len(station[i].date) /\ j <= Len(station[1].date))
      BY <2>1 DEF Comparable, j
    <3> QED BY <1>1, <2>1, <2>3, <3>1, StationParts DEF Dated, Snaps, NumSnaps
  <2> QED BY <1>1, <2>4, UndatedIsUneven, UnevenIsParted
<1>4. ASSUME Compare(i) = "same"
      PROVE  NumSnaps(station[i]) = Snaps /\ \A j \in 1..Snaps : station[i].date[j] = station[1].date[j]
  <2>1. CASE i = 1
    BY <2>1 DEF Snaps
  <2>2. CASE i # 1
    <3>1. NumSnaps(station[i]) = Snaps /\ Clash(i) = {}
      BY <1>4, <2>2 DEF Compare
    <3> QED BY <3>1 DEF Clash
  <2> QED BY <2>1, <2>2
<1> QED BY <1>2, <1>3, <1>4

LEMMA ComparedIs ==
  ASSUME TypeOK
  PROVE  /\ Compared = "overrun" => "parted" \in did
         /\ Compared \in {"differ", "overrun"} \/ \A i \in DOMAIN station : Compare(i) = "same"
<1> DEFINE odd == {i \in DOMAIN station : Compare(i) # "same"}
<1>1. Compared = IF odd = {} THEN "same" ELSE Compare(First(odd))
  BY DEF Compared
<1>2. CASE odd = {}
  BY <1>1, <1>2
<1>3. CASE odd # {}
  <2>1. First(odd) \in odd
    BY <1>3, BeforeFirst DEF TypeOK
  <2> DEFINE i == First(odd)
  <2>2. i \in DOMAIN station /\ Compare(i) # "same"
    BY <2>1
  <2>3. Compared = Compare(i)
    BY <1>1, <1>3
  <2> HIDE DEF i, odd
  <2> QED BY <2>2, <2>3, CompareIs
<1> QED BY <1>2, <1>3

LEMMA LackingIsParted ==
  ASSUME TypeOK, Lacking # {}
  PROVE  "parted" \in did
<1>1. PICK i \in DOMAIN station : station[i].vector /\ ~Paired(station[i])
  BY DEF Lacking
<1>2. station[i] \in Station
  BY ListedParts DEF TypeOK
<1>3. ~Even(station[i])
  BY <1>1, <1>2, StationParts DEF Even, Paired, NumSnaps
<1> QED BY <1>3, UnevenIsParted DEF TypeOK

LEMMA WriteAdcircStep ==
  ASSUME TypeOK, AdcircConsistent, WriteAdcirc
  PROVE  /\ FileTyped(disk') /\ AdcircConsistent'
         /\ fate' = "overrun" => "parted" \in did
<1>1. Listed /\ FileTyped(disk) /\ station \in Seq(Station) /\ Len(station) \in Nat /\ DOMAIN station = 1..Len(station)
  BY ListedParts DEF TypeOK
<1>2. CASE Overrun /\ (Compared = "overrun" \/ (station # <<>> /\ ~Dated(station[1])) \/ Lacking # {})
  <2>1. disk' = disk
    BY <1>2 DEF Overrun
  <2>2. AdcircConsistent'
    BY <2>1 DEF AdcircConsistent
  <2>3. ASSUME station # <<>>, ~Dated(station[1]) PROVE "parted" \in did
    <3>1. 1 \in DOMAIN station
      BY <1>1, <2>3, EmptySeq
    <3>2. station[1] \in Station
      BY <1>1, <3>1, ListedParts
    <3> QED BY <1>1, <2>3, <3>1, <3>2, UndatedIsUneven, UnevenIsParted
  <2> QED BY <1>1, <1>2, <2>1, <2>2, <2>3, ComparedIs, LackingIsParted
<1>3. CASE Stored("adcirc", FALSE, <<>>)
  <2>1. disk' = [kind |-> "adcirc", whole |-> FALSE, says |-> <<>>, of |-> station] /\ fate' = "running"
    BY <1>3 DEF Stored
  <2> QED BY <1>1, <2>1 DEF FileTyped, Kinds, AdcircConsistent
<1>4. CASE /\ Stored("adcirc", TRUE, [j \in 1..Snaps |-> Row(j)])
           /\ Compared \notin {"differ", "overrun"} /\ Snaps >= 2 /\ Dated(station[1]) /\ station # <<>>
  <2> DEFINE says == [j \in 1..Snaps |-> Row(j)]
  <2>1. disk' = [kind |-> "adcirc", whole |-> TRUE, says |-> says, of |-> station] /\ fate' = "running"
    BY <1>4 DEF Stored
  <2>2. \A i \in DOMAIN station : Compare(i) = "same"
    BY <1>4, ComparedIs
  <2>3. \A i \in DOMAIN station : /\ NumSnaps(station[i]) = Snaps
                                  /\ \A j \in 1..Snaps : station[i].date[j] = station[1].date[j]
    BY <2>2, CompareIs
  <2>4. 1 \in DOMAIN station /\ station[1] \in Station
    BY <1>1, <1>4, EmptySeq, ListedParts
  <2>5. /\ Snaps \in Nat /\ Snaps <= Len(station[1].date) /\ Len(station[1].date) \in Nat
        /\ station[1].date \in Seq(Nat)
    BY <1>4, <2>4, StationParts DEF Dated, Snaps, NumSnaps
  <2>6. \A j \in 1..Snaps : station[1].date[j] \in Nat /\ Seconds(station[1].date[j]) \in Nat
    <3>1. \A j \in 1..Snaps : j \in 1..Len(station[1].date)
      BY <2>5
    <3>2. \A j \in 1..Snaps : station[1].date[j] \in Nat
      BY <2>5, <3>1, ElementOfSeq
    <3> QED BY <3>2, SecondsNat
  <2>7. says \in [1..Snaps -> {Row(j) : j \in 1..Snaps}]
    OBVIOUS
  <2>8. Len(says) = Snaps /\ DOMAIN says = 1..Snaps
    BY <2>5, <2>7, IsVector
  <2>9. \A j \in 1..Snaps : says[j] = Row(j)
    OBVIOUS
  <2> HIDE DEF says
  <2>10. ASSUME NEW i \in DOMAIN station, NEW j \in 1..Snaps
         PROVE  /\ Len(says) = Len(station[i].u)
                /\ says[j].us[i] = Printed("adcirc", station[i].u[j])
                /\ \A k \in DOMAIN station : says[j].dates[i] = says[j].dates[k]
                /\ says[j].time - says[1].time = Seconds(station[i].date[j]) - Seconds(station[i].date[1])
    <3>1. Len(says) = Len(station[i].u)
      BY <2>3, <2>8 DEF NumSnaps
    <3>0. says[j] = Row(j)
      BY <2>9
    <3>2. says[j].us[i] = Printed("adcirc", station[i].u[j])
      BY <3>0 DEF Row
    <3>3. \A k \in DOMAIN station : says[j].dates[k] = station[1].date[j]
      <4>1. says[j].dates = [k \in DOMAIN station |-> station[k].date[j]]
        BY <3>0 DEF Row
      <4> QED BY <2>3, <4>1
    <3>4. says[j].time - says[1].time = Seconds(station[i].date[j]) - Seconds(station[i].date[1])
      <4>1. 1 \in 1..Snaps /\ 2 \in 1..Snaps
        BY <1>4, <2>5
      <4>2. /\ Seconds(station[1].date[j]) \in Nat /\ Seconds(station[1].date[1]) \in Nat
            /\ Seconds(station[1].date[2]) \in Nat
        BY <2>6, <4>1
      <4>3. says[j].time = Seconds(station[1].date[j]) - Seconds(station[1].date[1])
                           + Seconds(station[1].date[2]) - Seconds(station[1].date[1])
        BY <3>0 DEF Row
      <4>4. says[1].time = Seconds(station[1].date[1]) - Seconds(station[1].date[1])
                           + Seconds(station[1].date[2]) - Seconds(station[1].date[1])
        <5>1. says[1] = Row(1)
          BY <2>9, <4>1
        <5> QED BY <5>1 DEF Row
      <4>5. station[i].date[j] = station[1].date[j] /\ station[i].date[1] = station[1].date[1]
        BY <2>3, <4>1
      <4> QED BY <4>2, <4>3, <4>4, <4>5
    <3> QED BY <3>1, <3>2, <3>3, <3>4
  <2>11. disk'.of = station /\ disk'.says = says
    BY <2>1
  <2>12. AdcircConsistent'
    BY <2>8, <2>10, <2>11 DEF AdcircConsistent
  <2>13. FileTyped(disk')
    BY <1>1, <2>1 DEF FileTyped, Kinds
  <2> QED BY <2>1, <2>12, <2>13
<1> QED
  <2>1. /\ Compared # "differ"
        /\ IF Compared = "overrun" THEN Overrun
           ELSE IF station = <<>> THEN Stored("adcirc", FALSE, <<>>)
           ELSE IF Snaps < 2 THEN Stored("adcirc", FALSE, <<>>)
           ELSE IF ~Dated(station[1]) THEN Overrun
           ELSE IF Refused # {} /\ (Missing = {} \/ First(Refused) < First(Missing)) THEN Stored("adcirc", FALSE, <<>>)
           ELSE IF Lacking # {} THEN Overrun
           ELSE Stored("adcirc", TRUE, [j \in 1..Snaps |-> Row(j)])
    BY DEF WriteAdcirc
  <2>2. station # <<>> => Snaps \in Nat
    <3>1. station # <<>> => 1 \in DOMAIN station
      BY <1>1, EmptySeq
    <3> QED BY <1>1, <3>1, ListedParts, StationParts DEF Snaps, NumSnaps
  <2>3. station = <<>> \/ Snaps < 2 \/ Snaps >= 2
    BY <2>2
  <2>4. CASE Compared = "overrun"
    BY <1>2, <2>1, <2>4
  <2>5. CASE Compared # "overrun" /\ (station = <<>> \/ Snaps < 2)
    BY <1>3, <2>1, <2>5
  <2>6. CASE Compared # "overrun" /\ station # <<>> /\ ~(Snaps < 2) /\ ~Dated(station[1])
    BY <1>2, <2>1, <2>6
  <2>7. CASE Compared # "overrun" /\ station # <<>> /\ ~(Snaps < 2) /\ Dated(station[1])
    <3>1. \/ Stored("adcirc", FALSE, <<>>)
          \/ Overrun /\ Lacking # {}
          \/ Stored("adcirc", TRUE, [j \in 1..Snaps |-> Row(j)])
      BY <2>1, <2>7
    <3> QED BY <1>2, <1>3, <1>4, <2>1, <2>3, <2>7, <3>1
  <2> QED BY <2>4, <2>5, <2>6, <2>7

-----------------------------------------------------------------------------
(* Reading. *)

LEMMA RereadIs ==
  ASSUME NEW x \in Told, NEW only \in BOOLEAN, NEW d
  PROVE  Reread(x, only) \in Station /\ Good(Reread(x, only), d)
<1>1. /\ x.name \in AnyName /\ x.date \in Seq(Nat) /\ x.u \in Seq(Values) /\ Len(x.date) = Len(x.u)
  BY DEF Told
<1>2. <<>> \in Seq(Nat) /\ <<>> \in Seq(Values) /\ Len(<<>>) = 0
  BY EmptySeq
<1> DEFINE r == Reread(x, only)
<1>3. \E id \in Nat, date \in Seq(Nat), u \in Seq(Values) :
        /\ r = [name |-> x.name, id |-> id, date |-> date, u |-> u, v |-> <<>>, vector |-> FALSE, null |-> TRUE]
        /\ Len(date) = Len(u)
  <2> DEFINE id == IF disk.kind = "netcdf" THEN 200 ELSE Noid
  <2>3. id \in Nat
    BY DEF Noid
  <2>4. /\ r = [name |-> x.name, id |-> id, date |-> IF only THEN <<>> ELSE x.date,
                u |-> IF only THEN <<>> ELSE x.u, v |-> <<>>, vector |-> FALSE, null |-> TRUE]
    BY DEF Reread
  <2> HIDE DEF id, r
  <2>1. CASE only
    BY <1>1, <1>2, <2>1, <2>3, <2>4
  <2>2. CASE ~only
    BY <1>1, <1>2, <2>2, <2>3, <2>4
  <2> QED BY <2>1, <2>2
<1> HIDE DEF r
<1>4. PICK id \in Nat, date \in Seq(Nat), u \in Seq(Values) :
        /\ r = [name |-> x.name, id |-> id, date |-> date, u |-> u, v |-> <<>>, vector |-> FALSE, null |-> TRUE]
        /\ Len(date) = Len(u)
  BY <1>3
<1>5. r \in Station /\ r.null /\ ~r.vector /\ Len(r.date) = Len(r.u)
  BY <1>1, <1>2, <1>4 DEF Station
<1> QED BY <1>5 DEF r, Good, Even

(* The stations of a file, as read() adds them. *)
Added(only) == [i \in DOMAIN disk.says |-> Reread(disk.says[i], only)]

LEMMA AddedIs ==
  ASSUME TypeOK, disk.kind \in {"imeds", "netcdf"}, NEW only \in BOOLEAN
  PROVE  /\ disk.says \in Seq(Told) /\ DOMAIN disk.says = 1..Len(disk.says) /\ Len(disk.says) \in Nat
         /\ Added(only) \in Seq(Station) /\ Len(Added(only)) = Len(disk.says)
         /\ \A i \in 1..Len(disk.says) : Added(only)[i] = Reread(disk.says[i], only) /\ Good(Added(only)[i], did)
<1>1. disk.says \in Seq(Told)
  BY DEF TypeOK, FileTyped, Says
<1>2. Len(disk.says) \in Nat /\ DOMAIN disk.says = 1..Len(disk.says)
  BY <1>1, LenProperties
<1>3. \A i \in 1..Len(disk.says) : disk.says[i] \in Told
  BY <1>1, ElementOfSeq
<1>4. \A i \in 1..Len(disk.says) : Added(only)[i] = Reread(disk.says[i], only)
  BY <1>2 DEF Added
<1>5. \A i \in 1..Len(disk.says) : Added(only)[i] \in Station /\ Good(Added(only)[i], did)
  BY <1>3, <1>4, RereadIs
<1>6. Added(only) = [i \in 1..Len(disk.says) |-> Added(only)[i]]
  BY <1>2 DEF Added
<1>7. Added(only) \in [1..Len(disk.says) -> Station]
  BY <1>5, <1>6
<1>8. Added(only) \in Seq(Station) /\ Len(Added(only)) = Len(disk.says)
  BY <1>2, <1>7, IsVector
<1> QED BY <1>1, <1>2, <1>4, <1>5, <1>8

LEMMA ReadImedsStep ==
  ASSUME TypeOK, ReadImeds
  PROVE  /\ Kept /\ last' = "read"
         /\ fate' = "overrun" => \/ disk.kind = "none"
                                 \/ \E k \in DOMAIN disk.of : disk.of[k].name.text = Empty
         /\ fate' = "running" => disk.kind = "imeds" /\ station' = station \o Added(FALSE)
<1>1. /\ disk.kind \in {"none", "imeds"} /\ last' = "read" /\ did' = did
      /\ UNCHANGED <<vector, disk>> /\ calls' = calls + 1
  BY DEF ReadImeds, Reading, Call, Counted
<1> DEFINE nameless == \E i \in DOMAIN disk.says : disk.says[i].name = Name(Empty)
<1>2. IF disk.kind = "none" \/ nameless
      THEN fate' = "overrun" /\ UNCHANGED station
      ELSE fate' = "running" /\ station' = station \o Added(FALSE)
  BY DEF ReadImeds, Added
<1>3. CASE disk.kind = "none" \/ nameless
  <2>0. UNCHANGED station /\ fate' = "overrun"
    BY <1>2, <1>3
  <2>1. Kept
    BY <1>1, <2>0, SameKept DEF TypeOK
  <2>2. ASSUME disk.kind # "none" PROVE \E k \in DOMAIN disk.of : disk.of[k].name.text = Empty
    <3>1. Nameless(disk)
      BY <1>1, <2>2 DEF TypeOK, FileTyped
    <3> QED BY <1>3, <2>2, <3>1 DEF Nameless
  <2> QED BY <1>1, <2>0, <2>1, <2>2
<1>4. CASE ~(disk.kind = "none" \/ nameless)
  <2>1. disk.kind = "imeds" /\ fate' = "running" /\ station' = station \o Added(FALSE)
    BY <1>1, <1>2, <1>4
  <2>2. /\ Added(FALSE) \in Seq(Station)
        /\ \A i \in 1..Len(Added(FALSE)) : Good(Added(FALSE)[i], did')
    BY <1>1, <2>1, AddedIs
  <2>3. Listed /\ did \subseteq did'
    BY <1>1 DEF TypeOK
  <2>4. Listed'
    BY <2>1, <2>2, <2>3, MoreListed
  <2> QED BY <1>1, <2>1, <2>4 DEF Kept, TypeOK
<1> QED BY <1>3, <1>4

LEMMA ReadNetcdfStep ==
  ASSUME TypeOK, NEW only \in BOOLEAN, ReadNetcdf(only)
  PROVE  Kept /\ fate' = "running" /\ disk.kind = "netcdf" /\ station' = station \o Added(only)
<1>1. /\ disk.kind = "netcdf" /\ did' = did /\ fate' = "running"
      /\ UNCHANGED <<vector, disk>> /\ calls' = calls + 1
      /\ station' = station \o Added(only)
  BY DEF ReadNetcdf, Reading, Call, Counted, Added
<1>2. /\ Added(only) \in Seq(Station)
      /\ \A i \in 1..Len(Added(only)) : Good(Added(only)[i], did')
  BY <1>1, AddedIs
<1>3. Listed /\ did \subseteq did'
  BY <1>1 DEF TypeOK
<1>4. Listed'
  BY <1>1, <1>2, <1>3, MoreListed
<1> QED BY <1>1, <1>4 DEF Kept, TypeOK

-----------------------------------------------------------------------------
(* The invariant. *)

LEMMA InitHolds ==
  ASSUME Init
  PROVE  HmdfInv
<1>1. <<>> \in Seq(Station) /\ <<>> \in Seq(Told) /\ Len(<<>>) = 0
  BY EmptySeq
<1>2. Listed
  <2>1. CASE station = <<>>
    BY <1>1, <2>1 DEF Listed
  <2>2. CASE station \in Starts
    <3> DEFINE Start == {s \in Stations : ~s.vector /\ s.v = <<>> /\ s.null /\ Len(s.date) = Len(s.u)}
    <3>1. station \in Seq(Start)
      BY <2>2, HmdfAssumption
    <3>2. Seq(Dates) \subseteq Seq(Nat)
      BY HmdfAssumption, SeqMonotonic
    <3>3. ASSUME NEW s \in Start PROVE s \in Station /\ Good(s, did)
      <4>1. s \in Station
        BY <3>2 DEF Stations, Station, AnyName, AnyText
      <4> QED BY <4>1 DEF Good, Even
    <3> HIDE DEF Start
    <3>4. station \in Seq(Station)
      <4>1. Start \subseteq Station
        BY <3>3
      <4> QED BY <3>1, <4>1, SeqMonotonic
    <3>5. \A i \in 1..Len(station) : station[i] \in Start
      BY <3>1, ElementOfSeq
    <3> QED BY <3>3, <3>4, <3>5 DEF Listed
  <2> QED BY <2>1, <2>2 DEF Init
<1>3. FileTyped(disk)
  BY <1>1 DEF Init, NoFile, FileTyped, Kinds
<1>4. DeathExplainedHmdf /\ AdcircConsistent
  BY DEF Init, NoFile, DeathExplainedHmdf, AdcircConsistent
<1> QED BY <1>2, <1>3, <1>4 DEF Init, HmdfInv, TypeOK

LEMMA KeptKeeps ==
  ASSUME TypeOK, AdcircConsistent, Kept
  PROVE  TypeOK' /\ AdcircConsistent'
<1>1. disk' = disk
  BY DEF Kept
<1>2. FileTyped(disk')
  BY <1>1 DEF TypeOK
<1>3. AdcircConsistent'
  BY <1>1 DEF AdcircConsistent
<1> QED BY <1>2, <1>3 DEF Kept, TypeOK

LEMMA StepHolds ==
  ASSUME HmdfInv, [Next]_vars
  PROVE  HmdfInv'
<1>1. TypeOK /\ AdcircConsistent /\ DeathExplainedHmdf
  BY DEF HmdfInv
<1>2. CASE UNCHANGED vars
  BY <1>1, <1>2 DEF vars, HmdfInv, TypeOK, Listed, Good, DeathExplainedHmdf, AdcircConsistent
<1>3. CASE \E i \in DOMAIN station :
             \/ \E d \in Dates, x \in Values : SetNext(i, d, x)
             \/ \E ds \in Calendars : SetDate(i, ds)
             \/ \E us, vs \in Series : SetData(i, us, vs)
             \/ \E us \in Series : SetFloats(i, us)
             \/ \E j \in 1..MaxSnaps, d \in Dates, x \in Values : SetDateAt(i, j, d) \/ SetDataAt(i, j, x)
             \/ \E b \in BOOLEAN : SetIsNull(i, b) \/ SetStationVector(i, b)
             \/ ClearStation(i)
             \/ \E most \in Values : Sanitize(i, most)
             \/ SanitizeFails(i)
             \/ \E text \in Texts, id \in Ids, v \in BOOLEAN : SetStation(i, text, id, v)
  <2>1. Kept /\ (fate' = "overrun" => "parted" \in did')
    BY <1>1, <1>3, StationStep
  <2>2. DeathExplainedHmdf'
    BY <2>1 DEF DeathExplainedHmdf
  <2> QED BY <1>1, <2>1, <2>2, KeptKeeps DEF HmdfInv
<1>10. CASE \E i \in 1..(MaxStations + 1) : SetStationPast(i)
  <2>1. /\ UNCHANGED <<vector, station, disk>> /\ calls' = calls + 1
        /\ did' = did \cup {"past"}
    BY <1>10 DEF SetStationPast, Counted
  <2>2. Listed'
    <3>1. Listed /\ did \subseteq did'
      BY <1>1, <2>1 DEF TypeOK
    <3> QED BY <2>1, <3>1, GoodStays DEF Listed
  <2>3. FileTyped(disk') /\ AdcircConsistent'
    BY <1>1, <2>1 DEF TypeOK, AdcircConsistent
  <2>4. DeathExplainedHmdf'
    BY <2>1 DEF DeathExplainedHmdf
  <2> QED BY <1>1, <2>1, <2>2, <2>3, <2>4 DEF HmdfInv, TypeOK
<1>4. CASE \/ \E text \in Texts, id \in Ids : AddStation(text, id)
           \/ \E b \in BOOLEAN : SetVector(b)
           \/ \E itself \in BOOLEAN, text \in Texts, id \in Ids : CopyStationList(itself, text, id)
           \/ Clear
  <2>1. Kept /\ fate' = "running"
    BY <1>1, <1>4, ListStep
  <2>2. DeathExplainedHmdf'
    BY <2>1 DEF DeathExplainedHmdf
  <2> QED BY <1>1, <2>1, <2>2, KeptKeeps DEF HmdfInv
<1>5. CASE DataBounds
  <2>1. Kept /\ last' = "bounds" /\ (fate' = "overrun" => "shown" \in did')
    BY <1>1, <1>5, DataBoundsStep
  <2>2. DeathExplainedHmdf'
    BY <2>1 DEF DeathExplainedHmdf
  <2> QED BY <1>1, <2>1, <2>2, KeptKeeps DEF HmdfInv
<1>6. CASE WriteImeds \/ WriteNetcdf
  <2>1. /\ FileTyped(disk') /\ (disk' = disk \/ disk'.kind \in {"imeds", "netcdf"})
        /\ fate' = "overrun" =>
             \/ "parted" \in did
             \/ WriteNetcdf /\ \E i \in DOMAIN station : Overread(station[i])
    BY <1>1, <1>6, WriteImedsStep, WriteNetcdfStep
  <2>2. /\ Listed' /\ vector' \in BOOLEAN /\ calls' \in Nat /\ did' = did /\ station' = station
        /\ WriteNetcdf => last' = "netcdf"
    BY <1>1, <1>6, WritingKept DEF WriteImeds, WriteNetcdf
  <2>3. DeathExplainedHmdf'
    BY <2>1, <2>2 DEF DeathExplainedHmdf
  <2>4. AdcircConsistent'
    BY <1>1, <2>1 DEF AdcircConsistent
  <2> QED BY <2>1, <2>2, <2>3, <2>4 DEF HmdfInv, TypeOK
<1>7. CASE WriteAdcirc
  <2>1. FileTyped(disk') /\ AdcircConsistent' /\ (fate' = "overrun" => "parted" \in did)
    BY <1>1, <1>7, WriteAdcircStep
  <2>2. /\ Listed' /\ vector' \in BOOLEAN /\ calls' \in Nat /\ did' = did
    BY <1>1, <1>7, WritingKept DEF WriteAdcirc
  <2>3. DeathExplainedHmdf'
    BY <2>1, <2>2 DEF DeathExplainedHmdf
  <2> QED BY <2>1, <2>2, <2>3 DEF HmdfInv, TypeOK
<1>8. CASE ReadImeds
  <2>1. /\ Kept /\ last' = "read"
        /\ fate' = "overrun" => \/ disk.kind = "none"
                                \/ \E k \in DOMAIN disk.of : disk.of[k].name.text = Empty
    BY <1>1, <1>8, ReadImedsStep
  <2>2. DeathExplainedHmdf'
    BY <2>1 DEF DeathExplainedHmdf, Kept
  <2> QED BY <1>1, <2>1, <2>2, KeptKeeps DEF HmdfInv
<1>9. CASE \E only \in BOOLEAN : ReadNetcdf(only)
  <2>1. Kept /\ fate' = "running"
    BY <1>1, <1>9, ReadNetcdfStep
  <2>2. DeathExplainedHmdf'
    BY <2>1 DEF DeathExplainedHmdf
  <2> QED BY <1>1, <2>1, <2>2, KeptKeeps DEF HmdfInv
<1> QED BY <1>2, <1>3, <1>4, <1>5, <1>6, <1>7, <1>8, <1>9, <1>10 DEF Next

(* The strengthened invariant, of which all that follows are consequences:  *)
(* what the history lets the vectors of a station be, and what a whole file *)
(* says.                                                                    *)
THEOREM HmdfInvariant == Spec => []HmdfInv
<1>1. Init => HmdfInv
  BY InitHolds
<1>2. HmdfInv /\ [Next]_vars => HmdfInv'
  BY StepHolds
<1> QED BY <1>1, <1>2, PTL DEF Spec

(* A process dies in these classes only for a reason its owner can name     *)
(* (hmdf.cpp, hmdfstation.cpp: the vectors of a station part only by the    *)
(* setters that hand over whole ones, an id is outrun only by a longer      *)
(* name), however often stations are filled, written and read.              *)
THEOREM HmdfDeathsExplained == Spec => []DeathExplainedHmdf
<1>1. HmdfInv => DeathExplainedHmdf
  BY DEF HmdfInv
<1> QED BY <1>1, HmdfInvariant, PTL

(* A fort.61 that writeAdcirc() ended holds all values of all stations, one *)
(* date to a record (hmdf.cpp: the comparison before the first record).     *)
THEOREM AdcircFilesConsistent == Spec => []AdcircConsistent
<1>1. HmdfInv => AdcircConsistent
  BY DEF HmdfInv
<1> QED BY <1>1, HmdfInvariant, PTL

-----------------------------------------------------------------------------
(* What is written comes back. *)

LEMMA SecondsCut ==
  ASSUME NEW d \in Nat
  PROVE  CutTo(Seconds(d), d)
<1>1. d % Tick \in 0..Tick - 1 /\ d = Tick * (d \div Tick) + (d % Tick) /\ d \div Tick \in Int
  BY HmdfAssumption
<1>2. Seconds(d) = Tick * (d \div Tick)
  BY <1>1, HmdfAssumption DEF Seconds
<1>3. \A q \in Int : (Tick * q) % Tick = 0
  BY HmdfAssumption
<1>4. d - Seconds(d) = d % Tick
  BY <1>1 DEF Seconds
<1> QED BY <1>1, <1>2, <1>3, <1>4 DEF CutTo

(* A station that was read is the one that was written. *)
LEMMA RereadSame ==
  ASSUME NEW was \in Station, Dated(was),
         NEW x, x = Reread(Held(disk.kind, was, NamedAs(disk.kind, was.name)), FALSE)
  PROVE  SameSeries(x, was)
<1>1. /\ x.name = NamedAs(disk.kind, was.name)
      /\ x.date = [j \in DOMAIN was.u |-> Seconds(was.date[j])]
      /\ x.u = [j \in DOMAIN was.u |-> Printed(disk.kind, was.u[j])]
  BY DEF Reread, Held
<1>2. \A j \in DOMAIN was.u : was.date[j] \in Nat
  <2>1. /\ was.date \in Seq(Nat) /\ Len(was.u) \in Nat /\ Len(was.date) \in Nat
        /\ DOMAIN was.u = 1..Len(was.u) /\ Len(was.u) <= Len(was.date)
    BY StationParts DEF Dated, NumSnaps
  <2> QED BY <2>1, ElementOfSeq
<1>3. \A j \in DOMAIN x.u : CutTo(x.date[j], was.date[j])
  BY <1>1, <1>2, SecondsCut
<1> QED BY <1>1, <1>3 DEF SameSeries

(* The calls that read are those of read(). *)
LEMMA OnlyReads ==
  ASSUME Next, last' = "read", fate' = "running"
  PROVE  ReadImeds \/ ReadNetcdf(FALSE)
<1>1. ASSUME NEW i \in DOMAIN station,
             \/ \E d \in Dates, x \in Values : SetNext(i, d, x)
             \/ \E ds \in Calendars : SetDate(i, ds)
             \/ \E us, vs \in Series : SetData(i, us, vs)
             \/ \E us \in Series : SetFloats(i, us)
             \/ \E j \in 1..MaxSnaps, d \in Dates, x \in Values : SetDateAt(i, j, d) \/ SetDataAt(i, j, x)
             \/ \E b \in BOOLEAN : SetIsNull(i, b) \/ SetStationVector(i, b)
             \/ ClearStation(i)
             \/ \E most \in Values : Sanitize(i, most)
             \/ SanitizeFails(i)
             \/ \E text \in Texts, id \in Ids, v \in BOOLEAN : SetStation(i, text, id, v)
      PROVE  last' # "read"
  BY <1>1 DEF SetNext, SetDate, SetData, SetFloats, SetDateAt, SetDataAt, SetIsNull, SetStationVector,
              ClearStation, Sanitize, SanitizeFails, SetStation, Edit, Become, Call, Parting, Counted
<1>2. ASSUME \/ \E text \in Texts, id \in Ids : AddStation(text, id)
             \/ \E b \in BOOLEAN : SetVector(b)
             \/ \E itself \in BOOLEAN, text \in Texts, id \in Ids : CopyStationList(itself, text, id)
             \/ Clear \/ DataBounds \/ \E i \in 1..(MaxStations + 1) : SetStationPast(i)
             \/ WriteImeds \/ WriteNetcdf \/ WriteAdcirc
      PROVE  last' # "read"
  BY <1>2 DEF AddStation, SetVector, CopyStationList, Clear, DataBounds, SetStationPast, WriteImeds, WriteNetcdf,
              WriteAdcirc, Writing, Call, Counted
<1>3. ASSUME ReadNetcdf(TRUE) PROVE last' # "read"
  BY <1>3 DEF ReadNetcdf, Reading, Call, Counted
<1> QED BY <1>1, <1>2, <1>3 DEF Next

(* What write() puts in an IMEDS or netCDF file comes back from read()      *)
(* (hmdf.cpp: writeImeds, readImeds, writeNetcdf, readNetcdf): the stations *)
(* that were written, in order, behind the ones there were.                 *)
THEOREM ReadsBackAlways == Spec => ReadsBack
<1>1. ASSUME HmdfInv, [Next]_vars, last' = "read", calls' # calls, fate' = "running", disk.whole
      PROVE  /\ Len(station') = Len(station) + Len(disk.of)
             /\ SubSeq(station', 1, Len(station)) = station
             /\ \A i \in DOMAIN disk.of : SameSeries(station'[Len(station) + i], disk.of[i])
  <2>1. ReadImeds \/ ReadNetcdf(FALSE)
    BY <1>1, OnlyReads DEF vars
  <2>2. TypeOK
    BY <1>1 DEF HmdfInv
  <2>3. disk.kind \in {"imeds", "netcdf"} /\ station' = station \o Added(FALSE)
    BY <1>1, <2>1, <2>2, ReadImedsStep, ReadNetcdfStep
  <2>4. /\ Added(FALSE) \in Seq(Station) /\ Len(Added(FALSE)) = Len(disk.says)
        /\ Len(disk.says) \in Nat
        /\ \A i \in 1..Len(disk.says) : Added(FALSE)[i] = Reread(disk.says[i], FALSE)
    BY <2>2, <2>3, AddedIs
  <2>5. Says(disk) /\ disk.of \in Seq(Station)
    BY <2>2, <2>3 DEF TypeOK, FileTyped
  <2>6. /\ Len(disk.says) = Len(disk.of)
        /\ \A i \in 1..Len(disk.of) :
             /\ Dated(disk.of[i])
             /\ disk.says[i] = Held(disk.kind, disk.of[i], NamedAs(disk.kind, disk.of[i].name))
    BY <1>1, <2>5 DEF Says
  <2>7. DOMAIN disk.of = 1..Len(disk.of) /\ \A i \in 1..Len(disk.of) : disk.of[i] \in Station
    BY <2>5, LenProperties, ElementOfSeq
  <2>8. station \in Seq(Station) /\ Len(station) \in Nat
    BY <2>2, ListedParts DEF TypeOK
  <2>9. /\ Len(station') = Len(station) + Len(disk.says)
        /\ \A i \in 1..Len(disk.says) : station'[Len(station) + i] = Added(FALSE)[i]
    <3>1. /\ Len(station') = Len(station) + Len(Added(FALSE))
          /\ \A k \in 1..Len(station) + Len(Added(FALSE)) :
               station'[k] = IF k <= Len(station) THEN station[k] ELSE Added(FALSE)[k - Len(station)]
      BY <2>3, <2>4, <2>8, ConcatProperties
    <3>2. ASSUME NEW i \in 1..Len(disk.says) PROVE station'[Len(station) + i] = Added(FALSE)[i]
      <4> DEFINE n == Len(station)
                 m == Len(disk.says)
      <4>1. \A k \in 1..n + m : station'[k] = IF k <= n THEN station[k] ELSE Added(FALSE)[k - n]
        BY <2>4, <3>1
      <4>2. n \in Nat /\ m \in Nat /\ i \in 1..m
        BY <2>4, <2>8
      <4> HIDE DEF n, m
      <4>3. n + i \in 1..n + m /\ n + i > n /\ (n + i) - n = i
        BY <4>2
      <4> DEFINE k == n + i
      <4>4. k \in 1..n + m /\ ~(k <= n) /\ k - n = i
        BY <4>2, <4>3
      <4> HIDE DEF k
      <4>5. station'[k] = Added(FALSE)[k - n]
        BY <4>1, <4>4
      <4> QED BY <4>4, <4>5 DEF k, n
    <3> QED BY <2>4, <3>1, <3>2
  <2>10. SubSeq(station', 1, Len(station)) = station
    BY <2>3, <2>4, <2>8, HeadOfConcat
  <2>11. ASSUME NEW i \in DOMAIN disk.of PROVE SameSeries(station'[Len(station) + i], disk.of[i])
    <3>1. i \in 1..Len(disk.of) /\ i \in 1..Len(disk.says)
      BY <2>6, <2>7
    <3>2. station'[Len(station) + i]
            = Reread(Held(disk.kind, disk.of[i], NamedAs(disk.kind, disk.of[i].name)), FALSE)
      BY <2>4, <2>6, <2>9, <3>1
    <3> QED BY <2>6, <2>7, <3>1, <3>2, RereadSame
  <2> QED BY <2>6, <2>9, <2>10, <2>11
<1>2. HmdfInv /\ [Next]_vars =>
        [(last' = "read" /\ calls' # calls /\ fate' = "running" /\ disk.whole) =>
           /\ Len(station') = Len(station) + Len(disk.of)
           /\ SubSeq(station', 1, Len(station)) = station
           /\ \A i \in DOMAIN disk.of : SameSeries(station'[Len(station) + i], disk.of[i])]_vars
  BY <1>1
<1> QED BY <1>2, HmdfInvariant, PTL DEF Spec, ReadsBack
=============================================================================
