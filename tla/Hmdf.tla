-------------------------------- MODULE Hmdf --------------------------------
(***************************************************************************)
(* Station time series: classes Hmdf and HmdfStation of src/src/hmdf.cpp   *)
(* and hmdfstation.cpp, with NetcdfTimeseries of netcdftimeseries.cpp.     *)
(* One Hmdf object, the calls its owner makes on it and on the stations it *)
(* hands out, and the file it writes and reads.                            *)
(*                                                                         *)
(* A date is a number of ticks since 1970, a value a member of a small     *)
(* ordered set whose least is the null value, a name a text, padded with   *)
(* zero bytes or not.  An owner catches exceptions; a call that throws     *)
(* before it changed anything is a step that changes nothing and is left   *)
(* out.  Coordinates, projections, headers and units are left out, and of  *)
(* an id all but its length.  Asserts are off, as in the release build.    *)
(***************************************************************************)
EXTENDS Integers, Sequences

CONSTANTS
  Dates,       \* dates a caller uses
  Tick,        \* ticks in a second
  Values,      \* values a caller uses
  Null,        \* nullDataValue()
  Texts,       \* names a caller uses
  Empty,       \* the empty name
  Size(_),     \* the length of a name
  Ids,         \* lengths of the ids a caller sets
  Plain(_),    \* a name with spaces, commas and double underscores replaced
  Printed(_,_), \* a value as a kind of file holds it
  Series,      \* sequences of values a caller hands over
  Calendars,   \* sequences of dates a caller hands over
  Starts,      \* scalar stations a caller has filled, one value after the other
  MaxStations, \* bound: stations
  MaxSnaps,    \* bound: values of a station
  MaxCalls     \* bound: calls

VARIABLES
  vector,  \* Hmdf::m_isVector
  station, \* m_station
  disk,    \* the file of the object's name
  fate,    \* how the process stands
  did,     \* history: calls that part a station's vectors, show a null one, pass the end
  last,    \* history: the kind of the last call
  calls    \* history: number of calls

vars == <<vector, station, disk, fate, did, last, calls>>

Name(text) == [text |-> text, padded |-> FALSE]

(* m_date, m_data_u and m_data_v have sizes of their own; numSnaps() is     *)
(* that of the second.  An id is its length.                                *)
Stations == [name : [text : Texts \cup {"noname"}, padded : BOOLEAN], id : Nat, date : Seq(Dates),
             u : Seq(Values), v : Seq(Values), vector : BOOLEAN, null : BOOLEAN]

Noid == 4   \* the length of "noid"

Blank(text, id, v) == [name |-> Name(text), id |-> id, date |-> <<>>, u |-> <<>>, v |-> <<>>,
                       vector |-> v, null |-> TRUE]
NumSnaps(s) == Len(s.u)
Dated(s)    == NumSnaps(s) <= Len(s.date)
Paired(s)   == NumSnaps(s) <= Len(s.v)

(* A file: what kind, whether it was written to its end, what it says, and, *)
(* history, the stations it was written from.                               *)
NoFile == [kind |-> "none", whole |-> TRUE, says |-> <<>>, of |-> <<>>]

ASSUME HmdfAssumption ==
  /\ Dates \subseteq Nat /\ Tick \in Nat \ {0}
  /\ Values \subseteq Int /\ Null \in Values /\ \A x \in Values : Null <= x
  /\ Empty \in Texts /\ Ids \subseteq Nat
  /\ \A n \in Texts \cup {"noname"} : Size(n) \in 0..200
  /\ \A n \in Texts \cup {"noname"} : /\ Plain(n) \in Texts \cup {"noname"}
                                      /\ Plain(n) = Empty <=> n = Empty
  /\ \A x \in Values : Printed("imeds", x) \in Values /\ Printed("netcdf", x) = x
  /\ Series \subseteq Seq(Values) /\ Calendars \subseteq Seq(Dates)
  /\ Starts \subseteq Seq({s \in Stations : ~s.vector /\ s.v = <<>> /\ s.null /\ Len(s.date) = Len(s.u)})
  /\ MaxStations \in Nat /\ MaxSnaps \in Nat /\ MaxCalls \in Nat

Counted(what) == /\ fate = "running"
                 /\ calls < MaxCalls
                 /\ calls' = calls + 1
                 /\ last' = what
Call(what)    == Counted(what) /\ UNCHANGED did
Parting(what) == Counted(what) /\ did' = did \cup {"parted"}

(***************************************************************************)
(* A station.                                                              *)
(***************************************************************************)
Become(i, s) == /\ station' = [station EXCEPT ![i] = s]
                /\ UNCHANGED <<vector, disk, fate>>
Edit(i, s)   == Become(i, s) /\ Call("edit")

(* Mutant of Grown: the second component is left out. *)
GrownFirst(s, d, x) == [s EXCEPT !.date = Append(@, d), !.u = Append(@, x)]

Grown(s, d, x) == [s EXCEPT !.date = Append(@, d), !.u = Append(@, x),
                            !.v = IF s.vector THEN Append(@, x) ELSE @]

SetNext(i, d, x) ==
  NumSnaps(station[i]) < MaxSnaps /\ Edit(i, Grown(station[i], d, x))

SetDate(i, ds) == Become(i, [station[i] EXCEPT !.date = ds]) /\ Parting("edit")

SetData(i, us, vs) ==
  LET s == station[i]
  IN  /\ Become(i, [s EXCEPT !.u = us, !.v = IF s.vector THEN vs ELSE @])
      /\ Parting("edit")

(* One value or one date, where there is a value already.                   *)
SetDataAt(i, j, x) ==
  /\ ~station[i].vector
  /\ j \in DOMAIN station[i].u
  /\ Edit(i, [station[i] EXCEPT !.u[j] = x])

SetDateAt(i, j, d) ==
  LET s == station[i]
  IN  /\ j \in DOMAIN s.u
      /\ IF j \in DOMAIN s.date
         THEN station' = [station EXCEPT ![i].date[j] = d] /\ fate' = "running"
         ELSE fate' = "overrun" /\ UNCHANGED station
      /\ Call("edit")
      /\ UNCHANGED <<vector, disk>>

(* Of pairs of floats: the test for the type is the wrong way round, and    *)
(* the second component is written where it has no room.                    *)
SetFloats(i, us) ==
  LET s == station[i]
  IN  /\ ~s.vector
      /\ station' = [station EXCEPT ![i].u = us, ![i].v = IF Len(us) <= Len(@)
                                                          THEN us \o SubSeq(@, Len(us) + 1, Len(@)) ELSE @]
      /\ fate' = IF Len(us) <= Len(s.v) THEN "running" ELSE "overrun"
      /\ Parting("floats")
      /\ UNCHANGED <<vector, disk>>

SetIsNull(i, b) == /\ Become(i, [station[i] EXCEPT !.null = b])
                   /\ Counted("edit")
                   /\ did' = IF b THEN did ELSE did \cup {"shown"}

SetStationVector(i, b) == Edit(i, [station[i] EXCEPT !.date = <<>>, !.u = <<>>, !.v = <<>>, !.vector = b])

(* clear() keeps the data. *)
ClearStation(i) == Edit(i, [station[i] EXCEPT !.name = Name("noname"), !.id = Noid, !.vector = FALSE, !.null = TRUE])

(* sanitize(): the pairs sorted by their date, in any order where dates are *)
(* the same, and values out of range made null.                             *)
Clean(x, most) == IF x > most THEN Null ELSE x

Sorted(s, p) == \A a, b \in DOMAIN s.date : a < b => s.date[p[a]] <= s.date[p[b]]

Ordered(s, p, most) ==
  [s EXCEPT !.date = [i \in DOMAIN @ |-> @[p[i]]],
            !.u = [i \in DOMAIN @ |-> IF i \in DOMAIN s.date THEN Clean(@[p[i]], most) ELSE @[i]],
            !.v = IF s.vector THEN [i \in DOMAIN @ |-> IF i \in DOMAIN s.date THEN Clean(@[p[i]], most) ELSE @[i]] ELSE @]

Reaches(s) == Len(s.date) <= Len(s.u) /\ (s.vector => Len(s.date) <= Len(s.v))

Sanitize(i, most) ==
  LET s == station[i]
      n == Len(s.date)
  IN  /\ Reaches(s)
      /\ \E p \in {q \in [1..n -> 1..n] : \A a, b \in 1..n : a # b => q[a] # q[b]} :
           Sorted(s, p) /\ station' = [station EXCEPT ![i] = Ordered(s, p, most)]
      /\ Call("sanitize")
      /\ UNCHANGED <<vector, disk, fate>>

SanitizeFails(i) ==
  /\ ~Reaches(station[i])
  /\ fate' = "overrun" /\ Call("sanitize")
  /\ UNCHANGED <<vector, station, disk>>

(***************************************************************************)
(* The list.                                                               *)
(***************************************************************************)
AddStation(text, id) ==
  /\ Len(station) < MaxStations
  /\ station' = Append(station, Blank(text, id, vector))
  /\ Call("edit")
  /\ UNCHANGED <<vector, disk, fate>>

(* Neither the type is compared, nor the index, which may be past the end.  *)
SetStation(i, text, id, v) == Edit(i, Blank(text, id, v))

SetStationPast(i) ==
  /\ i \notin DOMAIN station
  /\ fate' = "overrun"
  /\ Counted("edit") /\ did' = did \cup {"past"}
  /\ UNCHANGED <<vector, station, disk>>

SetVector(b) ==
  /\ vector' = b
  /\ station' = [i \in DOMAIN station |->
                   [station[i] EXCEPT !.date = <<>>, !.u = <<>>, !.v = <<>>, !.vector = b]]
  /\ Call("edit")
  /\ UNCHANGED <<disk, fate>>

Clear == station' = <<>> /\ Call("edit") /\ UNCHANGED <<vector, disk, fate>>

(* Of itself or of a list of one; of vectors, the first is refused after    *)
(* the list was cleared.                                                    *)
CopyStationList(itself, text, id) ==
  /\ station' = IF itself \/ vector THEN <<>> ELSE <<Blank(text, id, FALSE)>>
  /\ Call("edit")
  /\ UNCHANGED <<vector, disk, fate>>

(* dataBounds(): of a station that is not null, its first and last dates    *)
(* and values; where all values are the same, the first above the null one. *)
Bounded(s) == s.null \/ /\ s.date # <<>> /\ s.u # <<>> /\ s.vector => s.v # <<>>
                        /\ \E i \in DOMAIN s.u : s.u[i] # Null
                        /\ s.vector => \E i \in DOMAIN s.v : s.v[i] # Null
DataBounds ==
  /\ fate' = IF \A i \in DOMAIN station : Bounded(station[i]) THEN "running" ELSE "overrun"
  /\ Call("bounds")
  /\ UNCHANGED <<vector, station, disk>>

(***************************************************************************)
(* Writing.  The file is cut where a value is refused; a netCDF file is    *)
(* then left open.                                                         *)
(***************************************************************************)
(* Mutant of Seconds: a time is rounded up. *)
SecondsUp(d) == d + ((Tick - (d % Tick)) % Tick)

Seconds(d) == d - (d % Tick)

Held(kind, s, name) == [name |-> name, date |-> [i \in DOMAIN s.u |-> Seconds(s.date[i])],
                        u |-> [i \in DOMAIN s.u |-> Printed(kind, s.u[i])]]

First(set) == CHOOSE i \in set : \A j \in set : i <= j

Stored(kind, whole, says) ==
  /\ disk' = [kind |-> kind, whole |-> whole, says |-> says, of |-> station]
  /\ fate' = "running"
Overrun == fate' = "overrun" /\ UNCHANGED disk
Writing(what) == Call(what) /\ UNCHANGED <<vector, station>>

ImedsName(s)  == [s.name EXCEPT !.text = Plain(@)]
ImedsSays(n)  == [i \in 1..n |-> Held("imeds", station[i], ImedsName(station[i]))]
NetcdfSays    == [i \in DOMAIN station |-> Held("netcdf", station[i], [station[i].name EXCEPT !.padded = TRUE])]

WriteImeds ==
  LET stop == {i \in DOMAIN station : station[i].u # <<>> /\ (station[i].vector \/ ~Dated(station[i]))}
      i    == First(stop)
  IN  /\ IF stop = {} THEN Stored("imeds", TRUE, ImedsSays(Len(station)))
         ELSE IF station[i].vector
         THEN Stored("imeds", FALSE, Append(ImedsSays(i - 1), [name |-> ImedsName(station[i]), date |-> <<>>, u |-> <<>>]))
         ELSE Overrun
      /\ Writing("write")

(* An id is written with the length of its station's name, a padded one     *)
(* being 200 long.  What is read past the id and its ending zero ends the   *)
(* process or gets into the file, in a variable nothing here reads.         *)
NameSize(name) == IF name.padded THEN 200 ELSE Size(name.text)
Overread(s)    == s.id + 1 < NameSize(s.name)

WriteNetcdf ==
  LET stop == {i \in DOMAIN station : ~Dated(station[i]) \/ station[i].vector}
  IN  /\ \/ IF stop = {} THEN Stored("netcdf", TRUE, NetcdfSays)
            ELSE IF Dated(station[First(stop)]) THEN Stored("netcdf", FALSE, <<>>) ELSE Overrun
         \/ /\ \E i \in DOMAIN station : Overread(station[i]) /\ \A j \in stop : i < j
            /\ Overrun
      /\ Writing("netcdf")

(* A fort.61: a record for each snap of the first station, in it a value    *)
(* for each station.  What the record is said to be of is history.          *)
Snaps == NumSnaps(station[1])

Row(j) == [time |-> Seconds(station[1].date[j]) - Seconds(station[1].date[1])
                    + Seconds(station[1].date[2]) - Seconds(station[1].date[1]),
           dates |-> [i \in DOMAIN station |-> station[i].date[j]],
           us    |-> [i \in DOMAIN station |-> Printed("adcirc", station[i].u[j])]]

(* The first thing that goes wrong before the file is there: a station of   *)
(* another size, a date past the end, a date that differs.                  *)
Comparable(i, j) == j <= Len(station[i].date) /\ j <= Len(station[1].date)

(* Mutant of Clash: dates within a second of each other pass. *)
ClashOfSeconds(i) == {j \in 1..Snaps : Comparable(i, j) => Seconds(station[i].date[j]) # Seconds(station[1].date[j])}

Clash(i) == {j \in 1..Snaps : Comparable(i, j) => station[i].date[j] # station[1].date[j]}

Compare(i) ==
  IF i = 1 THEN "same"
  ELSE IF NumSnaps(station[i]) # Snaps THEN "differ"
  ELSE IF Clash(i) = {} THEN "same"
  ELSE IF Comparable(i, First(Clash(i))) THEN "differ" ELSE "overrun"
Compared == LET odd == {i \in DOMAIN station : Compare(i) # "same"}
            IN  IF odd = {} THEN "same" ELSE Compare(First(odd))

(* Then, in the first record, a station of the other type or without a      *)
(* second component, and in later ones a second component that ends.        *)
Refused == {i \in DOMAIN station : station[i].vector # vector}
Lacking == {i \in DOMAIN station : vector /\ station[i].vector /\ ~Paired(station[i])}
Missing == {i \in Lacking : station[i].v = <<>>}

WriteAdcirc ==
  /\ Compared # "differ"
  /\ IF Compared = "overrun" THEN Overrun
     ELSE IF station = <<>> THEN Stored("adcirc", FALSE, <<>>)
     ELSE IF Snaps < 2 THEN Stored("adcirc", FALSE, <<>>)
     ELSE IF ~Dated(station[1]) THEN Overrun
     ELSE IF Refused # {} /\ (Missing = {} \/ First(Refused) < First(Missing)) THEN Stored("adcirc", FALSE, <<>>)
     ELSE IF Lacking # {} THEN Overrun
     ELSE Stored("adcirc", TRUE, [j \in 1..Snaps |-> Row(j)])
  /\ Writing("write")

(***************************************************************************)
(* Reading, which adds to the stations there are.  An IMEDS file that is   *)
(* not there is read like one that ends after three lines of heading and   *)
(* one empty one, and a station without a name has too few words.  An IMEDS *)
(* file has no ids; of a netCDF file the name becomes the id, too.          *)
(***************************************************************************)
Reread(x, only) == [name |-> x.name, id |-> IF disk.kind = "netcdf" THEN 200 ELSE Noid,
                    date |-> IF only THEN <<>> ELSE x.date, u |-> IF only THEN <<>> ELSE x.u,
                    v |-> <<>>, vector |-> FALSE, null |-> TRUE]

Reading(what) == Call(what) /\ UNCHANGED <<vector, disk>>

ReadImeds ==
  LET nameless == \E i \in DOMAIN disk.says : disk.says[i].name = Name(Empty)
  IN  /\ ~vector
      /\ disk.kind \in {"none", "imeds"}
      /\ Len(station) + Len(disk.says) <= MaxStations
      /\ IF disk.kind = "none" \/ nameless
         THEN fate' = "overrun" /\ UNCHANGED station
         ELSE fate' = "running" /\ station' = station \o [i \in DOMAIN disk.says |-> Reread(disk.says[i], FALSE)]
      /\ Reading("read")

ReadNetcdf(only) ==
  /\ ~vector
  /\ disk.kind = "netcdf" /\ disk.whole
  /\ Len(station) + Len(disk.says) <= MaxStations
  /\ station' = station \o [i \in DOMAIN disk.says |-> Reread(disk.says[i], only)]
  /\ Reading(IF only THEN "list" ELSE "read")
  /\ UNCHANGED fate

Init == /\ vector \in BOOLEAN
        /\ station \in (IF vector THEN {<<>>} ELSE Starts)
        /\ disk = NoFile /\ fate = "running"
        /\ did = {} /\ last = "none" /\ calls = 0

Next ==
  \/ \E i \in DOMAIN station :
       \/ \E d \in Dates, x \in Values : SetNext(i, d, x)
       \/ \E ds \in Calendars : SetDate(i, ds)
       \/ \E us, vs \in Series : SetData(i, us, vs)
       \/ \E us \in Series : SetFloats(i, us)
       \/ \E j \in 1..MaxSnaps, d \in Dates, x \in Values : SetDateAt(i, j, d) \/ SetDataAt(i, j, x)
       \/ \E b \in BOOLEAN : SetIsNull(i, b) \/ SetStationVector(i, b)
       \/ ClearStation(i)
       \/ \E most \in Values : Sanitize(i, most)
       \/ SanitizeFails(i)
       \/ \E text \in Texts, id \in Ids, v \in BOOLEAN : SetStation(i, text, id, v)
  \/ \E i \in 1..(MaxStations + 1) : SetStationPast(i)
  \/ \E text \in Texts, id \in Ids : AddStation(text, id)
  \/ \E b \in BOOLEAN : SetVector(b)
  \/ \E itself \in BOOLEAN, text \in Texts, id \in Ids : CopyStationList(itself, text, id)
  \/ Clear \/ DataBounds
  \/ WriteImeds \/ WriteNetcdf \/ WriteAdcirc
  \/ ReadImeds \/ \E only \in BOOLEAN : ReadNetcdf(only)

Spec == Init /\ [][Next]_vars

(***************************************************************************)
(* Properties.                                                             *)
(***************************************************************************)
(* What write() puts in an IMEDS or netCDF file comes back from read(): the *)
(* stations that were written, in order and behind those already there,     *)
(* with all their values as the format holds them, each at its date cut to  *)
(* the second, under the name the format makes of theirs.                   *)
CutTo(is, was) == is % Tick = 0 /\ was - is \in 0..(Tick - 1)
NamedAs(kind, was) == IF kind = "imeds" THEN [was EXCEPT !.text = Plain(@)] ELSE [was EXCEPT !.padded = TRUE]
SameSeries(is, was) ==
  /\ is.name = NamedAs(disk.kind, was.name)
  /\ is.u = [j \in DOMAIN was.u |-> Printed(disk.kind, was.u[j])]
  /\ DOMAIN is.date = DOMAIN is.u
  /\ \A j \in DOMAIN is.u : CutTo(is.date[j], was.date[j])
ReadsBack ==
  [][(last' = "read" /\ calls' # calls /\ fate' = "running" /\ disk.whole) =>
       /\ Len(station') = Len(station) + Len(disk.of)
       /\ SubSeq(station', 1, Len(station)) = station
       /\ \A i \in DOMAIN disk.of : SameSeries(station'[Len(station) + i], disk.of[i])]_vars

(* A process dies inside these classes for a reason its owner can name:    *)
(* writing or sorting only after a setter that hands over whole vectors,   *)
(* setStation() only with an index past the end, dataBounds() only after a *)
(* station was said not to be null, writing a netCDF file only with a      *)
(* station whose name outruns its id, as any above five bytes does an id   *)
(* that was never set ("noid"), read() only without a file or with a       *)
(* station that has no name.                                               *)
DeathExplainedHmdf ==
  fate = "overrun" => \/ did \cap {"parted", "past"} # {}
                      \/ last = "bounds" /\ "shown" \in did
                      \/ last = "netcdf" /\ \E i \in DOMAIN station : Overread(station[i])
                      \/ last = "read" /\ \/ disk.kind = "none"
                                          \/ \E i \in DOMAIN disk.of : disk.of[i].name.text = Empty

(* A fort.61 that was written to its end has a record for every snap of    *)
(* every station, each with the values all stations have at one date, and  *)
(* its times run as those dates do.                                        *)
AdcircConsistent ==
  (disk.kind = "adcirc" /\ disk.whole) =>
    \A i \in DOMAIN disk.of, j \in DOMAIN disk.says :
      LET row == disk.says[j]
          was == disk.of[i]
      IN  /\ Len(disk.says) = Len(was.u)
          /\ row.us[i] = Printed("adcirc", was.u[j])
          /\ \A k \in DOMAIN disk.of : row.dates[i] = row.dates[k]
          /\ row.time - disk.says[1].time = Seconds(was.date[j]) - Seconds(was.date[1])
=============================================================================
