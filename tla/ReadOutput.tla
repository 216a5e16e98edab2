------------------------------ MODULE ReadOutput ------------------------------
(***************************************************************************)
(* The reader of ADCIRC global output files, class ReadOutput of           *)
(* src/src/readoutput.cpp: one object, the calls its owner makes on it, in *)
(* any order, and the exceptions the owner may catch before the next call. *)
(*                                                                         *)
(* Payloads are abstracted to the snap they were written as: a record      *)
(* "holds" snap k of file f.  An ASCII file is the sequence of its lines   *)
(* below the two header lines, because a failed read leaves the stream in  *)
(* the middle of a record.  The asserts of the source are absent, as in    *)
(* the release build.                                                      *)
(***************************************************************************)
EXTENDS Integers, FiniteSets, Sequences, SequencesExt

CONSTANTS
  Files,        \* the names a reader may be pointed at
  Disks,        \* the file systems it may find
  UserIds,      \* snap numbers of the records handed to addRecord
  Cursors,      \* values handed to setCurrentSnap
  MaxRecords,   \* bound: records held in memory
  MaxSnap,      \* bound: snap numbers requested and cursor position
  MaxVarids     \* bound: variable ids accumulated over the sessions

VARIABLES
  disk,         \* what each name holds; the reader never writes it
  filename,     \* m_filename
  open,         \* m_open
  filetype,     \* m_filetype
  handle,       \* m_fid or m_ncid: Closed, or the lines consumed so far
  currentSnap,  \* m_currentSnap
  numSnaps,     \* m_numSnaps
  numNodes,     \* m_numNodes
  meta,         \* m_metadata
  times,        \* size of m_time
  varids,       \* m_varid_data
  records,      \* m_records
  recordMap,    \* m_recordMap, positions counted from 1
  ret,          \* how the last call ended
  disturbed,    \* history: the object has left the straight open-read-close path
  opened        \* history: the files it has opened

cursor == <<filename, open, filetype, handle, currentSnap>>
header == <<numSnaps, numNodes, meta, times, varids>>
store  == <<records, recordMap>>
vars   == <<disk, cursor, header, store, ret, disturbed, opened>>

Closed   == -1
NextSnap == -1  \* nextOutputSnap()
Garbled  == -1  \* not the data of any one snap
Nobody   == "user"

AsciiFormats  == {"asciiFull", "asciiSparse"}
NetcdfFormats == {"netcdf3", "netcdf4"}
Formats       == AsciiFormats \cup NetcdfFormats \cup {"unknown"}

(***************************************************************************)
(* Files.  A line is named by the format it has: the header of a full or a *)
(* sparse record, a scalar or a vector value, or a line that does not      *)
(* parse.  A "stump" is a record header left with one to three of its      *)
(* tokens.  "count" is the number of lines a sparse header announces, or   *)
(* of the tokens of a stump; "cut" says the last line lost its newline.  A *)
(* netCDF file has one "slab" for each record of its time dimension.       *)
(* "fields" are the netCDF variables of data, defined after all others,    *)
(* "vars" those the metadata table recognises.  "snap" is the snap of the  *)
(* model's run the numbers are of.                                         *)
(***************************************************************************)
RecordHeads == {"full", "sparse"}
Line == [kind : RecordHeads \cup {"stump", "scalar", "vector", "slab", "bad"},
         snap : Nat \cup {Garbled}, count : Nat]

FileDesc ==
  [format : Formats \cup {"missing"},
   header : {"ok", "badCount", "badField", "short"},
   snaps  : Nat, nodes : Nat,
   lines  : Seq(Line), cut : BOOLEAN,
   fields : SUBSET Nat, vars : Seq(Nat),
   vector : BOOLEAN, max : BOOLEAN, dim : 0..3]

(* A file as it was written, though perhaps damaged or cut since: an ASCII    *)
(* file has its records one after the other, the lines of each behind its     *)
(* header, a damaged line in its place.  The first header is whole: its two   *)
(* or four tokens are what the format was told by.  A netCDF file has a slab  *)
(* for each snap, and, but for files of three components, a variable for each *)
(* component; a file of three has two of them at least.                       *)
HeadsRecord(f, i, k) ==
  \/ f.lines[i].kind \in {"bad", "stump"}
  \/ f.lines[i].kind \in RecordHeads /\ f.lines[i].snap = k
ValueLines(f, i) == IF f.lines[i].kind = "full" THEN f.nodes ELSE f.lines[i].count
WrittenAscii(f) ==
  /\ f.lines # <<>> => HeadsRecord(f, 1, 0) /\ f.lines[1].kind # "stump"
  /\ \A i \in DOMAIN f.lines : f.lines[i].kind \in RecordHeads =>
       LET next == i + ValueLines(f, i) + 1
       IN  /\ \A j \in DOMAIN f.lines : i < j /\ j < next => f.lines[j].snap = f.lines[i].snap
           /\ next \in DOMAIN f.lines => HeadsRecord(f, next, f.lines[i].snap + 1)
WrittenNetcdf(f) ==
  /\ Len(f.lines) = f.snaps /\ \A i \in DOMAIN f.lines : f.lines[i].snap = i - 1
  /\ f.max => f.snaps <= 1
  /\ f.vars # <<>> => IF f.dim < 3 THEN Len(f.vars) = f.dim ELSE Len(f.vars) > 1
  /\ \A i \in DOMAIN f.vars : f.vars[i] \in f.fields
Written(f) == /\ f.format \in AsciiFormats => WrittenAscii(f)
              /\ f.format \in NetcdfFormats => WrittenNetcdf(f)
(* No header of the file lost tokens. *)
HeadersWhole(f) == \A i \in DOMAIN f.lines : f.lines[i].kind # "stump"

FilesWritten == \A d \in Disks, f \in Files : Written(d[f])

ASSUME ReaderAssumption ==
  /\ Disks \subseteq [Files -> FileDesc]
  /\ Nobody \notin Files
  /\ UserIds \subseteq Nat
  /\ Cursors \subseteq Nat
  /\ MaxRecords \in Nat
  /\ MaxSnap \in Nat
  /\ MaxVarids \in Nat

Content == [file : Files \cup {Nobody}, snap : Nat \cup {Garbled}, vars : Seq(Nat)]
Nothing(f) == [file |-> f, snap |-> Garbled, vars |-> <<>>]

(* "whole" is false when the read that pushed the record threw. *)
Metadata == [vector : BOOLEAN, max : BOOLEAN, dim : 0..3]
OutputRecord ==
  [id : Nat, nodes : Nat, meta : Metadata, holds : Content, whole : BOOLEAN]

TypeOK ==
  /\ disk \in [Files -> FileDesc]
  /\ filename \in Files
  /\ open \in BOOLEAN
  /\ filetype \in Formats
  /\ handle \in Nat \cup {Closed}
  /\ currentSnap \in Nat
  /\ numSnaps \in Nat
  /\ numNodes \in Nat
  /\ meta \in Metadata
  /\ times \in Nat
  /\ varids \in Seq(Nat)
  /\ records \in Seq(OutputRecord)
  /\ DOMAIN recordMap \subseteq Nat
  /\ \A k \in DOMAIN recordMap : recordMap[k] \in Nat
  /\ ret \in {"none", "ok", "error", "crash"}
  /\ disturbed \in BOOLEAN
  /\ opened \subseteq Files

(* The object as the constructor leaves it. *)
Constructed ==
  /\ open = FALSE
  /\ filetype = "unknown"
  /\ handle = Closed
  /\ currentSnap = 0
  /\ numSnaps = 0
  /\ numNodes = 0
  /\ meta = [vector |-> FALSE, max |-> FALSE, dim |-> 1]
  /\ times = 0
  /\ varids = <<>>
  /\ records = <<>>
  /\ recordMap = <<>>
  /\ ret = "none"
  /\ disturbed = FALSE
  /\ opened = {}

Init == disk \in Disks /\ filename \in Files /\ Constructed

(* The object is destroyed and another made for the same file. *)
Replaced ==
  /\ open' = FALSE
  /\ filetype' = "unknown"
  /\ handle' = Closed
  /\ currentSnap' = 0
  /\ numSnaps' = 0
  /\ numNodes' = 0
  /\ meta' = [vector |-> FALSE, max |-> FALSE, dim |-> 1]
  /\ times' = 0
  /\ varids' = <<>>
  /\ records' = <<>>
  /\ recordMap' = <<>>
  /\ ret' = "none"
  /\ disturbed' = FALSE
  /\ opened' = {}
  /\ UNCHANGED <<disk, filename>>

-----------------------------------------------------------------------------
D == disk[filename]

Return  == ret' = "ok" /\ UNCHANGED disturbed
Throw   == ret' = "error" /\ disturbed' = TRUE
Refuse  == ret' = "error" /\ UNCHANGED disturbed
Abort   == ret' = "crash" /\ UNCHANGED disturbed
Running == ret # "crash" /\ UNCHANGED disk

-----------------------------------------------------------------------------
(* open(), close(), setFilename() *)

SetFilename(f) ==
  /\ Running
  /\ IF open THEN Refuse /\ UNCHANGED cursor
             ELSE Return /\ filename' = f
                  /\ UNCHANGED <<open, filetype, handle, currentSnap>>
  /\ UNCHANGED <<header, store, opened>>

OpenRefused ==
  /\ Running
  /\ open \/ D.format = "missing"
  /\ Refuse
  /\ UNCHANGED <<cursor, header, store, opened>>

(* setFiletype() comes before the test that rejects the type. *)
OpenUnknown ==
  /\ Running
  /\ ~open /\ D.format = "unknown"
  /\ filetype' = "unknown"
  /\ Throw
  /\ UNCHANGED <<filename, open, handle, currentSnap, header, store, opened>>

OpenCommon ==
  /\ open' = TRUE
  /\ filetype' = D.format
  /\ opened' = opened \cup {filename}
  /\ UNCHANGED <<filename, currentSnap, store>>

(* openAscii() then readAsciiHeader(): numSnaps is assigned before its       *)
(* conversion is checked, a bad field closes the stream but not the reader,  *)
(* a short line throws out of vector::at and closes nothing.                 *)
OpenAscii ==
  /\ Running
  /\ ~open /\ D.format \in AsciiFormats
  /\ OpenCommon
  /\ numSnaps' = IF D.header = "badCount" THEN 0 ELSE D.snaps
  /\ numNodes' = IF D.header = "badCount" THEN numNodes ELSE D.nodes
  /\ handle' = IF D.header \in {"badCount", "badField"} THEN Closed ELSE 0
  /\ IF D.header = "ok"
       THEN /\ meta' = [meta EXCEPT !.vector = D.vector,
                                    !.dim = IF D.vector THEN 2 ELSE 1]
            /\ Return
       ELSE Throw /\ UNCHANGED meta
  /\ UNCHANGED <<times, varids>>

(* openNetcdf() then readNetcdfHeader() and findNetcdfVarId(), which rejects *)
(* the netCDF3 format and appends to the variable ids of earlier sessions;   *)
(* the fill value is asked of the first of them, whichever file it came      *)
(* from.  With no time record, t[0] dereferences an empty vector.            *)
OpenNetcdf ==
  /\ Running
  /\ ~open /\ D.format \in NetcdfFormats
  /\ Len(varids) + Len(D.vars) <= MaxVarids
  /\ OpenCommon
  /\ handle' = 0
  /\ IF D.header # "ok"
       THEN Throw /\ UNCHANGED header
       ELSE /\ numSnaps' = D.snaps
            /\ numNodes' = D.nodes
            /\ IF D.snaps = 0
                 THEN Abort /\ UNCHANGED <<times, meta, varids>>
                 ELSE /\ times' = D.snaps
                      /\ IF D.format = "netcdf3" \/ D.vars = <<>>
                           THEN Throw /\ UNCHANGED <<meta, varids>>
                           ELSE /\ varids' = varids \o D.vars
                                /\ meta' = [vector |-> D.vector, max |-> D.max,
                                            dim |-> IF Len(D.vars) = 1 THEN 1 ELSE D.dim]
                                /\ IF \E v \in D.fields : varids'[1] <= v
                                     THEN Return ELSE Throw

CloseRefused ==
  /\ Running
  /\ ~open
  /\ Refuse
  /\ UNCHANGED <<cursor, header, store, opened>>

(* Mutant of CloseFile: the variable ids are forgotten, the file type is not. *)
CloseFileForgetful ==
  /\ Running
  /\ open
  /\ open' = FALSE
  /\ handle' = Closed
  /\ varids' = <<>>
  /\ ret' = "ok"
  /\ disturbed' = (disturbed \/ currentSnap # 0)
  /\ UNCHANGED <<filename, filetype, currentSnap, numSnaps, numNodes, meta, times,
                 store, opened>>

(* currentSnap survives: a later session starts labelling where this ended. *)
CloseFile ==
  /\ Running
  /\ open
  /\ open' = FALSE
  /\ handle' = Closed
  /\ ret' = "ok"
  /\ disturbed' = (disturbed \/ currentSnap # 0)
  /\ UNCHANGED <<filename, filetype, currentSnap, header, store, opened>>

-----------------------------------------------------------------------------
(* read(): both record readers push the record before they parse it, and     *)
(* enter it in the map and advance the cursor after.                         *)

NewRecord(k, holds, whole) ==
  [id |-> k, nodes |-> numNodes, meta |-> meta, holds |-> holds, whole |-> whole]

Keep(k, holds) ==
  /\ records' = Append(records, NewRecord(k, holds, TRUE))
  /\ recordMap' = [j \in DOMAIN recordMap \cup {k} |->
                     IF j = k THEN Len(records) + 1 ELSE recordMap[j]]
  /\ currentSnap' = currentSnap + 1
  /\ Return

(* Mutant of Orphan: the map is set before the record is parsed. *)
OrphanMapped(k) ==
  /\ records' = Append(records, NewRecord(k, Nothing(filename), FALSE))
  /\ recordMap' = [j \in DOMAIN recordMap \cup {k} |->
                     IF j = k THEN Len(records) + 1 ELSE recordMap[j]]
  /\ UNCHANGED currentSnap
  /\ Throw

Orphan(k) ==
  /\ records' = Append(records, NewRecord(k, Nothing(filename), FALSE))
  /\ UNCHANGED <<recordMap, currentSnap>>
  /\ Throw

ReadUnknown ==
  /\ Running
  /\ filetype = "unknown"
  /\ Refuse
  /\ UNCHANGED <<cursor, header, store, opened>>

Reading ==
  /\ Running
  /\ Len(records) < MaxRecords
  /\ currentSnap < MaxSnap
  /\ UNCHANGED <<filename, open, filetype, header, opened>>

ReadAsciiPastLast ==
  /\ Running
  /\ filetype \in AsciiFormats
  /\ currentSnap > numSnaps
  /\ Refuse
  /\ UNCHANGED <<cursor, header, store, opened>>

ReadingAscii ==
  /\ Reading
  /\ filetype \in AsciiFormats
  /\ currentSnap <= numSnaps

(* What getline() leaves in the local string at line i of a record body: a   *)
(* file cut inside its last line repeats that line, otherwise the string is  *)
(* empty past the end.                                                       *)
EmptyLine == [kind |-> "bad", snap |-> 0, count |-> 0]
LineAt(i) == IF i <= Len(D.lines) THEN D.lines[i]
             ELSE IF D.cut THEN D.lines[Len(D.lines)] ELSE EmptyLine
Consumed(i) == IF i <= Len(D.lines) THEN i ELSE Len(D.lines)

(* Mutant of Announced: the count of a sparse header is ignored. *)
AnnouncedFull(l) == IF l.kind \in {"full", "sparse", "scalar"} THEN {numNodes} ELSE {}

(* The header loop asks the token list for a second token, and for a fourth  *)
(* where it finds three: of the one token or the three tokens of a stump, or *)
(* the three of a vector value, that is past the end.  What is found there   *)
(* may pass for a number, be rejected, or end the process.                   *)
Overruns(l) == l.kind = "vector" \/ (l.kind = "stump" /\ l.count # 2)

(* How many lines a record takes when line l is taken for its header.        *)
Announced(l) ==
  CASE l.kind \in {"full", "scalar"} -> {numNodes}
    [] l.kind = "sparse" -> {l.count}
    [] l.kind = "stump" /\ l.count < 3 -> {numNodes}
    [] Overruns(l) -> 0..numNodes
    [] OTHER -> {}

AtRecord == handle # Closed /\ handle < Len(D.lines)
Top == handle + 1

(* A scalar value lacks the second component a vector file asks for.  A      *)
(* record header read as a value may parse, if its first digits happen to be *)
(* a node number.                                                            *)
Rejects(i)   == LineAt(i).kind = "bad" \/ (meta.vector /\ LineAt(i).kind = "scalar")
MayReject(i) == Rejects(i) \/ LineAt(i).kind \in RecordHeads \cup {"stump"}

(* The snap a record taken from line Top and the n lines below it belongs to. *)
SnapRead(n) ==
  IF /\ D.lines[Top].kind \in RecordHeads \/ (D.lines[Top].kind = "stump" /\ n = numNodes)
     /\ Top + n <= Len(D.lines)
     /\ ~(D.cut /\ Top + n = Len(D.lines))
     /\ \A i \in Top..(Top + n) : D.lines[i].snap = D.lines[Top].snap
  THEN D.lines[Top].snap ELSE Garbled

ReadAsciiRecord ==
  /\ ReadingAscii
  /\ AtRecord
  /\ \E n \in Announced(D.lines[Top]) :
       /\ \A i \in (Top + 1)..(Top + n) : ~Rejects(i)
       /\ handle' = Consumed(Top + n)
       /\ Keep(currentSnap, [file |-> filename, snap |-> SnapRead(n), vars |-> <<>>])

ReadAsciiNoHeader ==
  /\ ReadingAscii
  /\ AtRecord => D.lines[Top].kind = "bad" \/ Overruns(D.lines[Top])
  /\ handle' = IF AtRecord THEN Top ELSE handle
  /\ Orphan(currentSnap)

ReadAsciiBadValue ==
  /\ ReadingAscii
  /\ AtRecord
  /\ \E n \in Announced(D.lines[Top]) : \E i \in (Top + 1)..(Top + n) :
       /\ MayReject(i)
       /\ \A j \in (Top + 1)..(i - 1) : ~Rejects(j)
       /\ handle' = Consumed(i)
  /\ Orphan(currentSnap)

ReadAsciiCrash ==
  /\ ReadingAscii
  /\ AtRecord
  /\ Overruns(D.lines[Top])
  /\ handle' = Top
  /\ records' = Append(records, NewRecord(currentSnap, Nothing(filename), FALSE))
  /\ UNCHANGED <<recordMap, currentSnap>>
  /\ Abort

(* Mutant of Wanted: snaps are taken to be counted from one. *)
WantedFromOne(s) == IF s = NextSnap THEN currentSnap ELSE s - 1

Wanted(s) == IF s = NextSnap THEN currentSnap ELSE s

ReadNetcdfPastLast(s) ==
  /\ Running
  /\ filetype \in NetcdfFormats
  /\ Wanted(s) > numSnaps
  /\ Refuse
  /\ UNCHANGED <<cursor, header, store, opened>>

(* No test that the file is open; the guard lets snap = numSnaps through. *)
ReadingNetcdf(s) ==
  /\ Reading
  /\ filetype \in NetcdfFormats
  /\ Wanted(s) <= numSnaps
  /\ UNCHANGED handle

(* Mutant of Components: the second component is read from the first variable. *)
ComponentsRepeated == IF meta.dim = 1 THEN <<1>> ELSE <<1, 1>>

(* Indices into m_varid_data: three components read the second one twice. *)
Components == CASE meta.dim = 1 -> <<1>>
                [] meta.dim = 2 -> <<1, 2>>
                [] meta.dim = 3 /\ ~meta.max -> <<2, 2, 3>>
                [] OTHER -> <<>>
Present == \A i \in DOMAIN Components : Components[i] <= Len(varids)
VarsRead == [i \in DOMAIN Components |-> varids[Components[i]]]

Slab(k) == LET i == IF meta.max THEN 1 ELSE k + 1
           IN  IF i \in DOMAIN D.lines THEN D.lines[i].snap ELSE Garbled
InFile(k) == handle # Closed /\ (meta.max \/ k < D.snaps)
OwnFields == Present /\ \A i \in DOMAIN Components : varids[Components[i]] \in D.fields

ReadNetcdfRecord(s) ==
  LET k == Wanted(s) IN
  /\ ReadingNetcdf(s)
  /\ times > 0 /\ varids # <<>>
  /\ InFile(k)
  /\ IF Present
       THEN Keep(k, [file |-> filename, vars |-> VarsRead,
                     snap |-> IF k < times THEN Slab(k) ELSE Garbled])
       ELSE Keep(k, Nothing(filename))

ReadNetcdfError(s) ==
  /\ ReadingNetcdf(s)
  /\ times > 0 /\ varids # <<>>
  /\ ~InFile(Wanted(s)) \/ ~OwnFields
  /\ Orphan(Wanted(s))

(* m_time[snap] past the end, m_varid_data[0] of an empty vector, or, in a   *)
(* maximum file, nc_get_var() of a variable that is no field of it, which    *)
(* fills the record's vector with as many values as that variable has.       *)
ReadNetcdfCrash(s) ==
  /\ ReadingNetcdf(s)
  /\ \/ Wanted(s) >= times
     \/ varids = <<>>
     \/ handle # Closed /\ meta.max /\ ~OwnFields
  /\ records' = Append(records, NewRecord(Wanted(s), Nothing(filename), FALSE))
  /\ UNCHANGED <<recordMap, currentSnap>>
  /\ Abort

-----------------------------------------------------------------------------
(* The store of records. *)

(* Mutants of RebuiltMap: the loop stops one record early; the first record  *)
(* of a number is kept, as with emplace().                                   *)
RebuiltMapShort(recs) ==
  [k \in {recs[i].id : i \in 1..(Len(recs) - 1)} |->
     CHOOSE i \in 1..(Len(recs) - 1) :
       /\ recs[i].id = k
       /\ \A j \in 1..(Len(recs) - 1) : recs[j].id = k => j <= i]
RebuiltMapFirst(recs) ==
  [k \in {recs[i].id : i \in DOMAIN recs} |->
     CHOOSE i \in DOMAIN recs :
       /\ recs[i].id = k
       /\ \A j \in DOMAIN recs : recs[j].id = k => i <= j]

(* rebuildMap(): later records overwrite earlier ones of the same number. *)
RebuiltMap(recs) ==
  [k \in {recs[i].id : i \in DOMAIN recs} |->
     CHOOSE i \in DOMAIN recs :
       /\ recs[i].id = k
       /\ \A j \in DOMAIN recs : recs[j].id = k => j <= i]

AddRecord(k) ==
  /\ Running
  /\ Len(records) < MaxRecords
  /\ records' = Append(records, NewRecord(k, Nothing(Nobody), TRUE))
  /\ recordMap' = RebuiltMap(records')
  /\ Return
  /\ UNCHANGED <<cursor, header, opened>>

Clear ==
  /\ Running
  /\ records' = <<>>
  /\ recordMap' = <<>>
  /\ Return
  /\ UNCHANGED <<cursor, header, opened>>

(* Mutant of ClearAt: a record is dropped and the map left as it was. *)
ClearAtUnmapped(p) ==
  /\ Running
  /\ IF p \in DOMAIN records
       THEN records' = RemoveAt(records, p) /\ UNCHANGED recordMap /\ Return
       ELSE Refuse /\ UNCHANGED store
  /\ UNCHANGED <<cursor, header, opened>>

ClearAt(p) ==
  /\ Running
  /\ IF p \in DOMAIN records
       THEN /\ records' = RemoveAt(records, p)
            /\ recordMap' = RebuiltMap(records')
            /\ Return
       ELSE Refuse /\ UNCHANGED store
  /\ UNCHANGED <<cursor, header, opened>>

SetCurrentSnap(k) ==
  /\ Running
  /\ currentSnap' = k
  /\ ret' = "ok"
  /\ disturbed' = TRUE
  /\ UNCHANGED <<filename, open, filetype, handle, header, store, opened>>

-----------------------------------------------------------------------------
Requests == 0..MaxSnap \cup {NextSnap}

OpenCall  == OpenRefused \/ OpenUnknown \/ OpenAscii \/ OpenNetcdf
CloseCall == CloseRefused \/ CloseFile
ReadCall(s) ==
  \/ ReadUnknown
  \/ ReadAsciiPastLast
  \/ ReadAsciiRecord
  \/ ReadAsciiNoHeader
  \/ ReadAsciiBadValue
  \/ ReadAsciiCrash
  \/ ReadNetcdfPastLast(s)
  \/ ReadNetcdfRecord(s)
  \/ ReadNetcdfError(s)
  \/ ReadNetcdfCrash(s)

Next ==
  \/ OpenCall
  \/ CloseCall
  \/ \E s \in Requests : ReadCall(s)
  \/ \E f \in Files : SetFilename(f)
  \/ \E k \in UserIds : AddRecord(k)
  \/ Clear
  \/ \E p \in 1..MaxRecords : ClearAt(p)
  \/ \E k \in Cursors : SetCurrentSnap(k)

Spec == Init /\ [][Next]_vars

-----------------------------------------------------------------------------
(***************************************************************************)
(* Properties.                                                             *)
(***************************************************************************)

(* data(snap) returns the record it names: every entry of the map built by  *)
(* read(), addRecord() and clearAt() points inside the record vector, at a  *)
(* record that carries the number of the entry.                             *)
MapSound ==
  \A k \in DOMAIN recordMap :
    /\ recordMap[k] \in DOMAIN records
    /\ records[recordMap[k]].id = k

(* data(snap) finds whatever was read: no completely read record is missing *)
(* from the map, in whatever order records were read, added and dropped.    *)
MapTotal ==
  \A i \in DOMAIN records : records[i].whole => records[i].id \in DOMAIN recordMap

(* An entry of the map is never older than a completely read record of the  *)
(* same number: reading a snap again hides the earlier copy for good.       *)
MapLatest ==
  \A i \in DOMAIN records :
    records[i].whole => i <= recordMap[records[i].id]

(* A record whose read threw stays in the vector; no read ever makes        *)
(* data(snap) hand it out.  Only rebuildMap(), under addRecord() and        *)
(* clearAt(), may.                                                          *)
Exposed == {k \in DOMAIN recordMap : ~records[recordMap[k]].whole}
OrphansHidden ==
  [][Exposed' \subseteq Exposed
     \/ Len(records') < Len(records)
     \/ records'[Len(records')].holds.file = Nobody]_vars

(* On the straight path (one session, no failed read, cursor not moved by   *)
(* hand) an ASCII record carries the number of the snap it holds, unless    *)
(* the file was cut inside its last line, which is accepted as data.  A     *)
(* file with a header that lost tokens is left out: two left of four pass   *)
(* for a full header.                                                       *)
AsciiFaithful ==
  ~disturbed =>
    \A i \in DOMAIN records :
      LET r == records[i] IN
      (/\ r.whole /\ r.holds.file \in Files /\ disk[r.holds.file].format \in AsciiFormats
       /\ HeadersWhole(disk[r.holds.file]))
        => \/ r.holds.snap = r.id
           \/ r.holds.snap = Garbled /\ disk[r.holds.file].cut

(* A netCDF record holds the snap it is numbered with, read through the     *)
(* variables of its own file, after any history of sessions, failures and   *)
(* random reads, as long as the object has opened netCDF files with the     *)
(* same variable ids only, and the file is no three-component one.  Only    *)
(* the time of a maximum file read one past the end is garbage.             *)
OneLayout ==
  \A f, g \in {h \in opened : disk[h].format = "netcdf4"} : disk[f].vars = disk[g].vars
NetcdfFaithful ==
  OneLayout =>
    \A i \in DOMAIN records :
      LET r == records[i]
          f == disk[r.holds.file]
      IN
      (/\ r.whole /\ r.holds.file \in Files /\ f.format = "netcdf4"
       /\ f.header = "ok" /\ f.vars # <<>> /\ f.dim < 3)
        => /\ r.holds.snap = r.id \/ (r.holds.snap = Garbled /\ f.max /\ r.id = f.snaps)
           /\ r.holds.vars = f.vars

(* The ways a process that reads can die: its reader was used after an       *)
(* error, or with its cursor moved; it opened a netCDF file without a time   *)
(* record; it came past a record header that had lost tokens; it was asked   *)
(* for the netCDF snap one past the last; or it opened netCDF files of       *)
(* different variables.                                                      *)
PassedStump == open /\ \E i \in DOMAIN D.lines : i <= handle /\ D.lines[i].kind = "stump"
PastLast    == filetype \in NetcdfFormats /\ records # <<>> /\ Last(records).id >= times
CrashExplained ==
  ret = "crash" =>
    disturbed \/ (open /\ D.snaps = 0) \/ PassedStump \/ PastLast \/ ~OneLayout
=============================================================================
