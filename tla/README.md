# TLA+ specifications of ADCIRCModules

ADCIRCModules is a C++ library, with a few command line programs, for the input
and output files of the ADCIRC ocean circulation model: unstructured meshes,
nodal attributes, time series of results, station output.  This directory holds
TLA+ modules for the parts of it that keep state, configurations that check
them with TLC on small instances, and proofs checked with TLAPS.

All source paths below are relative to `src/src/` unless they say otherwise.

## 1. The system

The library is single-threaded where it keeps state.  OpenMP is used inside
raster interpolation only, over data that does not change.  What makes it hard
is not concurrency.  It is the long life of its objects: a reader, a writer, a
mesh or a table of attributes is a bag of members, each of which some calls
update and others forget; any call may throw half way, and the language
bindings (`src/swig`) let a user catch the exception and go on.  Positions,
pointers and numbers duplicate each other (a map beside a vector, a lookup
table beside a numbering, pointers into vectors that grow), and a mismatch
between them is undefined behaviour, since the bounds are checked by `assert`
and release builds have none.

| Component | State it keeps | Operations | What makes it correct |
|---|---|---|---|
| **ReadOutput** `readoutput.cpp` | open flag, file type, stream or netCDF id, cursor `m_currentSnap`, header fields, variable ids, `m_records`, `m_recordMap` | `open`, `read(snap)`, `close`, `setFilename`, `addRecord`, `clear`, `clearAt`, `setCurrentSnap`, `data(snap)` | the map names the latest record of each number; a record holds the snap it is numbered with; half-read records stay unreachable |
| **OutputRecord, OutputMetadata, file types** `outputrecord.cpp`, `outputmetadata.cpp`, `filetypes.cpp` | the values of a snap, table of known variables | conversions between components, magnitude, direction; recognition of files | shape agrees with the file it came from |
| **WriteOutput** `writeoutput.cpp` | target, container, open flag, stream, variable ids, `m_recordsWritten`, sparse flag | `open`, `write(record)`, `close`, `writeSparseAscii` | what is written reads back |
| **StationInterpolation** `stationinterpolation.cpp`, `src/utilities/interpolateAdcircStations` | options, window, weights, station series | option checks, `run()` | the series is the requested window of snaps, once and in order, or nothing is written |
| **resultsScope** `src/utilities/resultsScope` | node map, reader, writer | `generateSubdomainOutput()`, `subsetRecord()` | the output holds every snap of the global file |
| **Mesh, Node, Element** `mesh_private.cpp`, `node.cpp`, `element.cpp` | node and element vectors, ordering flags, lookups, trees, hash, boundary sections | four readers, four writers, edits, searches, projection, copying | elements point at nodes of their own mesh; numbers find what they number |
| **ElementTable, MeshChecker** `elementtable.cpp`, `meshchecker.cpp` | lists of elements by node pointer | `build`, `elementList`, `checkMesh` | lists are exact; the checker neither overlooks nor invents |
| **Kdtree** `kdtree_private.cpp` | points of a tree and its owner's pointer | `build`, `findNearest`, ... | a tree is of the mesh it is asked about |
| **Boundary** `boundary.cpp`, sections in `mesh_private.cpp` | node strings, paired nodes, crest values, pipes, a hash; the mesh's vectors of them | set, copy, hash; insert, delete, read and write in the mesh | vectors sized as the boundary's type demands; what is written reads back |
| **NodalAttributes** `nodalattributes_private.cpp`, `attribute.cpp`, `attributemetadata.cpp` | metadata, a row of values for each, table of names, mesh pointer | `read`, `write`, `setMesh`, `addAttribute`, `attribute`, `metadata` | in memory is what the file says, and in the file what memory says |
| **Hash** `hash_private.cpp`, and the caches of it in node, element, boundary, mesh | digest context; a cached hash, a cached position hash | `addData`, `getHash`; `hash(type, force)`, `positionHash(force)` | a cached hash is of what is there |
| **Hmdf, HmdfStation, NetcdfTimeseries** `hmdf.cpp`, `hmdfstation.cpp`, `netcdftimeseries.cpp` | stations, dates, values, null value | readers and writers of station files | dates and values stay paired |
| **CDate** `cdate.cpp` | a date | arithmetic, set, compare | calendar laws |
| **generateAdcircSimulationDates** `src/utilities/generateAdcircSimulationDates` | dates of wind and simulation | one pass | the simulation ends on a cycle of SWAN |
| **GridData, RasterData, Pixel** | raster, thresholds, methods | averaging over pixels | numerical |
| **HarmonicsOutput, HarmonicsRecord** | constituents by node | one-pass readers | shape |
| **FileIO, StringConversion, Formatting** | none | text to numbers and back | a line converts or does not |
| **Logging, Multithreading, Config, Constants** | settings | | |

Interaction: `StationInterpolation` and `resultsScope` own a `ReadOutput` and a
`Mesh`; `WriteOutput` holds a pointer to the `ReadOutput` it copies header
fields from, and reads them again at every record; `NodalAttributes` keeps a
pointer to a `Mesh` and asks it for nodes by number; `MeshChecker` builds the
mesh's own `ElementTable`; elements, boundaries, tables and attributes hold raw
pointers into the node vector; the hash of a mesh asks its parts for theirs, and
elements and boundaries ask their nodes.  `Hmdf` hands out pointers to its
stations, and a mesh to its boundaries, which their callers then edit.

`PROJECT.json` lists every component with what is modelled of it, and, under
`hazards`, the lines where this state can go wrong, with the properties that
would notice.

## 2. Modules

```
ReadOutput <- ReadOutputProofs
    ^  ^---- WriteOutput <- RoundTrip          (a reader and a writer, free use)
    |             |             ^---- OutputProofs
    |             ^-------- ResultsScope       (reader and writer, one program)
    |                           ^-- OutputProofs        (with ReadOutputProofs)
    ^------- StationInterpolation --refines--> SnapWindow
                  ^---- OutputProofs
Mesh <------ MeshSearch                        (the mesh with its search trees)
  ^---- MeshFiles                              (the mesh with the file it writes)
           ^---- MeshProofs                    (with MeshSearch)
NodalAttributes <- NodalAttributesProofs
Boundary <- BoundaryProofs                     (a boundary, and a mesh's vector of them)
Fingerprint <- FingerprintProofs               (cached hashes of a mesh and its parts)
CDate <----- SimulationDates <- DateProofs     (dates, and the program made of them)
Hmdf <------ HmdfProofs                        (stations and the files they go to)
```

Each `MC...` module gives the files and other constants of a run.

Conventions that hold everywhere:

* One action for one call, with everything it does before it returns or throws.
  A call that throws is an action of its own (`...Error`, `...Refused`,
  `ReadBad...`) that leaves behind exactly what the code has changed by then.
* `ret` (in the mesh and attribute modules; `fate` in `Boundary` and `Hmdf`) is
  how the last call ended: returned, threw, or `"crash"`/`"dead"`.  In the
  modules with `fate` a call that throws before it changed anything is a step
  that changes nothing, and left out.  Undefined behaviour (an index past a vector, a dangling or null pointer) is
  taken to end the process, or is a choice among the outcomes it may have, where
  the process may well go on (a vector that grows *may* move; an element whose
  pointers dangle makes a call return *or* die).
* Lines whose tokens the code counts in no way (a record header, the sizes of a mesh,
  a line of defaults, a boundary heading) may be short of tokens in a file.  What an
  index past the token list finds is then a choice: a text that does not convert (the
  call throws), the end of the process, and, for a record header, a number as well.
* Asserts are absent, as in a release build.
* Files are records of what the code can tell apart: whether each part
  converts, how many lines there are, which snap or node a value belongs to.
  The values themselves are model values.  Which line fails to convert is data.
* Variables under "history" exist for the properties only.
* A definition named "Mutant of X" is a form X would have after a plausible
  mistake in the code.  `PROJECT.json` names, for every property, a mutant that
  makes its run find the property violated.

### ReadOutput

One `ReadOutput` object.  `cursor`, `header` and `store` are its members, by
the names of the source without `m_`.  An ASCII file is the sequence of its
lines, and `handle` counts the lines consumed: after a read that threw, the
stream stands in the middle of a record and the next read goes on from there.
A record's payload is replaced by `holds`, the file, snap and variables it was
read from; `Garbled` is the data of no one snap.  `ReadCall` has one disjunct
for each way a read ends.  `disturbed` remembers that the owner left the
straight path of one session without failures; `opened` which files it has seen.

The line a record header is expected on may be anything.  A `stump` is a header that
lost tokens.  The reader asks the list for a second token, and for a fourth
where it finds three (`readoutput.cpp:560`, `:567`, `:583`); `Overruns` says of which
lines that is past the end, of a line of the body that is reached out of step too, and
`ReadAsciiRecord`, `ReadAsciiNoHeader`, `ReadAsciiBadValue` and `ReadAsciiCrash` are the
ways the read goes on.  Two outcomes are left out: that an index past the list happens
to find a number above the nodes of the file, and that it runs on into memory it then
damages.

### WriteOutput and RoundTrip

`WriteOutput` adds a writer over the reader's variables, since the code's writer
keeps a pointer to its container and asks it for the shape of each record.
`made` remembers what was given to `write()`, and whether the session was sound
(opened once, container not turned to another file, every header legible).
A record with fewer components than its container (`Lacks`) has no values under the
missing ones: the netCDF writer passes the library what an empty vector gives
(`writeoutput.cpp:584`), which ends the process unless the library refuses the size first.
`RoundTrip` lets an owner use reader and writer in any order; what the writer
made is read by a reader afterwards.

### SnapWindow, StationInterpolation, ResultsScope

`SnapWindow` is the promise of a program that walks an output file.
`StationInterpolation` is `interpolateAdcircStations` step by step over the
actions of `ReadOutput`: option checks with a first reader, `run()` with a
second.  `Window == INSTANCE SnapWindow WITH ...` maps the window to
`startsnap`/`endsnap`, the deliveries to the series taken from `dataAt(0)`.
`ResultsScope` is `generateSubdomainOutput()` over reader and writer, then a
reader going through the result.

### Mesh, MeshSearch and MeshFiles

The vectors of nodes and elements, numbers and lookups, and the element table.
A pointer is the position it points at, or `Nowhere` once the vector has moved.
The four formats differ in what they do to an object that is not empty (the
ASCII and D-Flow readers resize, the other two append), in where they may throw
and in how they number.  `source` is the file the mesh still equals, `held` the
elements whose vertices are current, `table` what the element table is worth.
Three damages of a file have an outcome of their own: a size line of one token, whose
second is taken from past the list (`mesh_private.cpp:650`), throws or ends the process
(`"cut"`); an element line of a `fort.14` with another number of vertices than
three or four (`odd`) is passed over, so that the element of before stays in its place
(`:713`); and the D-Flow reader follows the vertices of each element as soon as it has
read it (`:486`), which ends the process if a number is no node's.  `"unmeshed"` is the
death of a call for the elements around a node before any table was built.
`MeshSearch` adds the two trees, in the states empty, built and null.
`MeshFiles` adds the file written last, `disk`, with the nodes and elements it was
written from as history.  `Written` is what a file of each of the three formats
says of a mesh, in the terms in which `Mesh` reads files; `ReadBack` reads it over
what the object holds, `Anew` leaves the caller with another object.  That
`std::ofstream` does not say when it cannot open a file is left out: a writer that
wrote nothing leaves no `disk`.

### NodalAttributes

`data[i][j]` is the row of attribute `i` at position `j`; `locations` the table
of names.  `Read` has one disjunct for each place `read()` can end:
counts, node count against mesh, too many rows for the mesh, a default, the
body (a line, or undefined behaviour), or well.  The last line of defaults may be
shorter than its attribute has values; its numbers are then taken from behind the
tokens (`nodalattributes_private.cpp:180`), and `read()` throws or the process ends,
with the lapse `"short"`.  For an attribute of one value the line is converted
unsplit, so an empty one throws.  `Means` says what a file says
of an attribute at a node, and both `FileHonoured` and `WriteFaithful` are
stated with it.

### Boundary

A boundary is its code and its parallel vectors, which every method sizes in four
groups; the model keeps one vector a group.  `list` is the vector of the mesh,
`mine` a boundary of the caller: every setter applies to either.  `Copied` is
`boundaryCopier()` with the order of its tests, so it is where pipes are lost and
an unknown code loses everything; assignment copies onto what was there, which
matters because `setBoundaryLength()` resizes nothing when the length has not
changed.  `Inserted`, `Deleted` and growth of the vector are chains of such
copies.  A file's section is what its lines say, whole or cut, and `Filled` is
the reader's sequence of setters over whatever the mesh held.  Of a heading cut behind
its length the reader of land boundaries takes the code from behind the tokens
(`mesh_private.cpp:845`): it throws or dies (`"cut heading"`).  `retyped` and
`lagging` are history: a code given at an unchanged length, and an edit that does
not make a cached hash anew.

### CDate and SimulationDates

A time point is days, milliseconds and nanoseconds since 1970, wrapped as 64 bits
of nanoseconds wrap; the fields of a date keep the 16 and 8 bits of the date
library.  `CDate` has each call of the class as an action over the operators that
say what it computes, and the module that instantiates it evaluates, before
anything is checked, the two sums that `src/testing/cxx_tests/cxx_date.cpp`
expects.  `SimulationDates` is `main()` in stretches: dates of the wind file,
span, SWAN cycle, printing, with the exceptions nobody catches and the remainder
by zero.

### Fingerprint

A digest is what was digested, so that two hashes agree exactly when their texts
do.  Each object has the hash it cached, a node also that of its position; the
actions follow which calls make, keep, copy or drop them.  `causes` is history:
the kinds of edits since the mesh was read that no hash is told of.

### Hmdf

A list of stations with three vectors of sizes of their own (`m_date`,
`m_data_u`, `m_data_v`), the setters that keep them together and those that do
not, `sanitize()`, `dataBounds()`, three writers and two readers.  A file says
what kind it is, whether it is whole, what is in it, and, as history, the stations
it was written from.  `did` remembers the calls after which vectors may differ
in length, a station counts as not null, or `setStation()` was given an index past the
end (`hmdf.cpp:132`).

Of the id of a station the model keeps the length, since that is what decides whether
writing it under the length of the name (`hmdf.cpp:454`) reads past its end
(`Overread`); the process then dies or goes on, and the bytes that stand in the file
behind the id are not modelled.  An id never set is "noid", as is any the IMEDS reader
leaves; the netCDF reader gives 200 characters, the width of the variable.  Names above
200 characters, which the netCDF library refuses, are not modelled.

## 3. What the runs show

| Run | Distinct states | Shows |
|---|---|---|
| `reader` | 1.6 million | `MapSound`, `MapTotal`, `MapLatest`, `OrphansHidden`: the index of the store, whatever the order of reads, re-reads, failures, additions and removals. `AsciiFaithful`, `NetcdfFaithful`: a record holds the snap it is numbered with. `CrashExplained`: the process dies only if the reader was used after an error or with its cursor moved, on a netCDF file without records, behind a record header that lost tokens, asked for the snap one past the last of a netCDF file, or with netCDF files of different variables. |
| `round` | 3 million | `ReadBack`: the i-th record read is the i-th written, for ASCII full, ASCII sparse, both in one file, and netCDF. |
| `stations` | 56 thousand | `DeliversWindow` (implements `SnapWindow`), `OneRecordAtATime`, `Ends`. |
| `scope_netcdf` | 281 | `Trimmed`, `ScopeEnds` over eleven kinds of global file; the program is one path, so the states are few. |
| `mesh` | 2.7 million | `VerticesLive`, `ReadFaithful`, `FoundByNumber`, `TableExact`, `OverlapsFound`. `DeathExplained`: what the fates with a name of their own leave (a copy, a table asked before it was built, a size line of one token) is the death of an element without vertices of the mesh, lost or read so, of a table kept through a change, or of a lookup that kept numbers. `TripRestores`: a mesh written and read back is the mesh, in the object that wrote it, after whatever it did in between, or in another; under the conditions each format needs. |
| `search` | 130 thousand | `TreesFit`: no tree outlives the mesh it was built from across a reading; `SearchDeathExplained`. |
| `attributes` | 184 thousand | `FileHonoured`, `NodesAttached`, `WriteFaithful`. `DeathExplained13`: the process dies only of a mesh of another size set later, a read that threw, rows of another length, a body naming what the file has not, or a line of defaults that is too short. |
| `boundary` | 85 thousand | `SizedUnlessRetyped`: only a code given at an unchanged length leaves vectors too short, and only such a boundary is overrun. `HashCurrent`: a cached hash is of what the boundary says, growing it aside. `EditsKeep`: inserting and deleting change no other boundary. `ReadRestores`: writing and reading a section restores it whatever was there. |
| `dates` | 23 thousand | `MonthsExact`: calendar months added and taken off. `SettersExact`: a setter changes its field or throws, never the day. `TripsTruncate`: what is lost through copies, text and seconds. `EndsOnCycle`: the span the program prints. |
| `fingerprint` | 94 thousand | `StaleExplained`: which edits leave which cached hash behind. `ForcedExact`: when a forced hash of a mesh is of the mesh. |
| `fingerprint_moved` | until violated | `HashFollowsNodes` fails, see below. |
| `hmdf` | 1.3 million | `ReadsBack`: IMEDS and netCDF files bring back dates, values and names as far as the format holds them. `AdcircConsistent`: a `fort.61` has the values of all stations at one date in each record. `DeathExplainedHmdf`: filling stations value by value kills nothing, until a netCDF file is written of one whose name outruns its id; the other ways to die are whole vectors handed over, an index past the end, bounds asked of a station said not to be null, and reading a file that is missing or has a nameless station. |

`reader` also checks the type invariant of its module.  Those of `Boundary`,
`Fingerprint` and `NodalAttributes` are theorems.

### Bounds, and why they are enough

* `reader`: two names, 32 pairs of files; two records held; requests up to
  snap 3 of files of two or three.  Two records suffice for every relation
  between an entry and a newer record of its number, two names for the ids left
  by one file to be used on another, and snap 3 is one past the end.
* `round`: one or two records of one node, two written, one target in a
  behaviour (constraint `OneTarget`), a second session included.  Two records
  written are needed to see an order or an index go wrong.
* `stations`: 48 pairs of files by 16 windows, including starts and ends past
  the file; stations outside the mesh, and weights naming a node the record
  does not have.
* `scope_netcdf`: files of two or three snaps, subdomains of one or two nodes.
* `mesh`, `search`: twenty files, one with a size line of one token and one with an
  element line of neither three nor four vertices; up to three triangles on four nodes, three changes, which is
  enough for a read, an edit and a second read, with a build between any two.
  `MaxListed` leaves room for one element listed twice.  In `mesh` writing and
  reading back are free between changes, but where a file was written the last
  change is to read it back: read or edit, write, read or edit again, read back.
* `boundary`: six codes, one of each class that the code treats apart (open,
  land, external and internal weir, weir with pipes, unknown), two nodes, boundaries of one or two
  nodes, at most two in the mesh, five sections to read, three calls.  Three are
  a hash, an edit and a look, or a retyping, a copy and an overrun.
* `dates`: five dates at the ends of months, leap days, the year 1970 and 64 bits;
  shifts across several years, arguments past what 8 and 16 bits hold, two calls;
  five wind files, four periods before and after the wind, four steps of SWAN.
* `fingerprint`: three nodes on two places (a node elsewhere or not is all a
  digest tells), one or two triangles, boundaries of one node, three calls: make
  a hash, edit, ask again.
* `hmdf`: two stations of two values, three dates of which two share a second,
  four calls: fill, alter, write and read.  Ids of one character, of the four of
  "noid" and of the 200 read from netCDF; names of none, three, six and 200.
* `attributes`: fourteen files, two of them with defaults too short; two attributes of one and two values, two or three nodes, three
  changes: a failed reading, then another, then an edit or a write.

Deadlock is not checked: an owner may stop calling, a process may have died,
and bounds end behaviours.

### Fairness

Only the two programs have liveness properties.  Each is one thread that takes
the step it can take, so weak fairness of its next-state action (`WF(NextStations)`,
`WF(Program)`) says no more than that the operating system runs it.  The library
calls its steps consist of return or throw.  Objects driven by an owner have no
fairness.

### Disagreements between code and text

* `fingerprint_moved`: `element.cpp:397` says that the hash of an element "will
  change when a node moves its position".  It is made of the position hashes its
  nodes cached (`element.cpp:413`), which no setter of a node forgets and forcing
  the hash of the element does not reach, so it never changes.  `ForcedExact`
  says what this means for the hash of a mesh.

### Seen while modelling, modelled, and not stated as a run

* `interpolateAdcircStations --start_snap 0` passes `0 - 1`, which is
  `nextOutputSnap()`; snap 0 is then taken for both loop values 0 and 1.
* `close()` keeps `m_currentSnap` and `m_varid_data`.  Closing and opening
  numbers ASCII records on from the last session and reads another netCDF file
  through the ids of the first; hence `disturbed` and `OneLayout`.
* A file cut inside its last line: `getline()` at the end leaves that line in the string,
  and it is taken for each value that is missing (`readoutput.cpp:555`).  The record is
  whole to all appearances and `Garbled`; `AsciiFaithful` and `DeliversWindow` say so.
* A random-access read of a netCDF file moves the cursor on by one wherever it read
  (`readoutput.cpp:731`).  A record still holds the slab of its number; which snap the
  next read in sequence takes depends on how many reads there were.
* `WriteOutput::open()` resets neither the number of records written nor the variable ids.
  A second netCDF session starts at the index the first ended with and writes through
  ids of the first (`writeoutput.cpp:573`); an ASCII writer opened twice swallows every
  record that follows (`:110`).  The shape of a record is asked of the container
  (`:516`, `:584`), so after the container has turned to another file records are
  written in a shape that is not theirs.  `ReadBack` speaks of sessions without any of it.
* A three-component netCDF record takes its first component from the second
  variable (`readoutput.cpp:706`).
* `Mesh::read()` says it wipes the old data (`mesh_private.cpp:247`); the 2dm
  and netCDF readers append to it.  `ReadFaithful` asks for an empty object in
  these formats.
* `elementIndexById()` returns the number, not the position, of an element in
  order.  `computeMeshSize()` throws for a mesh with a node outside every
  element although the code below handles such a list.  Copying a `Mesh` writes
  through a null pointer (`CopyMesh`).  A search tree built twice, and
  `findNearestElement()` always, ends the process.
* A classic netCDF file cannot be opened: `readoutput.cpp:373` asserts both formats
  are welcome, and the condition at `:380` lets only netCDF 4 pass.
* A maximum file written as netCDF reads back one value only: the writer gives a
  two-dimensional start to a one-dimensional variable (`writeoutput.cpp:579`,
  `readoutput.cpp:641`).
* `resultsScope` copies the second component of a record only if the table of known
  variables calls it a vector (`resultsScope/main.cpp:280`).  The table lists files
  of two components that are none: `swan_windx`, `inun_time`, `inun_max`, `everdried`
  (`adcirc_outputfiles.h:142`, `:163`, `:169`, `:180`).  Their netCDF output has
  zeros for it, as has that of files with three components.  `Trimmed` speaks of the
  files copied whole (`Whole`); TLC's files had none of the first sort, the proof did
  not go through without the condition.
* An ASCII output of `resultsScope` may be unreadable: `subsetRecord()` does not
  set the iteration it prints (`resultsScope/main.cpp:277`).
* Elements out of order are not found by number when the nodes are in order
  (`mesh_private.cpp:704`, `:1060`).  The 2dm reader compares no element number
  with its place at all (`:565`), though `elementOrderingIsLogical()` is said to be
  "true if element ordering is sequential" (`:2231`).  `FoundByNumber` excepts
  exactly these two cases.
* The D-Flow writer names the vertices of elements by number
  (`mesh_private.cpp:2067`) while the format goes by position: a mesh out of order
  comes back as another, or not at all.  Writing a mesh without elements in this
  format throws and leaves a file without a header.
* The element table built a second time lists every element twice, and the
  checker reports overlaps in a sound mesh (`elementtable.cpp:80`,
  `meshchecker.cpp:212`).
* `addNode()` and a new length leave the cached hash of a boundary (`boundary.cpp:580`),
  which every other setter makes anew.  `HashCurrent` excuses these two, as `lagging`.
* Copying a boundary loses its pipes: the test for a weir is true of a weir with
  pipes as well and comes first (`boundary.cpp:84`, `:92`).  A boundary whose
  code is in none of the lists is copied without its nodes.
* `generateAdcircSimulationDates` prints the duration it computed before it moves
  the end to a cycle of SWAN (`main.cpp:92`, `:105`, `:124`).  It takes a remainder
  of the span by `--swandt` without looking whether that is zero.
* `CDate`: setting a field drops what is past the second; `addMonths()` and `+=`
  months take different arithmetic; a time before 1970 loses its part of a second
  towards 1970.
* `Node::setNode()` makes a cached hash anew and forgets neither the position hash
  nor the type it was asked for (`node.cpp:95`, `:206`); `setX()`, `setY()`,
  `setZ()` and `reproject()` leave both.  Assigning an element keeps the hash of
  what it is assigned to.  `setHashType()` leaves the hash of the mesh
  (`mesh_private.cpp:2732`).  A hash asked for before any data was given calls a
  null function pointer (`hash_private.cpp:89`).
* `Hmdf`: `dataBounds()` starts the two bounds of the dates the wrong way round;
  `setNext()` does not clear the null flag, so stations filled that way are left
  out of the bounds; an IMEDS file that is missing or was cut reads as success;
  a netCDF file is labelled as WGS84 whatever the stations are in.
* The body of a `fort.13` is stored by the order of its sections, and only the
  number of values is looked up by name: a file whose body has another order
  than its header puts values under the wrong attribute without an error when
  the shapes agree.  `FileHonoured` therefore asks for `Orderly` files.
* `NodalAttributes::setMesh()` does not set the number of nodes.  An object made
  without a mesh and given one later reads a file into rows of the old length:
  no nodes at all in a new object.  With a mesh out of order, a node number the
  mesh lacks goes to the first node without an error.
* A section of a `fort.13` announces lines by the whole row and has them by the number
  of nodes (`nodalattributes_private.cpp:356`): where `addAttribute()` was given a row
  of another length, the file written cannot be read.  `WriteFaithful` asks for rows of
  the right length.
* On a line for an attribute of one value whatever follows the first number is
  not read (`fileio.cpp:238`, `nodalattributes_private.cpp:251`), and with a mesh
  that gives a number twice all lines about it go to the last node of that
  number.  `FileHonoured` excepts both.

## 4. What is proved

Every theorem holds for all values of the constants that satisfy the one named
assumption of its module, which only types them (`ReaderAssumption`,
`MeshAssumption`, `BoundaryAssumption`, `FingerprintAssumption`,
`AttributesAssumption`, `HmdfAssumption`, `DateAssumption`, `SimulationAssumption`).  `MeshAssumption` also says that the netCDF formats, which
store no node numbers, number by position; `AttributesAssumption` that a file has
as many sections as its header counts, with no more lines than each announces, and
defaults of the announced size but for the last, which may be shorter; `HmdfAssumption` that printing a value gives a value
and the null value is the least, that stripping a name of blanks leaves one empty
only if it was, that names have at most the 200 characters of the netCDF variable, and that a list begins with scalar stations of as many dates as values.
The theorems about what a record holds have one
hypothesis more, `FilesWritten`: every file was once written as a model run or
this library writes it (records one after the other, one variable for each
component), whatever has been damaged or cut since.  `MCReadOutput` has TLC
evaluate it for every file of the runs.  The refinement of `SnapWindow` also has
`WindowGranted`, without which it is false: `--start_snap` counts from one, a file
named `.nc` is not ASCII (the option checks go by the name, the reader by the
contents, and an ASCII reader does not seek), no netCDF file has three
components, and no record header lost tokens (`HeadersWhole`): what is found behind one may be a
number, and the program then delivers the lines of another snap without knowing.  `MCStationInterpolation` has TLC evaluate that one.  The theorems about
`resultsScope` suppose a netCDF output, since the header of an ASCII output gives the
nodes of the global file and its records may be unreadable (section 3), and
`ScopeGranted`: the global file was written record after record, no record header of it
lost tokens, and an ASCII one is not cut inside its last line, which would be copied for
whole.  `AsciiFaithful` leaves files with such headers out as well; `CrashExplained` does not.  `MCResultsScope` has
TLC evaluate it.  The theorem about the simulation dates supposes `Ordinary`: wind
files of the years 1700 to 2240 with hours and minutes of two characters each (the
fixed columns of their titles; a sign may be one of them), at most ten years of days
put on or taken off, and a step of SWAN of at most a year.  Outside it a date may
leave what 64 bits hold and wrap to the other end.  `MCDates` has TLC evaluate it.

| Module | Theorem | States |
|---|---|---|
| `ReadOutputProofs` | `TypeCorrect` | `Spec => []TypeOK` |
| | `MapSoundAlways` | `Spec => []MapSound` |
| | `MapTotalAlways` | `Spec => []MapTotal` |
| | `MapLatestAlways` | `Spec => []MapLatest` |
| | `OrphansStayHidden` | `Spec => OrphansHidden` |
| | `Agreement` | `FilesWritten`: `Spec => [](Session /\ Stream /\ FirstIds /\ NetcdfHeader)` |
| | `AsciiFaithfulAlways` | `FilesWritten`: `Spec => []AsciiFaithful` |
| | `NetcdfFaithfulAlways` | `FilesWritten`: `Spec => []NetcdfFaithful` |
| | `CrashExplainedAlways` | `FilesWritten`: `Spec => []CrashExplained` |
| `OutputProofs` | `RoundInvariantAlways` | `SpecRound => []RoundInvariant` |
| | `ReadBackAlways` | `SpecRound => []ReadBack` |
| | `ScopeInvariantAlways` | `ScopeGranted`, netCDF output: `SpecScope => []ScopeInvariant` |
| | `TrimmedAlways` | `ScopeGranted`, netCDF output: `SpecScope => []Trimmed` |
| | `OneRecordAlways` | `SpecStations => []OneRecordAtATime` |
| | `WindowDelivered` | `FilesWritten`, `WindowGranted`: `SpecStations => DeliversWindow` |
| `MeshProofs` | `MeshInvariant` | `Spec => []MeshInv` |
| | `VerticesLiveAlways` | `Spec => []VerticesLive` |
| | `ReadFaithfulAlways` | `Spec => []ReadFaithful` |
| | `FoundByNumberAlways` | `Spec => []FoundByNumber` |
| | `TripRestoresAlways` | `FilesSpec => []TripRestores` |
| | `TableExactAlways` | `FilesSpec => []TableExact` |
| | `OverlapsFoundAlways` | `FilesSpec => []OverlapsFound` |
| | `MeshDeathExplained` | `FilesSpec => []DeathExplained` |
| | `FilesKeepMesh` | `FilesSpec => [](VerticesLive /\ ReadFaithful /\ FoundByNumber)` |
| | `SearchInvariant` | `SearchSpec => []SearchInv` |
| | `TreesFitAlways` | `SearchSpec => []TreesFit` |
| | `SearchDeathExplainedAlways` | `SearchSpec => []SearchDeathExplained` |
| `NodalAttributesProofs` | `AttributesInvariant` | `Spec => []AttributesInv` |
| | `TypesAlways` | `Spec => []TypeOKAttributes` |
| | `FileHonouredAlways` | `Spec => []FileHonoured` |
| | `NodesAttachedAlways` | `Spec => []NodesAttached` |
| | `WriteFaithfulAlways` | `Spec => []WriteFaithful` |
| | `DeathExplainedAlways` | `Spec => []DeathExplained13` |
| `BoundaryProofs` | `InvariantAlways` | `Spec => []IInv` |
| | `TypeAlways` | `Spec => []TypeOKBoundary` |
| | `SizedAlways` | `Spec => []SizedUnlessRetyped` |
| | `HashAlways` | `Spec => []HashCurrent` |
| | `EditsAlways` | `Spec => EditsKeep` |
| | `ReadAlways` | `Spec => ReadRestores` |
| `FingerprintProofs` | `InvariantAlways` | `Spec => []IInv` |
| | `TypeAlways` | `Spec => []TypeOKFingerprint` |
| | `StaleAlways` | `Spec => []StaleExplained` |
| | `ForcedAlways` | `Spec => ForcedExact` |
| `HmdfProofs` | `HmdfInvariant` | `Spec => []HmdfInv` |
| | `HmdfDeathsExplained` | `Spec => []DeathExplainedHmdf` |
| | `AdcircFilesConsistent` | `Spec => []AdcircConsistent` |
| | `ReadsBackAlways` | `Spec => ReadsBack` |
| `DateProofs` | `InstantAlways` | `Spec => []Instant(now)` |
| | `MonthsAlways` | `Spec => []MonthsExact` |
| | `TripsAlways` | `Spec => []TripsTruncate` |
| | `SettersAlways` | `Spec => SettersExact` |
| | `EndsAlways` | `Ordinary`: `Spec => []EndsOnCycle` |

**The reader.**  `TypeOK` is inductive by itself, call by call.  Under it,
`StoreSteps` shows that a step changes `records` and `recordMap` in one of five
ways only: not at all (`UNCHANGED store`), a complete record pushed and entered
(`StoreKept`), an incomplete one pushed and not entered (`StoreOrphaned`), the map
computed again after a record was handed in or dropped (`StoreRebuilt`), or both
emptied (`StoreCleared`).  `RebuiltMapLatest` says what rebuilding yields: each
number that occurs, sent to its last occurrence (`LastPosition`, from
well-foundedness of the natural numbers).  Each property of the map then has a
proof with one step for each of the five ways, however many actions take them.
`MapSound` and `MapTotal` are inductive under `TypeOK`; `MapLatest` needs `MapTotal`
as well, since an entry past every earlier record of a number must first exist.
`OrphansHidden` is an action property of the same five ways.

**What a record holds.**  `AsciiFaithful`, `NetcdfFaithful` and `CrashExplained` are not inductive: a
record is right when the object, the stream below it and the file agree.  `Session`
relates the object to the file it has open, `Stream` the next line of an ASCII file
to the cursor (on the straight path it begins the record the cursor stands at, or is
damaged), `FirstIds` the variable ids, which closing never forgets, to the first file that
gave any, and `NetcdfHeader` what an open netCDF file left behind.  `Calls` sorts the
steps by what they do to the object.  `StraightRead` and `NetcdfRead` then say what one
read delivers, and `RecordSteps` that a complete record of a file was there before or
was delivered by such a read.

**What was written.**  `ReadBack` speaks of a record in memory and of a session of the
writer long ended, and is not inductive.  `RoundInvariant` adds who has which file:
what the reader last read of a header is the file's, as long as it has it open
(`OwnerReads`, `Describes`), and what the writer has in mind is what its file says
(`OwnerWrites`, `Shaped`).  Of the file of a sound session it says that the lines are
the records that went in, one behind the other, each in as many lines as its format
takes (`MadeAscii`; `MadeNetcdf` for slabs), and that a reader nobody disturbed stands
at the first line of the record it will number next.  A step is the reader's, which leaves
the files alone (`LaidRead`, `NextRead`, `SlabRead` say what it delivers), or the
writer's, which leaves the reader alone and never touches the file the reader has open
(`WriterTouches`); `AsciiWritten` and `NetcdfWritten` say that a record written extends
what is there and disturbs nothing before it.

**The subdomain.**  `resultsScope` reads a file somebody else has written and fills
another, so of the reader all that *What a record holds* establishes is taken along
(`Reads`): it is inductive under the reader's calls by the lemmas of `ReadOutputProofs`,
and survives the writer's because the writer leaves the global file alone
(`ReadsElsewhere`).  `Standing` adds, step of the program by step, what the loop
relies on: the reader has met no error and has one record in memory or none (`Serving`,
`Taken`, `Untouched`), the output is the first `trimmed` snaps and the writer in the session
that made it so (`Filled`, `Writing`).  That the one record is the snap the loop is at
is `TakenRight`, from `AsciiFaithful` or `NetcdfFaithful`.  A reader of the output
finds a sound netCDF file with all snaps in it and stops behind the last (`Browsing`,
`Stopped`).  A global file that is not copied whole is none of this, but stays what it
is (`Spared`).

**The window.**  `ReaderSteps` shows that a step of the station program is a call of
the reader or replaces it; the lemmas about the reader are stated of a step
(`TypeKept`, `AgreeKept`), so they hold of the reader inside the program.  `WindowInv`
adds where the program stands: `Aimed`, the window against the number of snaps of the
file, which the first reader told and the second finds again; `Placed`, the loop
counter against the cursor and the length of the series; `Fetched`, the record in
memory against the counter.  `WindowStep` maps each step to `Settle`, `Deliver`,
`Write`, `Fail` or a stutter of `SnapWindow`, under the refinement mapping of
`StationInterpolation`.

**The mesh.**  With `Shape` (vectors of nodes and elements, a lookup into the
naturals) the three properties are inductive together.  The four readers differ in
how they fill the vectors and which lookup they use, so each has a lemma that it
ends in one and the same `ReadAs`: the elements of the file stand after the first
`k` with their vertices where the file's numbers are (`Carried`), and numbers lead to
places that have them (`NumbersLead`).  What entering numbers and asking for them does
to a lookup is said by `IndexedAt` (the last place of a number, which
`LastPosition` provides) and `TouchedAt`.  An edit ends in `EditDone` or is refused.
A question enters unknown numbers into the lookup, and `AnswersKept` shows that no
answer changes by it: this is why `FoundByNumber` survives `elementById()` and the
checks.  For `TripRestores` the invariant says what is on disk (`Kept`: what a writer
makes of the mesh beside it, whose vertices were then in place), and, in `SourceHeld`,
that while the mesh equals a file all its vertices are current.  A file read back
then gives every element the places of its numbers, and numbers given once name one
set of places (`SamePlaces`).

**The table of elements.**  `TableExact` says nothing of a table that was asked,
built again or kept through a change, and so is not inductive.  `TableInv` grades
the table by its history: empty until it is built; after one build exact at every
node, also at those nobody asked for; after several, no pointer outside the element
vector; after a change, nothing but its type.  What one build adds to a list is the
positions of the elements around the node in their order (`AroundIs`, from
`RankedIs`: a finite set of positions is mapped one to one, and so onto, its ranks).
`TableInv` explains the deaths in the table (`DanglingAged`): only a table kept
through a change dangles.  The deaths in `checkDisjointNodes()` need `Leads`: while
the mesh equals a file, its numbers lead into the node vector, by the lookup too,
so a mark outside the vector comes of a lookup an edit or another file has left
behind (`MarksInside`).  `OverlapsFound` is a count: elements on an edge go one to one
to entries of the list under one end which are also under the other
(`OverlapCounted`), whatever else an older build left there, so `checkMesh()` counts
at least the elements there are.

**The trees.**  A call on a tree touches nothing of the mesh but lookups, and a call
on the mesh either drops the trees (every reader that gets as far as its file) or
leaves no vector shorter than the tree was built from, unless something was taken
away; a null tree comes of deleting by hand only.

**The nodal attributes.**  None of the four properties is inductive: whether `read()`
and `write()` stay inside the vectors depends on counts that are members of their
own.  `AttributesInv` adds `Paired` (as many rows as metadata, always), `Sized` (the
counts are those of the vectors, until a reading throws or an odd row is added) and
`OfMesh` (the number of nodes is the mesh's, until the mesh is exchanged).  Each way
`read()` can end has a lemma that it leaves a pairing behind.  `StopIs` says that the
body stops at the first line, of the first section, where it may, and `ReadRow` what
the lines before that made of a row: the last line about a position, the default
elsewhere.  For an orderly file this is what `MeansIs` says the file means.
`write()` gives only values that differ from the default, numbered through; the
`k`-th line is the one with `k` such values up to it, and `RankTaken` shows that
every rank up to their number is taken (well-foundedness again), so no
value is left out or written for another node.

**The boundaries.**  `SizedUnlessRetyped` and `HashCurrent` are not inductive: a
call that ends the process leaves half of what it did behind, and a copy may be
made of a boundary that only the history excuses.  The invariant speaks of two
sets: `Helds`, the boundaries that fit their code or were retyped, and `Goods`, those
whose hash is also current.  The mesh and the caller always hold members of
`Helds`, of `Goods` while the process runs, and an overrun leaves a retyped one
behind.  Each operator has a lemma that takes a boundary in `Goods` to an
`Outcome`, a boundary and a fate that fit this; insertion, deletion, growth and
reading, which stop at the first copy that fails, use the first such position
(`FirstPosition`, from well-foundedness).  `EditsKeep` and `ReadRestores` follow
from what the same operators return when every copy succeeds.

**The hashes.**  `StaleExplained` forgets the type a hash was asked for in, and so
says too little of a step: the invariant `SayWhatIsThere` names one.  A call that
asks for hashes (`Asked`) moves no node and makes hashes only of cached positions,
which are exact as long as nothing moved; an edit puts its name among the causes
and gives up only the parts that name excuses.  `ForcedExact` compares digest with
digest: two digests of a chain agree exactly when each of its nodes is at one
place in both (`ChainTextEqual`, `ChainTextSame`).

**The stations.**  `HmdfInv` says what the history lets a station be (`Good`): as many
dates, and second components, as values unless a setter handed over a whole vector,
null unless somebody said otherwise; and what a whole file says of the stations it was
written from (`Says`): station by station what its kind holds of them.  Each call
exchanges one station, appends some or drops them, or writes a file, and has a lemma
for that.  A file that stops early says less, and nothing is claimed of it but its
type.  `Nameless` is what `read()` needs besides: a name that is empty in an IMEDS file was
empty before, so what splits the empty name is a station the caller left without
one.  `AdcircConsistent` follows from the comparison before the first record: two
stations that agree in every date have the same row times.  `ReadsBack` is the file's
`Says` behind the stations there were (`RereadSame`), with `SecondsCut` for the dates.

**Dates.**  A triple of days, milliseconds and nanoseconds stands for a whole number
(`Nanos`); `Normal` keeps the number, `Earlier` is its order, and what 64 bits hold is
an interval of it (`FitsNanos`).  `WrapFits` follows: of the numbers a whole turn of
2^64 apart exactly one lies in the interval, `Turns` reaches it however far away it
is, and a time point that fits is left alone.  So every call leaves an `Instant`, whatever
was added.  The calendar lemmas count days: 146097 in 400 years (`YearNear`), 365 or
366 in one (`YearLength`), months that follow one another (`MonthSteps`); a day therefore
has one year and one month (`YearIs`, `MonthIs`), and taking a date apart and putting
it together are inverse to each other (`DateOfDay`, `DayOfDate`).  From a year of 1700 to
2240 no call of `MonthsExact`, `SettersExact` or `TripsTruncate` meets the ends of 64 bits, and
each is arithmetic on months counted through (`MonthAfter`), or on a date put together
from fields (`SetAt`, `SetWhole`, `ThrowsWhen`).  `EndsOnCycle` needs an invariant, since it
speaks of the dates of wind files at the end: `SimInvariant` carries along that dates
are whole seconds (`Tidy`) and far enough inside 64 bits for what is still to be
added (`WindDay`), so a copy is the date itself (`CopyTidy`), and seconds between dates
add up (`BetweenIs`, `PlusSecs`).  `AlignEnds` is the remainder of C++, which takes the
sign of the dividend, and what is added for it.

Every safety property of the passing runs is proved, some under the hypotheses
named above.  Out of the prover's reach,
and left to TLC for good: liveness under fairness (`Ends`, `ScopeEnds`), `ENABLED`, and
what a recursive definition computes over data of every size.

## 5. What is not modelled

* `GridData`, `RasterData`, `Pixel`, and all arithmetic on values: interpolation
  weights, partial wetting, averaging over rasters, projections.  They are floating
  point over data that does not change, without state a model checker could
  tell apart.
* `HarmonicsOutput`, `HarmonicsRecord`: readers of one pass without calls in between.
* `FileIO`, `StringConversion`, `Formatting`: precision of printed numbers, locale.
  Whether a line converts is data of the files; where two values print alike, as
  in IMEDS, it is a constant (`Printed`).
* `Logging`, `Multithreading`, `Config`, `Constants`, and the generated bindings.
* The HDF5 target of the writer and its `setFilename()`.
* What an index past a list of tokens finds by chance to be a number, but for the count
  of a record header, where any number up to the nodes of the file is tried: a mesh sized
  by it, a default or a boundary code taken from it.
* The bytes behind an id that are written to a netCDF file or lie in the variable a
  name is read into, and names of more than 200 characters.
* The shapefile writers of a mesh, and meshes with quadrilaterals.
* Of `Boundary` the cached average longitude, of `Hmdf` the CSV writer, headers and
  coordinates, of `CDate` `now()`.
* Libraries (netCDF, HDF5, OpenSSL, nanoflann, GDAL, the date library): modelled from
  how this code uses them, or not at all; nothing is claimed about their insides.
* The setters of `ReadOutput` that overwrite one header field (`setNumSnaps()`,
  `setNumNodes()`, `setDt()`, ...), and on nodal attributes `setNumNodes()`,
  `setNumParameters()`, `setName()` and `setNumberOfValues()`: they let a caller
  set a count that contradicts the vectors, which no call then mends.
* `src/thirdparty`: vendored libraries, by far most of the lines of the repository.

## 6. Plan

1. The boundary sections of `Boundary` inside the files of `MeshFiles`; the HDF5
   target of the writer.
2. Abstract specifications: a *store of records by number* that `ReadOutput`
   implements; a *numbered collection* that `Mesh` implements while `source # {}`.
3. Proofs: the abstract specifications of 2 as refinements, step by step.  None of
   the modules declares a RECURSIVE operator.
4. `HarmonicsOutput`.
