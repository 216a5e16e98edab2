--------------------------- MODULE SimulationDates ---------------------------
(***************************************************************************)
(* The program of src/utilities/generateAdcircSimulationDates/main.cpp:    *)
(* from the dates of an Oceanweather file, the periods before and after    *)
(* the wind and the step of SWAN, the dates of a simulation.  One step of  *)
(* the model is one stretch of main().                                     *)
(***************************************************************************)
EXTENDS CDate

CONSTANTS
  WindFiles,  \* Oceanweather files
  Spins,      \* --spinup and --spindown, in hours
  SwanSteps,  \* --swandt in seconds
  NoStep      \* no --swandt

VARIABLES
  at,       \* where main() is
  options,  \* the command line and the file it names
  wind,     \* startWindDate and endWindDate
  sim,      \* startSimDate and endSimDate
  report    \* what is printed of the simulation: its dates and its duration

simVars == <<at, options, wind, sim, report>>

(***************************************************************************)
(* A wind file: the dates of its title, and what stands where the second   *)
(* record should begin, the lines of one field after the first: in a file  *)
(* of pressures its header, in one of winds a line of the second component,*)
(* of which the program makes a date or an exception.                      *)
(***************************************************************************)
Dates == [year : Int, month : Int, day : Int, hour : Int, minute : Int, second : {0}, ms : {0}]
ASSUME SimulationAssumption ==
  /\ \A f \in WindFiles : f.first \in Dates /\ f.last \in Dates /\ f.second \in {"header", "data", "nothing"}
  /\ Spins \subseteq Int
  /\ SwanSteps \subseteq Nat /\ NoStep \notin SwanSteps

None == [from |-> 0, to |-> 0]
NotPrinted == [from |-> 0, to |-> 0, days |-> 0]

SimInit ==
  /\ at = "start"
  /\ options = None /\ wind = None /\ sim = None /\ report = NotPrinted

Options == {[first |-> f.first, last |-> f.last, second |-> f.second, up |-> u, down |-> d, swan |-> s] :
               f \in WindFiles, u, d \in Spins, s \in SwanSteps \cup {NoStep}}
Launch ==
  /\ at = "start"
  /\ options' \in Options
  /\ at' = "options"
  /\ UNCHANGED <<wind, sim, report>>

(* An exception nobody catches. *)
Terminate == at' = "terminated" /\ UNCHANGED <<options, wind, sim, report>>

(* readOceanweatherDates() *)
Unreadable == \/ Throws(options.first) \/ Throws(options.last)
              \/ options.second = "nothing"
ReadDates ==
  /\ at = "options"
  /\ ~Unreadable
  /\ wind' = [from |-> Set(options.first), to |-> Set(options.last)]
  /\ at' = "dates"
  /\ UNCHANGED <<options, sim, report>>
ReadFails ==
  /\ at = "options"
  /\ Unreadable \/ options.second = "data"
  /\ Terminate

(* Whole days are taken off and put on, copies of the dates. *)
Span ==
  /\ at = "dates"
  /\ sim' = [from |-> Plus(Copy(wind.from), -(options.up \div 24), 0),
             to   |-> Plus(Copy(wind.to), options.down \div 24, 0)]
  /\ at' = "spanned"
  /\ UNCHANGED <<options, wind, report>>

(* Seconds from one date to another; the bounds of the model keep them small. *)
Between(a, b) == LET s == ToSeconds(a)
                     u == ToSeconds(b)
                 IN  (u.day - s.day) * SecondsOfDay + u.second - s.second

(* The remainder takes the sign of the dividend. *)
Remainder(n, d) == IF n >= 0 THEN n % d ELSE -((-n) % d)

(* Mutant of Lacking: the time past the last cycle is added. *)
LackingPast(check, step) == check

Lacking(check, step) == step - check

(* The duration is taken here, before the end is moved to a SWAN cycle. *)
Align ==
  /\ at = "spanned"
  /\ options.swan # 0
  /\ LET step  == options.swan
         check == Remainder(Between(wind.from, sim.to), step)
     IN  sim' = IF step = NoStep \/ check = 0 THEN sim
                ELSE [sim EXCEPT !.to = PlusSeconds(@, Lacking(check, step))]
  /\ report' = [report EXCEPT !.days = Between(sim.from, sim.to)]
  /\ at' = "aligned"
  /\ UNCHANGED <<options, wind>>

(* A remainder by zero. *)
AlignByZero == /\ at = "spanned" /\ options.swan = 0
               /\ Terminate

PrintDates ==
  /\ at = "aligned"
  /\ report' = [report EXCEPT !.from = sim.from, !.to = sim.to]
  /\ at' = "done"
  /\ UNCHANGED <<options, wind, sim>>

SimNext == Launch \/ ReadDates \/ ReadFails \/ Span \/ Align \/ AlignByZero \/ PrintDates

(* The program, and beside it an object of the class it is built from.     *)
(* They share nothing: of their interleavings one is kept, the object      *)
(* before the program.                                                     *)
Init == DateInit /\ SimInit
Next == \/ calls = 0 /\ SimNext /\ UNCHANGED dateVars
        \/ at = "start" /\ DateNext /\ UNCHANGED simVars
Spec == Init /\ [][Next]_<<dateVars, simVars>>

(* Wind files and options in reach: years that leave room to both ends of  *)
(* what 64 bits hold, times of two characters each, at most ten years put   *)
(* on or taken off, a step of at most a year.                               *)
InReach(f) == f.year \in Moderate /\ f.hour \in -9..99 /\ f.minute \in -9..99
Ordinary ==
  /\ \A f \in WindFiles : InReach(f.first) /\ InReach(f.last)
  /\ \A n \in Spins : -87600 <= n /\ n <= 87600
  /\ \A n \in SwanSteps : n <= 31536000

(* The simulation printed spans the wind and the whole days asked for, and *)
(* ends on a cycle of SWAN counted from the start of the wind: the first   *)
(* one not before the days asked for, when that is not before the wind.    *)
EndsOnCycle ==
  at = "done" =>
    LET asked == Plus(wind.to, options.down \div 24, 0)
        over  == Between(asked, report.to)
    IN  /\ report.from = Plus(wind.from, -(options.up \div 24), 0)
        /\ IF options.swan = NoStep THEN over = 0
           ELSE /\ Between(wind.from, report.to) % options.swan = 0
                /\ over >= 0
                /\ Between(wind.from, asked) >= 0 => over < options.swan
=============================================================================
