------------------------------ MODULE MCDates ------------------------------
(* Small instances of CDate and SimulationDates. *)
EXTENDS SimulationDates

Moment(y, mo, d, h, mi, s, ms) ==
  [year |-> y, month |-> mo, day |-> d, hour |-> h, minute |-> mi, second |-> s, ms |-> ms]

(* The last days of long and short months, leap days of both kinds, the end *)
(* of a year and of what 64 bits hold, before and after 1970.               *)
MCStarts ==
  {[Set(Moment(2019, 1, 31, 0, 0, 0, 0)) EXCEPT !.ns = 7],
   Set(Moment(2020, 2, 29, 23, 59, 59, 999)),
   [Set(Moment(1969, 12, 31, 23, 59, 59, 500)) EXCEPT !.ns = 1],
   Set(Moment(1900, 2, 28, 12, 30, 15, 250)),
   Set(Moment(2262, 4, 10, 6, 0, 0, 0))}

MCShifts == {-14, -1, 0, 1, 3, 12}
MCYears  == {2019, 2000, 67555}
MCSmall  == {-1, 0, 1, 2, 29, 31, 258}

Pressures(from, to) == [first |-> from, last |-> to, second |-> "header"]

MCWindFiles ==
  {Pressures(Moment(2005, 8, 25, 0, 0, 0, 0), Moment(2005, 8, 31, 6, 15, 0, 0)),
   Pressures(Moment(2020, 2, 28, 12, 0, 0, 0), Moment(2020, 3, 1, 0, 0, 0, 0)),
   Pressures(Moment(2005, 2, 29, 0, 0, 0, 0), Moment(2005, 3, 2, 0, 0, 0, 0)),
   [first |-> Moment(2005, 8, 25, 0, 0, 0, 0), last |-> Moment(2005, 8, 26, 0, 0, 0, 0), second |-> "data"],
   [first |-> Moment(2005, 8, 25, 0, 0, 0, 0), last |-> Moment(2005, 8, 26, 0, 0, 0, 0), second |-> "nothing"]}

MCSpins == {-240, 0, 23, 60}
MCSwan  == {0, 900, 1200, 7000}

(* The dates src/testing/cxx_tests/cxx_date.cpp expects. *)
Sum(s) ==
  LET years(t)  == PlusYears(Copy(t), s)
      months(t) == PlusMonths(Copy(t), 14 * s)
      days(t)   == Plus(Copy(t), 85 * s, 0)
      rest(t)   == Plus(PlusSeconds(Copy(t), s * (49 * 3600 + 64 * 60 + 65 + 20)), 0, s * 1500)
  IN  Fields(rest(days(months(years(Set(Moment(2019, 1, 1, 0, 0, 0, 0)))))))

ASSUME TestedDates ==
  /\ Sum(1) = Moment(2021, 5, 27, 2, 5, 26, 500)
  /\ Sum(-1) = Moment(2016, 8, 5, 21, 54, 33, 500)

(* The files and options above are in reach. *)
ASSUME DatesOrdinary == Ordinary
=============================================================================
