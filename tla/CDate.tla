-------------------------------- MODULE CDate --------------------------------
(***************************************************************************)
(* Dates: class CDate of src/src/cdate.cpp and cdate.h, one object under   *)
(* its calls.  m_datetime is a std::chrono time point, 64 bits of          *)
(* nanoseconds: here a day counted from 1970-01-01, the milliseconds of    *)
(* that day and the nanoseconds past them, wrapped where 64 bits wrap      *)
(* (signed overflow, by what the processor does).  The calendar is that of *)
(* the date library, which the repository takes in as a submodule; it      *)
(* keeps a year in 16 bits and a month and a day in 8.                     *)
(***************************************************************************)
EXTENDS Integers, Sequences

CONSTANTS
  Starts,    \* the dates an object may hold when the calls begin
  Shifts,    \* numbers of units that are added
  Years,     \* arguments of setYear()
  Small,     \* arguments of the setters of the other fields
  MaxCalls   \* bound: calls

VARIABLES
  now,    \* m_datetime
  calls   \* history: number of calls

dateVars == <<now, calls>>

MsOfSecond   == 1000
MsOfMinute   == 60 * MsOfSecond
MsOfHour     == 60 * MsOfMinute
MsOfDay      == 24 * MsOfHour
NsOfMs       == 1000000
SecondsOfDay == 24 * 60 * 60

(***************************************************************************)
(* Time points.                                                            *)
(***************************************************************************)
Times == [day : Int, ms : 0..MsOfDay - 1, ns : 0..NsOfMs - 1]

Normal(day, ms, ns) ==
  LET carried == ms + ns \div NsOfMs
  IN  [day |-> day + carried \div MsOfDay, ms |-> carried % MsOfDay, ns |-> ns % NsOfMs]

Earlier(a, b) == \/ a.day < b.day
                 \/ a.day = b.day /\ a.ms < b.ms
                 \/ a.day = b.day /\ a.ms = b.ms /\ a.ns < b.ns
NotLater(a, b) == a = b \/ Earlier(a, b)

(* 2^63 nanoseconds. *)
Top == [day |-> 106751, ms |-> 85636854, ns |-> 775808]

Representable(t) == /\ Earlier(t, Top)
                    /\ NotLater(Normal(-Top.day, -Top.ms, -Top.ns), t)

(* What 64 bits make of a time point: 2^64 nanoseconds, a little more than  *)
(* 213503 days, are put on or taken off until it fits.                      *)
Turned(t, k) == Normal(t.day + 2 * k * Top.day, t.ms + 2 * k * Top.ms, t.ns + 2 * k * Top.ns)
Turns(t) == LET more == t.day \div 213503
                less == t.day \div 213504
            IN  IF t.day < 0 THEN -less - 1 .. -more + 1 ELSE -more - 1 .. -less + 1

Wrap(t) == CHOOSE u \in {Turned(t, k) : k \in Turns(t)} : Representable(u)

Plus(t, days, ms) == Wrap(Normal(t.day + days, t.ms + ms, t.ns))

(***************************************************************************)
(* The calendar.                                                           *)
(***************************************************************************)
DaysBefore(y) == LET p == y - 1
                 IN  365 * (y - 1970) + (p \div 4) - (p \div 100) + (p \div 400) - 477
Leap(y) == DaysBefore(y + 1) - DaysBefore(y) = 366
MonthStart(y, m) ==
  DaysBefore(y) + <<0, 31, 59, 90, 120, 151, 181, 212, 243, 273, 304, 334>>[m]
                + (IF m > 2 /\ Leap(y) THEN 1 ELSE 0)
LastDay(y, m) == IF m = 12 THEN 31 ELSE MonthStart(y, m + 1) - MonthStart(y, m)

Valid(y, m, d) == m \in 1..12 /\ d \in 1..LastDay(y, m)

YearOf(day) == CHOOSE y \in 1968 + day \div 366 .. 1972 + day \div 365 :
                 DaysBefore(y) <= day /\ day < DaysBefore(y + 1)
MonthOf(day) == LET y == YearOf(day)
                IN  CHOOSE m \in 1..12 : MonthStart(y, m) <= day /\ day < MonthStart(y, m) + LastDay(y, m)
DayOf(day)   == day - MonthStart(YearOf(day), MonthOf(day)) + 1

(* What an int becomes in a date::year, a date::month or a date::day. *)
Short(y) == ((y + 32768) % 65536) - 32768
Byte(n)  == n % 256

(***************************************************************************)
(* CDate.                                                                  *)
(***************************************************************************)
Fields(t) == [year |-> YearOf(t.day), month |-> MonthOf(t.day), day |-> DayOf(t.day),
              hour |-> t.ms \div MsOfHour, minute |-> (t.ms % MsOfHour) \div MsOfMinute,
              second |-> (t.ms % MsOfMinute) \div MsOfSecond, ms |-> t.ms % MsOfSecond]

(* set(): whether it throws "Invalid date", and the time point otherwise.  *)
(* The time of day is added, whatever it comes to.                         *)
Throws(f) == ~Valid(Short(f.year), Byte(f.month), Byte(f.day))
Set(f) == Wrap(Normal(MonthStart(Short(f.year), Byte(f.month)) + Byte(f.day) - 1,
                      f.hour * MsOfHour + f.minute * MsOfMinute + f.second * MsOfSecond + f.ms, 0))

MinDate == Set([year |-> 1900, month |-> 1, day |-> 1, hour |-> 0, minute |-> 0, second |-> 0, ms |-> 0])
MaxDate == Set([year |-> 3000, month |-> 1, day |-> 1, hour |-> 0, minute |-> 0, second |-> 0, ms |-> 0])

(* The copy constructor, through get() and set(). *)
Copy(t) == Set(Fields(t))

(* operator+= of calendar months: a day past the end of the month it lands *)
(* in is counted on into the next one.                                     *)
MonthIndex(t) == 12 * YearOf(t.day) + MonthOf(t.day) - 1

(* Mutant of PlusMonths: a day past the end of the month becomes its last. *)
PlusMonthsClamped(t, n) ==
  LET i == MonthIndex(t) + n
      y == Short(i \div 12)
      m == (i % 12) + 1
      d == IF DayOf(t.day) <= LastDay(y, m) THEN DayOf(t.day) ELSE LastDay(y, m)
  IN  Wrap(Normal(MonthStart(y, m) + d - 1, t.ms, 0))

PlusMonths(t, n) ==
  LET i == MonthIndex(t) + n
  IN  Wrap(Normal(MonthStart(Short(i \div 12), (i % 12) + 1) + DayOf(t.day) - 1, t.ms, 0))
PlusYears(t, n) == PlusMonths(t, 12 * n)

(* addMonths() and addYears() add a twelfth of, and a whole, mean year. *)
SecondsOfYear == 31556952
PlusSeconds(t, n) == Plus(t, n \div SecondsOfDay, (n % SecondsOfDay) * MsOfSecond)
PlusMeanMonths(t, n) == PlusSeconds(t, n * (SecondsOfYear \div 12))
PlusMeanYears(t, n)  == PlusSeconds(t, n * SecondsOfYear)

(* toSeconds(): the cast drops what is past the second, towards 1970.  The *)
(* seconds are kept as whole days and the seconds of the last.             *)
ToSeconds(t) ==
  LET floor == [day |-> t.day, second |-> t.ms \div MsOfSecond]
      up    == t.day < 0 /\ (t.ms % MsOfSecond # 0 \/ t.ns # 0)
      next  == floor.second + (IF up THEN 1 ELSE 0)
  IN  [day |-> floor.day + next \div SecondsOfDay, second |-> next % SecondsOfDay]

(* Mutant of FromSeconds: what is past the day is read as milliseconds. *)
FromSecondsMilli(s) == Wrap(Normal(s.day, s.second, 0))

FromSeconds(s) == Wrap(Normal(s.day, s.second * MsOfSecond, 0))

(* toString() prints every field, fromString() reads those up to the       *)
(* second.                                                                 *)
ReadText(f) == Set([f EXCEPT !.ms = 0])

(***************************************************************************)
(* The calls on one object.                                                *)
(***************************************************************************)
Becomes(t) == /\ calls < MaxCalls
              /\ calls' = calls + 1
              /\ now' = t

(* A setter hands set() the fields up to the second; setMillisecond() all. *)
Whole(f) == [f EXCEPT !.ms = 0]

(* Mutant of Assign: a day past the end of its month is counted on. *)
AssignLenient(f) == Becomes(IF Byte(f.month) \in 1..12 THEN Set(f) ELSE now)

Assign(f) == Becomes(IF Throws(f) THEN now ELSE Set(f))

SetYear(y)        == Assign([Whole(Fields(now)) EXCEPT !.year = y])
SetMonth(m)       == Assign([Whole(Fields(now)) EXCEPT !.month = m])
SetDay(d)         == Assign([Whole(Fields(now)) EXCEPT !.day = d])
SetHour(h)        == Assign([Whole(Fields(now)) EXCEPT !.hour = h])
SetMinute(m)      == Assign([Whole(Fields(now)) EXCEPT !.minute = m])
SetSecond(s)      == Assign([Whole(Fields(now)) EXCEPT !.second = s])
SetMillisecond(m) == Assign([Fields(now) EXCEPT !.ms = m])

AddSeconds(n)    == Becomes(PlusSeconds(now, n))
AddMinutes(n)    == Becomes(PlusSeconds(now, 60 * n))
AddHours(n)      == Becomes(PlusSeconds(now, 3600 * n))
AddDays(n)       == Becomes(Plus(now, n, 0))
AddWeeks(n)      == Becomes(Plus(now, 7 * n, 0))
AddMeanMonths(n) == Becomes(PlusMeanMonths(now, n))
AddMeanYears(n)  == Becomes(PlusMeanYears(now, n))
AddMonths(n)     == Becomes(PlusMonths(now, n))
AddYears(n)      == Becomes(PlusYears(now, n))

TakeCopy   == Becomes(Copy(now))
ViaSeconds == Becomes(FromSeconds(ToSeconds(now)))
ViaText    == Becomes(ReadText(Fields(now)))

DateInit == now \in Starts /\ calls = 0

DateNext ==
  \/ \E y \in Years : SetYear(y)
  \/ \E n \in Small : \/ SetMonth(n) \/ SetDay(n) \/ SetHour(n)
                      \/ SetMinute(n) \/ SetSecond(n) \/ SetMillisecond(n)
  \/ \E n \in Shifts : \/ AddSeconds(n) \/ AddMinutes(n) \/ AddHours(n)
                       \/ AddDays(n) \/ AddWeeks(n)
                       \/ AddMeanMonths(n) \/ AddMeanYears(n)
                       \/ AddMonths(n) \/ AddYears(n)
  \/ TakeCopy \/ ViaSeconds \/ ViaText

ASSUME DateAssumption ==
  /\ Starts \subseteq {t \in Times : Representable(t)}
  /\ Shifts \subseteq Int /\ Years \subseteq Int /\ Small \subseteq Int
  /\ MaxCalls \in Nat

(***************************************************************************)
(* Properties.                                                             *)
(***************************************************************************)
(* Months added move the month by their number and keep the day, or, where *)
(* that day does not exist, land as far into the month after; the time of  *)
(* day stays to the millisecond.  Taking them off again leads back exactly *)
(* when the day existed.  (operator+= and -= of CDate::months, away from   *)
(* the ends of what 64 bits hold.)                                         *)
Moderate == 1700..2240
Inside(t) == YearOf(t.day) \in Moderate

MonthsExact ==
  Inside(now) => \A n \in Shifts :
    LET u     == PlusMonths(now, n)
        i     == MonthIndex(now) + n
        last  == LastDay(i \div 12, (i % 12) + 1)
        there == DayOf(now.day) <= last
    IN  i \div 12 \in Moderate =>
          /\ MonthIndex(u) = IF there THEN i ELSE i + 1
          /\ DayOf(u.day) = IF there THEN DayOf(now.day) ELSE DayOf(now.day) - last
          /\ u.ms = now.ms
          /\ (PlusMonths(u, -n) = [now EXCEPT !.ns = 0]) <=> there

(* A setter of a field that fits changes that field and drops what is past *)
(* the second, or throws and changes nothing because the day does not      *)
(* exist; it never lands on another day.  (Away from the ends, likewise.)   *)
SetsField ==
  Inside(now) =>
     /\ \A m \in Small \cap 1..12 : SetMonth(m) =>
          IF DayOf(now.day) <= LastDay(YearOf(now.day), m)
          THEN Fields(now') = [Whole(Fields(now)) EXCEPT !.month = m] ELSE now' = now
     /\ \A d \in Small \cap 0..31 : SetDay(d) =>
          IF d \in 1..LastDay(YearOf(now.day), MonthOf(now.day))
          THEN Fields(now') = [Whole(Fields(now)) EXCEPT !.day = d] ELSE now' = now
     /\ \A y \in Years \cap Moderate : SetYear(y) =>
          IF DayOf(now.day) <= LastDay(y, MonthOf(now.day))
          THEN Fields(now') = [Whole(Fields(now)) EXCEPT !.year = y] ELSE now' = now

SettersExact == [][SetsField]_dateVars

(* What a date loses on the way through a copy, through text and through    *)
(* seconds: what is past the millisecond, past the second, past the second  *)
(* towards 1970.                                                            *)
TripsTruncate ==
  LET s == FromSeconds(ToSeconds(now))
      near(t) == Earlier(t, Plus(now, 0, MsOfSecond)) /\ Earlier(now, Plus(t, 0, MsOfSecond))
  IN  Inside(now) =>
        /\ Copy(now) = [now EXCEPT !.ns = 0]
        /\ ReadText(Fields(now)) = [day |-> now.day, ms |-> now.ms - (now.ms % MsOfSecond), ns |-> 0]
        /\ near(s) /\ s.ms % MsOfSecond = 0 /\ s.ns = 0
        /\ IF now.day < 0 THEN NotLater(now, s) ELSE NotLater(s, now)
=============================================================================
