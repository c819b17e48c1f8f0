------------------------------ MODULE Calendar ------------------------------
(***************************************************************************)
(* The date and hex functions of the library: LctCalenderTool, which walks *)
(* over days written as the number YYYYMMDD, and Bin2Hex and Hex2Bin.      *)
(* RetrieveRangeDate is modelled as the walk it does.                      *)
(***************************************************************************)
EXTENDS Integers, Sequences

CONSTANTS
  FirstDates, \* begins of the ranges asked for
  MaxWalk     \* bound on the days of a range

month     == <<31, 28, 31, 30, 31, 30, 31, 31, 30, 31, 30, 31>>
leapMonth == <<31, 29, 31, 30, 31, 30, 31, 31, 30, 31, 30, 31>>

IsLeapYear(year) ==
  (year % 4 = 0 /\ year % 100 # 0) \/ year % 400 = 0

GetYear(date)  == date \div 10000
GetMonth(date) == (date \div 100) % 100
GetDay(date)   == date % 100

DaysOf(date) == IF IsLeapYear(GetYear(date)) THEN leapMonth[GetMonth(date)]
                                             ELSE month[GetMonth(date)]

\* Mutant: February always has 28 days.
NoLeapDay(date) == month[GetMonth(date)] = GetDay(date)

IsEndOfMonth(date) == DaysOf(date) = GetDay(date)
IsEndOfYear(date) == GetMonth(date) = 12

GetNextDate(date) ==
  IF ~IsEndOfMonth(date) THEN date + 1
  ELSE IF IsEndOfYear(date) THEN (date \div 10000 + 1) * 10000 + 101
  ELSE (date \div 100 + 1) * 100 + 1

\* Bin2Hex gives a digit 0 .. 15 for each half byte; a digit stands for its
\* character.
Bin2Hex(s) == [i \in 1 .. 2 * Len(s) |->
                 IF i % 2 = 1 THEN s[(i + 1) \div 2] \div 16
                              ELSE s[i \div 2] % 16]

\* Hex2Bin puts a 0 before an odd number of digits; what is no digit counts 0.
Hex2Bin(h) ==
  LET src == IF Len(h) % 2 = 1 THEN <<0>> \o h ELSE h
      value(d) == IF d \in 0 .. 15 THEN d ELSE 0
  IN  [i \in 1 .. Len(src) \div 2 |->
         value(src[2 * i - 1]) * 16 + value(src[2 * i])]

\* A real date: a month of the year and a day of the month.
RealDate(d) ==
  /\ d \in Nat
  /\ GetMonth(d) \in 1 .. 12
  /\ GetDay(d) \in 1 .. DaysOf(d)

ASSUME CalendarAssumption ==
  MaxWalk \in Nat /\ \A d \in FirstDates : RealDate(d)

VARIABLES
  begin,  \* beginDate
  listed, \* the last day in the list
  days    \* how many it lists after the first

calendarVars == <<begin, listed, days>>

CalendarInit == begin \in FirstDates /\ listed = begin /\ days = 0

GetRangeDate ==
  /\ days < MaxWalk
  /\ listed' = GetNextDate(listed)
  /\ days' = days + 1
  /\ UNCHANGED begin

CalendarSpec == CalendarInit /\ [][GetRangeDate]_calendarVars

-----------------------------------------------------------------------------
\* The number of a day by the rule of the Gregorian calendar: the days of the
\* full years, of the full months (153 in each five from March on) and its own.
DayNumber(d) ==
  LET a == (14 - GetMonth(d)) \div 12
      y == GetYear(d) + 4800 - a
      m == GetMonth(d) + 12 * a - 3
  IN  GetDay(d) + (153 * m + 2) \div 5 + 365 * y + y \div 4 - y \div 100
        + y \div 400

\* A range is the days from its begin on, one after the other, none left out
\* and none that does not exist, over the ends of months, years and centuries.
RangeIsEveryDay ==
  RealDate(listed) /\ DayNumber(listed) = DayNumber(begin) + days
=============================================================================
