--------------------------- MODULE TradingCalendar ---------------------------
(***************************************************************************)
(* The exchange calendar (marketdata/calendar.ts).  Time is counted in     *)
(* minutes UTC, a date is the number of its day, day 0 being Thursday      *)
(* 1 January 1970.  A calendar is a record of its holidays, its special    *)
(* sessions (a function from days), the years its list covers, and the     *)
(* regular session.                                                        *)
(***************************************************************************)
EXTENDS Integers, FiniteSets, Sequences, SequencesExt

DayLength == 1440
Offset    == 330        \* IST is UTC+05:30, without daylight saving

IstDate(t)        == (t + Offset) \div DayLength
IstMinute(t)      == (t + Offset) % DayLength
FromIst(d, minute) == d * DayLength + minute - Offset

\* Civil dates.
Leaps(y) == y \div 4 - y \div 100 + y \div 400
IsLeap(y) == Leaps(y) # Leaps(y - 1)
YearStart(y) == 365 * (y - 1970) + Leaps(y - 1) - Leaps(1969)
YearOf(d) ==
  CHOOSE y \in (d \div 366 + 1970)..(d \div 365 + 1970) : YearStart(y) <= d /\ d < YearStart(y + 1)
MonthStart(y, m) ==
  <<0, 31, 59, 90, 120, 151, 181, 212, 243, 273, 304, 334, 365>>[m] + (IF m > 2 /\ IsLeap(y) THEN 1 ELSE 0)
MonthLength(y, m) == MonthStart(y, m + 1) - MonthStart(y, m)
DayNumber(e) == YearStart(e.year) + MonthStart(e.year, e.month) + e.day - 1

\* Sunday is 0.
DayOfWeek(d) == (d + 4) % 7
-----------------------------------------------------------------------------
\* No list of years: every year is covered (as far as they are asked about).
EveryYear == 1970..2100

IsCovered(c, d)    == YearOf(d) \in c.covered
IsWeekend(d)       == DayOfWeek(d) \in {0, 6}
IsHoliday(c, d)    == d \in c.holidays
IsTradingDay(c, d) == d \in DOMAIN c.special \/ ~(IsWeekend(d) \/ IsHoliday(c, d))

Shut == [open |-> 0, close |-> 0]

SessionFor(c, d) ==
  LET window == IF d \in DOMAIN c.special THEN c.special[d]
                ELSE [open |-> c.open, close |-> c.close]
  IN  IF IsCovered(c, d) /\ IsTradingDay(c, d)
      THEN [open |-> FromIst(d, window.open), close |-> FromIst(d, window.close)]
      ELSE Shut

IsMarketOpen(c, t) ==
  LET session == SessionFor(c, IstDate(t)) IN session.open <= t /\ t < session.close

\* Not bounded below by the open: before it, the wait for the open counts too.
MinutesToClose(c, t) ==
  LET session == SessionFor(c, IstDate(t))
  IN  IF session = Shut \/ t >= session.close THEN 0 ELSE session.close - t

\* Thirty days are looked at; coverage is not.
NoDay == -1
Found(days) == IF days = {} THEN NoDay ELSE CHOOSE d \in days : TRUE
NextTradingDay(c, d) ==
  LET near == {e \in (d + 1)..(d + 30) : IsTradingDay(c, e)}
  IN  Found({e \in near : \A f \in near : e <= f})
PreviousTradingDay(c, d) ==
  LET near == {e \in (d - 30)..(d - 1) : IsTradingDay(c, e)}
  IN  Found({e \in near : \A f \in near : f <= e})
TradingDaysBetween(c, from, to) == {d \in from..to : IsTradingDay(c, d)}
-----------------------------------------------------------------------------
\* An entry of the list an operator writes: a date as three numbers.  The
\* parser of dates looks at the ranges of the numbers, not at the length of the
\* month, so that 30 February is taken and names no day.
WellFormed(e) == e.month \in 1..12 /\ e.day \in 1..31
Exists(e)     == e.day <= MonthLength(e.year, e.month)

\* parseHolidays() throws where this is false: one malformed entry refuses the
\* whole list.
Parses(raw) == \A i \in DOMAIN raw : WellFormed(raw[i])
ParseHolidays(raw) == ToSet(raw)

\* The list replaces the built-in one, and covers the years it names.
BuildCalendar(raw, builtIn) ==
  LET entries == IF raw = <<>> THEN builtIn ELSE ParseHolidays(raw)
  IN  [holidays |-> {DayNumber(e) : e \in {f \in entries : Exists(f)}},
       special  |-> <<>>,
       covered  |-> {e.year : e \in entries},
       open     |-> 555, close |-> 930]
=============================================================================
