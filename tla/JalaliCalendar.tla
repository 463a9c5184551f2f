---------------------------- MODULE JalaliCalendar ----------------------------
(***************************************************************************)
(* The Jalali calendar, and the plan of the twelve periods of a fiscal     *)
(* year that is made by it.  FiscalPeriods takes the months for granted;   *)
(* here they are computed as the code computes them, on Julian day numbers *)
(* and on dates of the Gregorian calendar.                                 *)
(***************************************************************************)
EXTENDS Integers, Sequences, FiniteSets

CONSTANTS
  CalendarYears,       \* the Gregorian years in which fiscal years begin
  MarchDays    \* bound: the days of March on which they begin and end

VARIABLE generation \* the range asked for, and the plan it got

-----------------------------------------------------------------------------
(* Integers of JavaScript: division goes toward zero.                      *)

Div(a, b) == IF a >= 0 THEN a \div b ELSE -((-a) \div b)
Mod(a, b) == a - Div(a, b) * b

-----------------------------------------------------------------------------
(* Civil dates.                                                            *)

Date(year, month, day) == [year |-> year, month |-> month, day |-> day]
DAYS_BEFORE_MONTH == <<0, 31, 59, 90, 120, 151, 181, 212, 243, 273, 304, 334>>
IsLeapYear(year) == year % 4 = 0 /\ (year % 100 # 0 \/ year % 400 = 0)

\* Days since 1970, by the Date of JavaScript.
EpochDays(date) ==
  LET DaysBefore(year) ==
        365 * year + (year - 1) \div 4 - (year - 1) \div 100 + (year - 1) \div 400
  IN DaysBefore(date.year) - DaysBefore(1970)
       + DAYS_BEFORE_MONTH[date.month]
       + (IF date.month > 2 /\ IsLeapYear(date.year) THEN 1 ELSE 0)
       + date.day - 1

-----------------------------------------------------------------------------
(* The conversions.                                                        *)

JDN_OF_UNIX_EPOCH == 2440588
BREAKS == <<-61, 9, 38, 199, 426, 686, 756, 818, 1111, 1181, 1210, 1635, 2060, 2097,
            2192, 2262, 2324, 2394, 2456, 3178>>

GregorianDayJdn(date) ==
  LET shifted == date.year + 100100 + Div(date.month - 8, 6)
  IN Div(shifted * 1461, 4) + Div(153 * Mod(date.month + 9, 12) + 2, 5) + date.day
       - 34840408 - Div(Div(shifted, 100) * 3, 4) + 752

JdnToGregorianDay(jdn) ==
  LET j == 4 * jdn + 139361631 + Div(Div(4 * jdn + 183187720, 146097) * 3, 4) * 4 - 3908
      i == Div(Mod(j, 1461), 4) * 5 + 308
      month == Mod(Div(i, 153), 12) + 1
  IN Date(Div(j, 1461) - 100100 + Div(8 - month, 6), month, Div(Mod(i, 153), 5) + 1)

\* The years of an era, the leap years of a number of years of one era, and those of
\* all eras before one.
Jump(era) == BREAKS[era + 1] - BREAKS[era]
Leaps(years, rest) == Div(years, 33) * 8 + Div(Mod(years, 33) + rest, 4)
LeapsBefore[era \in 1..(Len(BREAKS) - 1)] ==
  IF era = 1 THEN 0 ELSE LeapsBefore[era - 1] + Leaps(Jump(era - 1), 0)

\* The position of a year among the leap years, 0 for a leap year, and the day
\* number of its 1 Farvardin.
JalaliYearInfo(jYear) ==
  LET era == CHOOSE k \in 1..(Len(BREAKS) - 1) : BREAKS[k] <= jYear /\ jYear < BREAKS[k + 1]
      jump == Jump(era)
      n == jYear - BREAKS[era]
      leapJ == LeapsBefore[era] + Leaps(n, 3) - 14
                 + (IF Mod(jump, 33) = 4 /\ jump - n = 4 THEN 1 ELSE 0)
      year == jYear + 621
      leapG == Div(year, 4) - Div((Div(year, 100) + 1) * 3, 4) - 150
      position == IF jump - n < 6 THEN n - jump + Div(jump + 4, 33) * 33 ELSE n
      leap == Mod(Mod(position + 1, 33) - 1, 4)
  IN [leap |-> IF leap = -1 THEN 4 ELSE leap,
      marchJdn |-> GregorianDayJdn(Date(year, 3, 20 + leapJ - leapG))]

JalaliDate(jYear, jMonth, jDay) == [jYear |-> jYear, jMonth |-> jMonth, jDay |-> jDay]

\* Mutant of DayNumberToJalali: every year before Nowruz is a common one.
DayNumberToCommonJalali(jdn) ==
  LET jYear == JdnToGregorianDay(jdn).year - 621
      k == jdn - JalaliYearInfo(jYear).marchJdn
  IN IF k \in 0..185 THEN JalaliDate(jYear, Div(k, 31) + 1, Mod(k, 31) + 1)
     ELSE LET late == IF k >= 0 THEN k - 186 ELSE k + 179
          IN JalaliDate(IF k >= 0 THEN jYear ELSE jYear - 1, Div(late, 30) + 7, Mod(late, 30) + 1)

DayNumberToJalali(jdn) ==
  LET jYear == JdnToGregorianDay(jdn).year - 621
      info == JalaliYearInfo(jYear)
      k == jdn - info.marchJdn
      late == CASE k >= 0 -> k - 186
                [] k < 0 /\ info.leap = 1 -> k + 180
                [] OTHER -> k + 179
  IN IF k \in 0..185 THEN JalaliDate(jYear, Div(k, 31) + 1, Mod(k, 31) + 1)
     ELSE JalaliDate(IF k >= 0 THEN jYear ELSE jYear - 1, Div(late, 30) + 7, Mod(late, 30) + 1)

BusinessDateToJalali(date) == DayNumberToJalali(EpochDays(date) + JDN_OF_UNIX_EPOCH)

DaysBeforeJalaliMonth(jMonth) == (jMonth - 1) * 31 - Div(jMonth, 7) * (jMonth - 7)

JalaliDaysInMonth(jYear, jMonth) ==
  CASE jMonth <= 6 -> 31
    [] jMonth \in 7..11 -> 30
    [] jMonth = 12 -> IF JalaliYearInfo(jYear).leap = 0 THEN 30 ELSE 29

BusinessDateFromJalali(jYear, jMonth, jDay) ==
  JdnToGregorianDay(JalaliYearInfo(jYear).marchJdn - 1 + DaysBeforeJalaliMonth(jMonth) + jDay)

JalaliMonthBounds(jYear, jMonth) ==
  [start |-> BusinessDateFromJalali(jYear, jMonth, 1),
   end |-> BusinessDateFromJalali(jYear, jMonth, JalaliDaysInMonth(jYear, jMonth))]

JalaliYearBounds(jYear) ==
  [start |-> JalaliMonthBounds(jYear, 1).start, end |-> JalaliMonthBounds(jYear, 12).end]

-----------------------------------------------------------------------------
(* The plan.                                                               *)

Refused == [error |-> "FISCAL_PERIOD_STRUCTURE"]

\* Exactly one Jalali year, in twelve months without a gap.
Plan(range) ==
  LET jYear == BusinessDateToJalali(range.start).jYear
      periods == [sequence \in 1..12 |-> JalaliMonthBounds(jYear, sequence)]
      Contiguous(sequence) ==
        EpochDays(periods[sequence].end) = EpochDays(periods[sequence + 1].start) - 1
  IN IF range = JalaliYearBounds(jYear) /\ \A sequence \in 1..11 : Contiguous(sequence)
     THEN [jalaliYear |-> jYear, periods |-> periods]
     ELSE Refused

CalendarInit == generation = [step |-> "idle"]

\* GenerateFiscalPeriodsUseCase asks for the plan of a stored year.
Generate(range) ==
  /\ generation.step = "idle"
  /\ generation' = [step |-> "planned", range |-> range, plan |-> Plan(range)]

CalendarNext ==
  \E year \in CalendarYears, first, final \in MarchDays :
    Generate([start |-> Date(year, 3, first), end |-> Date(year + 1, 3, final)])

CalendarSpec == CalendarInit /\ [][CalendarNext]_generation

-----------------------------------------------------------------------------
(* Properties.                                                             *)

\* The first day of a Jalali year, counted from 21 March 1969 by the leap years of
\* the cycle of 33 years.  The eras of the calendar agree with it from 1178 to 1633.
Nowruz(jYear) ==
  EpochDays(Date(1969, 3, 21)) + 365 * (jYear - 1348)
    + Cardinality({y \in 1348..(jYear - 1) : y % 33 \in {1, 5, 9, 13, 17, 22, 26, 30}})

\* The period of a month begins where the one before it ended, and its first and last
\* day are days of the month it is named for.
IsMonth(jYear, periods, i) ==
  LET first == EpochDays(periods[i].start)
      final == EpochDays(periods[i].end)
  IN /\ first < final
     /\ i < 12 => EpochDays(periods[i + 1].start) = final + 1
     /\ BusinessDateToJalali(periods[i].start) = JalaliDate(jYear, i, 1)
     /\ BusinessDateToJalali(periods[i].end) = JalaliDate(jYear, i, final - first + 1)

\* A range is planned exactly when it is the Jalali year that begins in its March, and
\* the twelve periods tile it: no day is in two of them or in none.
TilesTheYear(jYear, range, plan) ==
  /\ plan # Refused <=> /\ EpochDays(range.start) = Nowruz(jYear)
                        /\ EpochDays(range.end) = Nowruz(jYear + 1) - 1
  /\ plan # Refused =>
       /\ plan.jalaliYear = jYear
       /\ plan.periods[1].start = range.start /\ plan.periods[12].end = range.end
       /\ \A i \in 1..12 : IsMonth(jYear, plan.periods, i)

\* Whatever range the plan is asked for, it tiles the year or is refused.
PeriodsTileTheYear ==
  generation.step = "planned" =>
    TilesTheYear(generation.range.start.year - 621, generation.range, generation.plan)

=============================================================================
