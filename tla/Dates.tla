------------------------------- MODULE Dates -------------------------------
(***************************************************************************)
(* The date and time types: what is stored is a number, one more than the  *)
(* days, seconds or ticks since 0001-01-01, and what is shown is computed  *)
(* from it by each type.  The units below a day are constants, the days    *)
(* are the real ones: from year 1 to 9999, with the Julian calendar until  *)
(* 1582-10-04 and the Gregorian one from 1582-10-15.                       *)
(* The source computes with f64; the quotients here are exact (they agree, *)
(* since the numbers are far below 2^53 and no quotient is closer to an    *)
(* integer than the f64 arithmetic errs, except where it is an integer).   *)
(***************************************************************************)
EXTENDS Integers, Sequences

CONSTANTS TicksPerSecond, SecondsPerMinute, MinutesPerHour, HoursPerDay

ASSUME UnitAssumption ==
    {TicksPerSecond, SecondsPerMinute, MinutesPerHour, HoursPerDay} \subseteq Nat \ {0}

ZEITENWENDE == 1721424
JGREG       == 2299161

\* The fourth unit is the day; LongDate counts ticks, SecondDate seconds.
MINUTE_FACTOR == SecondsPerMinute
HOUR_FACTOR   == SecondsPerMinute * MinutesPerHour
DAY_FACTOR    == SecondsPerMinute * MinutesPerHour * HoursPerDay

DayDateNull    == 3652062
LongDateNull   == 3652061 * DAY_FACTOR * TicksPerSecond + 1
SecondDateNull == 3652061 * DAY_FACTOR + 1
SecondTimeNull == DAY_FACTOR + 2

\* The division of Rust's integers and of "as i32": towards zero.
Quot(a, b) == IF a >= 0 THEN a \div b ELSE -((-a) \div b)

\* Zero and one both stand for the first moment.
SinceStart(raw) == IF raw = 0 THEN 0 ELSE raw - 1

\* Year, month and day of a day number, by the usual Julian day arithmetic:
\* from the number in the Julian calendar,
FromJulian(ja) ==
    LET jb == ja + 1524
        jc == Quot(6680 * 36525 + 100 * (jb - 2439870) - 12210, 36525)
        jd == 365 * jc + Quot(jc, 4)
        je == Quot(10000 * (jb - jd), 306001)
        day == jb - jd - Quot(306001 * je, 10000)
        month == IF je - 1 > 12 THEN je - 13 ELSE je - 1
        year == jc - 4715 - (IF month > 2 THEN 1 ELSE 0)
    IN  << IF year <= 0 THEN year - 1 ELSE year, month, day >>

\* which a Gregorian day would have.
ToJulian(julian) ==
    LET jalpha == Quot(4 * (julian - 1867216) - 1, 146097)
    IN  julian + 1 + jalpha - Quot(jalpha, 4)

\* Mutant: the first Gregorian day is taken for a Julian one.
YearMonthDayLate(datevalue) ==
    LET julian == datevalue + ZEITENWENDE
    IN  FromJulian(IF julian > JGREG THEN ToJulian(julian) ELSE julian)

YearMonthDay(datevalue) ==
    LET julian == datevalue + ZEITENWENDE
    IN  FromJulian(IF julian >= JGREG THEN ToJulian(julian) ELSE julian)

\* Hour, minute and second of the seconds within a day.
HourMinuteSecond(s) ==
    << Quot(s, HOUR_FACTOR), Quot(s % HOUR_FACTOR, MINUTE_FACTOR), s % MINUTE_FACTOR >>

ShowDayDate(raw) == YearMonthDay(SinceStart(raw))

ShowSecondTime(raw) == HourMinuteSecond(SinceStart(raw))

ShowSecondDate(raw) ==
    LET value == SinceStart(raw) IN
    YearMonthDay(Quot(value, DAY_FACTOR)) \o HourMinuteSecond(value % DAY_FACTOR)

ShowLongDate(raw) ==
    LET value == SinceStart(raw)
        day == DAY_FACTOR * TicksPerSecond
        time == value % day
    IN  YearMonthDay(Quot(value, day)) \o HourMinuteSecond(Quot(time, TicksPerSecond))
            \o << time % TicksPerSecond >>

\* DayDate::new and SecondTime::new panic for a number out of range.
IsDayDate(raw)    == raw >= 0 /\ raw < DayDateNull
IsSecondTime(raw) == raw >= 0 /\ raw < SecondTimeNull

-----------------------------------------------------------------------------
(* The calendar the database keeps: a day of a month of a year has a       *)
(* number, by counting the days before it.                                 *)
IsGregorian(y, m, d) == 10000 * y + 100 * m + d >= 15821015

IsLeap(y) == y % 4 = 0 /\ (y <= 1582 \/ y % 100 # 0 \/ y % 400 = 0)

DaysBefore == <<0, 31, 59, 90, 120, 151, 181, 212, 243, 273, 304, 334>>

\* The days from 0001-01-01 to this one; ten days were skipped in 1582.
DayNumber(y, m, d) ==
    LET n == y - 1
        centuries == IF IsGregorian(y, m, d) THEN n \div 100 - n \div 400 - 2 ELSE 0
    IN  365 * n + n \div 4 - centuries + DaysBefore[m] + d - 1
        + IF m > 2 /\ IsLeap(y) THEN 1 ELSE 0
=============================================================================
