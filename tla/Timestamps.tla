----------------------------- MODULE Timestamps -----------------------------
(***************************************************************************)
(* Timestamps as the package compares them: as texts, whose fractions are  *)
(* padded to one width. A timestamp is a record of its numbers and the     *)
(* digits of its fraction; what no grammar reads is Malformed.             *)
(***************************************************************************)
EXTENDS Naturals, Sequences

CONSTANT Malformed

PadEnd(digits, width) == digits \o [i \in 1..(width - Len(digits)) |-> 0]

\* The order of texts of equal length.
TextAfter(a, b) == \E i \in DOMAIN a : a[i] > b[i] /\ \A j \in 1..(i - 1) : a[j] = b[j]

FractionWidth == 9

Leap(year) == year % 4 = 0 /\ (year % 100 # 0 \/ year % 400 = 0)

DaysIn(year, month) ==
  IF month = 2 THEN (IF Leap(year) THEN 29 ELSE 28)
  ELSE IF month \in {4, 6, 9, 11} THEN 30 ELSE 31

\* The UTC grammar: four digits of a year, a day of the calendar, no leap second,
\* up to nine digits of a fraction.
IsUtc(t) ==
  /\ t # Malformed
  /\ t.year \in Nat /\ t.year <= 9999 /\ t.month \in 1..12 /\ t.day \in 1..DaysIn(t.year, t.month)
  /\ t.hour \in 0..23 /\ t.minute \in 0..59 /\ t.second \in 0..59
  /\ t.fraction \in Seq(0..9) /\ Len(t.fraction) <= FractionWidth

\* Mutation of UtcText: the fraction is padded on the other side.
UtcText_PadStart(t) ==
  <<t.year, t.month, t.day, t.hour, t.minute, t.second>>
    \o [i \in 1..(FractionWidth - Len(t.fraction)) |-> 0] \o t.fraction

UtcText(t) ==
  <<t.year, t.month, t.day, t.hour, t.minute, t.second>> \o PadEnd(t.fraction, FractionWidth)
-----------------------------------------------------------------------------
(***************************************************************************)
(* What such a text denotes: days of the calendar, seconds of the day, and *)
(* nanoseconds.                                                            *)
(***************************************************************************)
\* Each year before this one, and a leap day for every fourth of them.
DaysBefore(year) ==
  365 * year + (IF year = 0 THEN 0 ELSE 1 + (year - 1) \div 4 - (year - 1) \div 100 + (year - 1) \div 400)

\* The days of a year before each month, when February has 28.
DaysBeforeMonth == <<0, 31, 59, 90, 120, 151, 181, 212, 243, 273, 304, 334>>

LeapDay(year) == IF Leap(year) THEN 1 ELSE 0

\* The first day of a month is the one after this many.
MonthStart(year, month) == DaysBeforeMonth[month] + (IF month > 2 THEN LeapDay(year) ELSE 0)

DayOfYear(t) == MonthStart(t.year, t.month) + t.day

DayNumber(t) == DaysBefore(t.year) + DayOfYear(t)

SecondOfDay(t) == 3600 * t.hour + 60 * t.minute + t.second

Digit(t, i) == IF i \in DOMAIN t.fraction THEN t.fraction[i] ELSE 0

Nanoseconds(t) ==
  LET Then(n, i) == 10 * n + Digit(t, i)
  IN  Then(Then(Then(Then(Then(Then(Then(Then(Digit(t, 1), 2), 3), 4), 5), 6), 7), 8), 9)

Instant(t) == <<DayNumber(t), SecondOfDay(t), Nanoseconds(t)>>

\* Days decide, then seconds, then nanoseconds.
Later(a, b) ==
  \/ a[1] > b[1]
  \/ a[1] = b[1] /\ a[2] > b[2]
  \/ a[1] = b[1] /\ a[2] = b[2] /\ a[3] > b[3]
=============================================================================
