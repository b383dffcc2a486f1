------------------------------ MODULE Rfc3339 -------------------------------
(***************************************************************************)
(* Timestamps (endpoint/src/time.rs).  An instant is a day since           *)
(* 1970-01-01, a second of the day and nanoseconds.  A text is the record  *)
(* of its fields and its fraction as groups of three digits; TextOf gives  *)
(* what comparing two texts byte by byte looks at.  Every field but the    *)
(* year has a fixed width: the year is written with four digits up to 9999 *)
(* and with five from then on.                                             *)
(***************************************************************************)
EXTENDS Integers, Sequences

\* Seconds since the epoch, as one sequence that is compared from the left;
\* the number itself is beyond TLC's integers after 2038.
Secs(i) == <<i.day, i.sec>>

Instants ==
  {i \in [day : Nat, sec : Nat, nanos : Nat] : i.sec < 86400 /\ i.nanos < 1000000000}

\* s comes before t, both compared element by element.
Before(s, t) ==
  \/ \E i \in DOMAIN s \cap DOMAIN t :
       s[i] < t[i] /\ \A j \in 1 .. i - 1 : s[j] = t[j]
  \/ Len(s) < Len(t) /\ \A j \in DOMAIN s : s[j] = t[j]

\* The digits after the point: 0, 3, 6 or 9 of them.
Fraction(nanos) ==
  LET milli == nanos \div 1000000
      micro == (nanos \div 1000) % 1000
  IN  CASE nanos = 0                                     -> <<>>
        [] nanos # 0 /\ nanos % 1000000 = 0              -> <<milli>>
        [] nanos % 1000000 # 0 /\ nanos % 1000 = 0       -> <<milli, micro>>
        [] nanos % 1000 # 0                              -> <<milli, micro, nanos % 1000>>

\* Mutant: the year of the era without its last correction.
CivilNoEraEnd(day) ==
  LET z    == day + 719468
      era  == z \div 146097
      doe  == z - era * 146097
      yoe  == (doe - doe \div 1460 + doe \div 36524) \div 365
      doy  == doe - (365 * yoe + yoe \div 4 - yoe \div 100)
      mp   == (5 * doy + 2) \div 153
      mon  == IF mp < 10 THEN mp + 3 ELSE mp - 9
  IN  [year |-> yoe + era * 400 + (IF mon <= 2 THEN 1 ELSE 0), month |-> mon,
       day |-> doy - (153 * mp + 2) \div 5 + 1]

\* civil_from_days: years begin on 1 March, eras have 400 years.
Civil(day) ==
  LET z    == day + 719468
      era  == z \div 146097
      doe  == z - era * 146097
      yoe  == (doe - doe \div 1460 + doe \div 36524 - doe \div 146096) \div 365
      doy  == doe - (365 * yoe + yoe \div 4 - yoe \div 100)
      mp   == (5 * doy + 2) \div 153
      mon  == IF mp < 10 THEN mp + 3 ELSE mp - 9
  IN  [year |-> yoe + era * 400 + (IF mon <= 2 THEN 1 ELSE 0), month |-> mon,
       day |-> doy - (153 * mp + 2) \div 5 + 1]

\* format_rfc3339
Format(i) ==
  [date |-> Civil(i.day), hour |-> i.sec \div 3600, min |-> (i.sec % 3600) \div 60,
   sec |-> i.sec % 60, fraction |-> Fraction(i.nanos)]

\* The first five bytes of the text as they are compared, in years below 100000:
\* four digits and '-', which sorts before the digits, or five digits.
YearText(year) ==
  IF year <= 9999 THEN 11 * year ELSE 11 * (year \div 10) + (year % 10) + 1

\* Mutant: the offset is written Z, which sorts after '.' and after digits.
TextOfZ(f) ==
  <<YearText(f.date.year), f.date.month, f.date.day, f.hour, f.min, f.sec>>
    \o f.fraction \o <<1000>>

\* The text as it is compared: after the seconds comes '+', which sorts before
\* '.', and after a group of digits '+', which sorts before a digit.
TextOf(f) ==
  <<YearText(f.date.year), f.date.month, f.date.day, f.hour, f.min, f.sec>>
    \o f.fraction \o <<-1>>

\* Mutant: January is moved to the year before, February is not.
DayOfFebruary(date) ==
  LET y   == date.year - (IF date.month < 2 THEN 1 ELSE 0)
      era == y \div 400
      yoe == y - era * 400
      mp  == (date.month + 9) % 12
      doy == (153 * mp + 2) \div 5 + date.day - 1
  IN  era * 146097 + yoe * 365 + yoe \div 4 - yoe \div 100 + doy - 719468

\* days_from_civil
DayOf(date) ==
  LET y   == date.year - (IF date.month <= 2 THEN 1 ELSE 0)
      era == y \div 400
      yoe == y - era * 400
      mp  == (date.month + 9) % 12
      doy == (153 * mp + 2) \div 5 + date.day - 1
  IN  era * 146097 + yoe * 365 + yoe \div 4 - yoe \div 100 + doy - 719468

\* Texts that parse_rfc3339_unix takes.  It looks for the separators at fixed
\* positions, where a year of five digits has none of them.  The day is checked
\* against 31 only, and a leap second passes.
Accepts(f) ==
  /\ f.date.year <= 9999
  /\ f.date.month \in 1 .. 12 /\ f.date.day \in 1 .. 31
  /\ f.hour <= 23 /\ f.min <= 59 /\ f.sec <= 60
  /\ DayOf(f.date) >= 0

\* parse_rfc3339_unix of such a text; a leap second may reach the next day.
Parse(f) ==
  LET sec == f.hour * 3600 + f.min * 60 + f.sec
  IN  <<DayOf(f.date) + sec \div 86400, sec % 86400>>

-----------------------------------------------------------------------------
(***************************************************************************)
(* The calendar, as everybody knows it.                                    *)
(***************************************************************************)

IsLeap(y) == y % 4 = 0 /\ (y % 100 # 0 \/ y % 400 = 0)

MonthLength(y, m) ==
  CASE m = 2                  -> IF IsLeap(y) THEN 29 ELSE 28
    [] m \in {4, 6, 9, 11}    -> 30
    [] m \notin {2, 4, 6, 9, 11} -> 31

\* The date after d.
NextDate(d) ==
  IF d.day < MonthLength(d.year, d.month) THEN [d EXCEPT !.day = @ + 1]
  ELSE IF d.month < 12 THEN [year |-> d.year, month |-> d.month + 1, day |-> 1]
  ELSE [year |-> d.year + 1, month |-> 1, day |-> 1]
=============================================================================
