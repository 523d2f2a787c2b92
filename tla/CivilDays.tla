------------------------------ MODULE CivilDays ------------------------------
(***************************************************************************)
(* The time in a backup's file name (src/src/main.rs): seconds since 1970  *)
(* taken apart without a calendar library, civil_from_days for the date,   *)
(* while the clock goes on.                                                *)
(***************************************************************************)
EXTENDS Integers

CONSTANT Days  \* days since 1970-01-01

ASSUME DaysAssumption == Days \subseteq Nat

VARIABLES
  day, second, \* the clock, in days and seconds of the day
  stamp        \* year, month, day, hour, minute and second of the name

clockVars == <<day, second, stamp>>

(* Division of Rust's i64, towards zero. *)
Quotient(a, b) == IF a >= 0 THEN a \div b ELSE -((-a) \div b)

(* Mutant: every century is leap. *)
YearOfEraJulian(doe) == (doe - doe \div 1460) \div 365

YearOfEra(doe) == (doe - doe \div 1460 + doe \div 36524 - doe \div 146096) \div 365

civil_from_days(days) ==
  LET z == days + 719468
      era == Quotient(IF z >= 0 THEN z ELSE z - 146096, 146097)
      doe == z - era * 146097
      yoe == YearOfEra(doe)
      doy == doe - (365 * yoe + yoe \div 4 - yoe \div 100)
      mp == (5 * doy + 2) \div 153
      m == IF mp < 10 THEN mp + 3 ELSE mp - 9
  IN  <<yoe + era * 400 + (IF m <= 2 THEN 1 ELSE 0), m, doy - (153 * mp + 2) \div 5 + 1>>

Stamp(d, s) ==
  [date |-> civil_from_days(d), time |-> <<s \div 3600, (s % 3600) \div 60, s % 60>>]

LastSecond == 86399

(* A day's last second is what matters of it, but for the first day.       *)
ClockInit ==
  /\ \/ day \in Days /\ second = LastSecond
     \/ day = 0 /\ second \in 0..LastSecond
  /\ stamp = Stamp(day, second)

Tick ==
  /\ IF second = LastSecond THEN day' = day + 1 /\ second' = 0
                            ELSE second' = second + 1 /\ UNCHANGED day
  /\ second = LastSecond \/ day = 0
  /\ stamp' = Stamp(day', second')

ClockSpec == ClockInit /\ [][Tick]_clockVars

-----------------------------------------------------------------------------
(* The Gregorian calendar and the clock, by their rules. *)
Leap(y) == y % 4 = 0 /\ (y % 100 # 0 \/ y % 400 = 0)

LastOf(y, m) == IF m = 2 THEN (IF Leap(y) THEN 29 ELSE 28)
                ELSE IF m \in {4, 6, 9, 11} THEN 30 ELSE 31

Tomorrow(date) ==
  LET y == date[1] m == date[2] d == date[3] IN
  IF d < LastOf(y, m) THEN <<y, m, d + 1>>
  ELSE IF m < 12 THEN <<y, m + 1, 1>> ELSE <<y + 1, 1, 1>>

SecondLater(s) ==
  LET h == s.time[1] m == s.time[2] x == s.time[3] IN
  IF x < 59 THEN [s EXCEPT !.time = <<h, m, x + 1>>]
  ELSE IF m < 59 THEN [s EXCEPT !.time = <<h, m + 1, 0>>]
  ELSE IF h < 23 THEN [s EXCEPT !.time = <<h + 1, 0, 0>>]
  ELSE [date |-> Tomorrow(s.date), time |-> <<0, 0, 0>>]

(* The names count on from 1970 as the calendar and the clock do, over leap *)
(* days, centuries and the 400 years after which both repeat: two backups   *)
(* a second apart differ and sort by age (main.rs 927-937, 1902-1917).      *)
CalendarTurns ==
  [][/\ day = 0 => stamp.date = <<1970, 1, 1>>
     /\ stamp' = SecondLater(stamp)]_clockVars
=============================================================================
