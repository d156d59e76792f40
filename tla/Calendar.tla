------------------------------ MODULE Calendar ------------------------------
(***************************************************************************)
(* The arithmetic of src/cmos/cmos.c: time() turns BCD into binary, a      *)
(* twelve-hour clock into a twenty-four-hour one and two-digit years into  *)
(* years, utime() counts the seconds since 1970.  Beside it the calendar   *)
(* itself and the registers in which the clock keeps it.  A date is an     *)
(* hour; minutes and seconds are stored and converted like the day.        *)
(*                                                                         *)
(* The mode of a clock: [binary, h24] are two bits of register B,          *)
(* [century] says that it has a register for the century.                  *)
(***************************************************************************)
EXTENDS Integers

Modes == [binary : BOOLEAN, h24 : BOOLEAN, century : BOOLEAN]

CURRENT_CENTURY == 21

-----------------------------------------------------------------------------
(* The calendar.                                                           *)

IsLeap(y) == y % 4 = 0 /\ (y % 100 # 0 \/ y % 400 = 0)

DaysOf(m, y) ==
    CASE m = 2 -> IF IsLeap(y) THEN 29 ELSE 28
      [] m \in {4, 6, 9, 11} -> 30
      [] OTHER -> 31

Dates ==
    {d \in [year : 1970..2037, month : 1..12, day : 1..31, hour : 0..23] :
        d.day <= DaysOf(d.month, d.year)}

NextHour(d) ==
    CASE d.hour < 23 -> [d EXCEPT !.hour = d.hour + 1]
      [] d.hour = 23 /\ d.day < DaysOf(d.month, d.year) ->
            [d EXCEPT !.hour = 0, !.day = d.day + 1]
      [] d.hour = 23 /\ d.day = DaysOf(d.month, d.year) /\ d.month < 12 ->
            [d EXCEPT !.hour = 0, !.day = 1, !.month = d.month + 1]
      [] OTHER -> [year |-> d.year + 1, month |-> 1, day |-> 1, hour |-> 0]

\* Days since 1 January 1970, in years that begin in March.
DaysSince1970(d) ==
    LET y == IF d.month <= 2 THEN d.year - 1 ELSE d.year
        m == (d.month + 9) % 12
    IN  365 * y + y \div 4 - y \div 100 + y \div 400 + (153 * m + 2) \div 5 + d.day - 719469

-----------------------------------------------------------------------------
(* The registers of the clock.                                             *)

Stored(v, mode) == IF mode.binary THEN v ELSE (v \div 10) * 16 + (v % 10)

Hour12(h) == IF h % 12 = 0 THEN 12 ELSE h % 12

Registers(d, mode) ==
    [hour |-> IF mode.h24 THEN Stored(d.hour, mode)
              ELSE Stored(Hour12(d.hour), mode) + (IF d.hour >= 12 THEN 128 ELSE 0),
     day |-> Stored(d.day, mode),
     month |-> Stored(d.month, mode),
     year |-> Stored(d.year % 100, mode),
     century |-> IF mode.century THEN Stored(d.year \div 100, mode) ELSE 0]

-----------------------------------------------------------------------------
(* time(), from the point where two passes have agreed.                    *)

Binary(v) == (v % 16) + (v \div 16) * 10

\* The flag of the afternoon, bit 7, is kept out of it.
HourDigits(h) == (h % 16) + ((h % 128) \div 16) * 10 + (h \div 128) * 128

Converted(r, mode) ==
    IF mode.binary THEN r
    ELSE [hour |-> HourDigits(r.hour), day |-> Binary(r.day), month |-> Binary(r.month),
          year |-> Binary(r.year), century |-> Binary(r.century)]

HourOfDay(h, mode) == IF ~mode.h24 /\ h >= 128 THEN ((h % 128) + 12) % 24 ELSE h

\* A century register that reads 0 is taken for none.
FullYear(r) == r.year + 100 * (IF r.century # 0 THEN r.century ELSE CURRENT_CENTURY - 1)

DateOf(registers, mode) ==
    LET r == Converted(registers, mode)
    IN  [year |-> FullYear(r), month |-> r.month, day |-> r.day, hour |-> HourOfDay(r.hour, mode)]

-----------------------------------------------------------------------------
(* utime().                                                                *)

\* The rules for 400 and 100 years have each other's result.
get_num_of_days_in_year(y) ==
    IF y % 400 # 0 /\ (y % 100 = 0 \/ y % 4 = 0) THEN 366 ELSE 365

get_num_of_days_in_month(m, y) ==
    CASE m = 2 -> IF get_num_of_days_in_year(y) = 365 THEN 28 ELSE 29
      [] m \in {4, 6, 9, 11} -> 30
      [] OTHER -> 31

\* The days of the years from 1970 to the one before.
years_to_days[year \in Nat] ==
    IF year <= 1970 THEN 0
    ELSE years_to_days[year - 1] + get_num_of_days_in_year(year - 1)

\* Mutant: the running month counts as well.
months_to_days_Running(month, year) ==
    LET days[m \in Nat] ==
            IF m = 0 THEN 0 ELSE days[m - 1] + get_num_of_days_in_month(m, year)
    IN  days[month]

\* The days of the months of a year before one of them.
months_to_days(month, year) ==
    LET days[m \in Nat] ==
            IF m <= 1 THEN 0 ELSE days[m - 1] + get_num_of_days_in_month(m - 1, year)
    IN  days[month]

utime(d) ==
    (years_to_days[d.year] + months_to_days(d.month, d.year) + d.day - 1) * 86400
    + d.hour * 3600
=============================================================================
