----------------------------- MODULE RtcProofs -----------------------------
(***************************************************************************)
(* Proofs about Rtc, for clocks of every mode that are switched on at any  *)
(* dates and change their registers in any order, and for any number of    *)
(* updates during a call, up to the 22 of RtcAssumption.                   *)
(*                                                                         *)
(* A read gets a register of the newest date of the call or, when an       *)
(* update has still to change it, of the date before.  The hours are what  *)
(* dates the passes: no two dates of a call have them in common, so passes *)
(* that agree on the hours have read them at one date, the one at which    *)
(* the second pass began.  A register that the first pass read too early   *)
(* or the second too late would have to differ from that date's both       *)
(* before and after it, and no two days end during one call.               *)
(***************************************************************************)
EXTENDS Rtc, NaturalLemmas, SequenceTheorems

\* The registers, a date as a record, and the values of a pass.
Fields == {"hour", "day", "month", "year", "century"}

DateRecord == [year : 1970..2037, month : 1..12, day : 1..31, hour : 0..23]

Values == [Fields -> 0..255]

\* Without a register for the century the clock is one of years from 2000 on.
ClockDates == {d \in Dates : mode.century \/ d.year >= 2000}

\* A bound on the dates that rises by one an hour at most.
Count(year, month, day, hour) ==
    (12 * year + month) * 672 + (IF day >= 29 THEN 671 ELSE (day - 1) * 24 + hour)

\* It is at most this when the clock is switched on.
LastStart == Count(2035, 12, 31, 23)

Index(d) == Count(d.year, d.month, d.day, d.hour)

SameDay(d, e) == d.day = e.day /\ d.month = e.month /\ d.year = e.year

\* The second of two dates is some hours after the first, less than a day.
Later(d, e, gap) ==
    \/ e.hour = d.hour + gap /\ SameDay(d, e)
    \/ e.hour = d.hour + gap - 24

\* How many dates the call has seen.
Now == Len(recent)

\* What a register held, or holds once an update is through, at the i-th date of the call.
RegistersAt(i) == Registers(recent[i], mode)

\* What the state is made of.
ClockTyped ==
    /\ mode \in Modes
    /\ date \in ClockDates
    /\ hours \in 0..Horizon
    /\ Index(date) \in Int /\ Index(date) <= LastStart + hours
    /\ regs \in Values /\ rtc \in Values /\ last \in Values \cup {None}
    /\ stale \subseteq Fields
    /\ flag \in BOOLEAN
    /\ stale # {} => flag
    /\ pc \in {"idle", "wait", "read", "compare"}
    /\ k \in 1..Len(Reads)
    /\ pc # "read" => k = 1
    /\ ~mode.century => rtc.century = 0

\* The dates of the call follow each other, hour by hour, and the last one is the clock's.
Dated ==
    /\ recent \in Seq(ClockDates)
    /\ pc = "idle" <=> Now = 0
    /\ Now \in 0..23
    /\ Now > 0 => recent[Now] = date
    /\ \A i, j \in 1..Now : i <= j => Later(recent[i], recent[j], j - i)

\* A register is that of the date unless the update has still to change it.
Fresh == \A r \in Fields \ stale : regs[r] = Registers(date, mode)[r]

\* One that has still to be changed is that of the date before: of the call's, but for an
\* update that the call found running.
Old ==
    stale # {} /\ pc # "idle" =>
        \/ Now > 1 /\ \A r \in stale : regs[r] = RegistersAt(Now - 1)[r]
        \/ Now = 1 /\ pc = "wait" /\ last = None

\* The registers that the running pass has read.
Got == IF pc = "compare" THEN Fields
       ELSE {Reads[i] : i \in 1..(k - 1)}

\* Values that were read between two dates of the call, each maybe at another one.
ReadBetween(values, fields, first, end) ==
    \A r \in fields : \E i \in first..end : values[r] = RegistersAt(i)[r]

\* A pass that began at the date of number first.
Pass(first) ==
    /\ flag => first < Now
    /\ ReadBetween(rtc, Got, first, Now)
    /\ last # None => ReadBetween(last, Fields, 1, first)

\* Where the call has what it has read from.
Passes ==
    /\ pc = "wait" /\ last # None => ReadBetween(last, Fields, 1, Now)
    /\ pc \in {"read", "compare"} => \E first \in 1..Now : Pass(first)

Inv == ClockTyped /\ Dated /\ Fresh /\ Old /\ Passes

-----------------------------------------------------------------------------
(* The calendar and the formats of the registers.                          *)

\* A date with other numbers in it.
LEMMA NewDay ==
    ASSUME NEW d \in DateRecord, NEW n \in 1..31
    PROVE  [d EXCEPT !.day = n] \in DateRecord
  BY DEF DateRecord

LEMMA NewMonth ==
    ASSUME NEW d \in DateRecord, NEW n \in 1..12
    PROVE  [d EXCEPT !.month = n] \in DateRecord
  BY DEF DateRecord

\* What the dates have in common.
LEMMA DateNumbers ==
    ASSUME NEW d \in Dates
    PROVE  /\ d \in DateRecord
           /\ d.year \in 1970..2037 /\ d.month \in 1..12 /\ d.day \in 1..31 /\ d.hour \in 0..23
           /\ d.day <= DaysOf(d.month, d.year)
           /\ \A m, y : DaysOf(m, y) \in 28..31
<1>1. d \in DateRecord /\ d.day <= DaysOf(d.month, d.year)
  BY DEF Dates, DateRecord
<1>2. \A m, y : DaysOf(m, y) \in 28..31
  BY DEF DaysOf
<1> QED  BY <1>1, <1>2 DEF DateRecord

\* The four ways in which an hour passes, by the numbers of the date.
LEMMA NextHourNumbers ==
    ASSUME NEW d \in Dates, NEW e, e = NextHour(d)
    PROVE  /\ \/ d.hour < 23 /\ e.hour = d.hour + 1 /\ SameDay(d, e)
              \/ /\ d.hour = 23 /\ e.hour = 0
                 /\ \/ /\ d.day < DaysOf(d.month, d.year)
                       /\ e.day = d.day + 1 /\ e.month = d.month /\ e.year = d.year
                    \/ /\ d.day = DaysOf(d.month, d.year) /\ d.month < 12
                       /\ e.day = 1 /\ e.month = d.month + 1 /\ e.year = d.year
                    \/ /\ d.day = DaysOf(d.month, d.year) /\ d.month = 12
                       /\ e.day = 1 /\ e.month = 1 /\ e.year = d.year + 1
           /\ e.year <= 2037 => e \in DateRecord
<1>1. /\ d \in DateRecord
      /\ d.year \in 1970..2037 /\ d.month \in 1..12 /\ d.day \in 1..31 /\ d.hour \in 0..23
      /\ d.day <= DaysOf(d.month, d.year) /\ DaysOf(d.month, d.year) \in 28..31
  BY DateNumbers
<1>2. CASE d.hour < 23
  <2>1. e = [d EXCEPT !.hour = d.hour + 1]
    BY <1>2 DEF NextHour
  <2>2. e \in DateRecord
    <3>1. d.hour + 1 \in 0..23
      BY <1>1, <1>2
    <3> QED  BY <1>1, <2>1, <3>1 DEF DateRecord
  <2>3. e.hour = d.hour + 1 /\ SameDay(d, e)
    BY <1>1, <2>1 DEF SameDay, DateRecord
  <2> QED  BY <1>2, <2>2, <2>3
<1> DEFINE f == [d EXCEPT !.hour = 0]
<1>3. f \in DateRecord
  BY <1>1 DEF DateRecord
<1>4. CASE d.hour = 23 /\ d.day < DaysOf(d.month, d.year)
  <2>1. e = [d EXCEPT !.hour = 0, !.day = d.day + 1]
    BY <1>1, <1>4 DEF NextHour
  <2>2. e = [f EXCEPT !.day = d.day + 1]
    BY <2>1
  <2>3. d.day + 1 \in 1..31
    BY <1>1, <1>4
  <2>4. e \in DateRecord
    <3> HIDE DEF f
    <3> QED  BY ONLY <1>3, <2>2, <2>3, NewDay
  <2>5. e.hour = 0 /\ e.day = d.day + 1 /\ e.month = d.month /\ e.year = d.year
    BY <1>1, <2>1 DEF DateRecord
  <2> QED  BY <1>4, <2>4, <2>5
<1>5. CASE d.hour = 23 /\ d.day = DaysOf(d.month, d.year) /\ d.month < 12
  <2>1. e = [d EXCEPT !.hour = 0, !.day = 1, !.month = d.month + 1]
    BY <1>1, <1>5 DEF NextHour
  <2> DEFINE g == [f EXCEPT !.day = 1]
  <2>2. e = [g EXCEPT !.month = d.month + 1]
    BY <2>1
  <2>3. d.month + 1 \in 1..12
    BY <1>1, <1>5
  <2>4. g \in DateRecord
    <3> HIDE DEF f
    <3> QED  BY <1>3 DEF DateRecord
  <2>5. e \in DateRecord
    <3> HIDE DEF g
    <3> QED  BY ONLY <2>2, <2>3, <2>4, NewMonth
  <2>6. e.hour = 0 /\ e.day = 1 /\ e.month = d.month + 1 /\ e.year = d.year
    BY <1>1, <2>1 DEF DateRecord
  <2> QED  BY <1>5, <2>5, <2>6
<1>6. CASE d.hour = 23 /\ d.day = DaysOf(d.month, d.year) /\ d.month = 12
  <2>1. e = [year |-> d.year + 1, month |-> 1, day |-> 1, hour |-> 0]
    BY <1>1, <1>6 DEF NextHour
  <2> QED  BY <1>1, <1>6, <2>1 DEF DateRecord
<1> QED  BY <1>1, <1>2, <1>4, <1>5, <1>6

\* An hour later it is a date still, before 2038, the next day at most.
LEMMA NextHourLater ==
    ASSUME NEW d \in Dates, NEW e, e = NextHour(d), e.year <= 2037
    PROVE  /\ e \in Dates
           /\ d.year <= e.year
           /\ \/ d.hour < 23 /\ e.hour = d.hour + 1 /\ SameDay(d, e)
              \/ d.hour = 23 /\ e.hour = 0
<1>1. /\ d.year \in 1970..2037 /\ d.month \in 1..12 /\ d.day \in 1..31 /\ d.hour \in 0..23
      /\ d.day <= DaysOf(d.month, d.year) /\ \A m, y : DaysOf(m, y) \in 28..31
  BY DateNumbers
<1>2. e \in DateRecord
  BY NextHourNumbers
<1>3. e.day <= DaysOf(e.month, e.year)
  <2>1. DaysOf(1, d.year + 1) = 31
    BY DEF DaysOf
  <2> QED  BY <1>1, <2>1, NextHourNumbers DEF SameDay
<1> QED  BY <1>1, <1>2, <1>3, NextHourNumbers DEF Dates, DateRecord, SameDay

LEMMA LastStartInt == LastStart \in Int
  BY DEF LastStart, Count

\* The bound on the dates rises by one an hour at most, and it is one.
LEMMA NextHourIndex ==
    ASSUME NEW d \in Dates, NEW e, e = NextHour(d)
    PROVE  /\ Index(d) \in Int /\ Index(e) \in Int
           /\ d.year <= 2035 => Index(d) <= LastStart
           /\ Index(e) <= Index(d) + 1
           /\ Index(e) <= LastStart + 8064 => e.year <= 2037
<1> DEFINE y == d.year
           m == d.month
           n == d.day
           h == d.hour
<1>1. /\ y \in 1970..2037 /\ m \in 1..12 /\ n \in 1..31 /\ h \in 0..23
      /\ d.year = y /\ d.month = m /\ d.day = n /\ d.hour = h
  BY DateNumbers
<1> HIDE DEF y, m, n, h
<1>2. PICK last_day \in 28..31 : last_day = DaysOf(m, y) /\ n <= last_day
  BY <1>1, DateNumbers
<1>3. Index(d) \in Int /\ (d.year <= 2035 => Index(d) <= LastStart)
  BY <1>1 DEF Index, Count, LastStart
<1>4. CASE h < 23
  <2>1. e.hour = h + 1 /\ e.day = n /\ e.month = m /\ e.year = y
    BY <1>1, <1>4, NextHourNumbers DEF SameDay
  <2> QED  BY <1>1, <1>3, <1>4, <2>1 DEF Index, Count, LastStart
<1>5. CASE h = 23
  <2>1. /\ e.hour = 0
        /\ \/ n < last_day /\ e.day = n + 1 /\ e.month = m /\ e.year = y
           \/ n = last_day /\ m < 12 /\ e.day = 1 /\ e.month = m + 1 /\ e.year = y
           \/ n = last_day /\ m = 12 /\ e.day = 1 /\ e.month = 1 /\ e.year = y + 1
    BY <1>1, <1>2, <1>5, NextHourNumbers
  <2>2. CASE n < last_day /\ e.day = n + 1 /\ e.month = m /\ e.year = y
    BY <1>1, <1>3, <1>5, <2>1, <2>2 DEF Index, Count, LastStart
  <2>3. CASE n = last_day /\ m < 12 /\ e.day = 1 /\ e.month = m + 1 /\ e.year = y
    BY <1>1, <1>3, <1>5, <2>1, <2>3 DEF Index, Count, LastStart
  <2>4. CASE n = last_day /\ m = 12 /\ e.day = 1 /\ e.month = 1 /\ e.year = y + 1
    BY <1>1, <1>3, <1>5, <2>1, <2>4 DEF Index, Count, LastStart
  <2> QED  BY <2>1, <2>2, <2>3, <2>4
<1> QED  BY <1>1, <1>4, <1>5

\* From a date to itself no hour passes, and with the clock's next hour one more.
LEMMA LaterSelf ==
    ASSUME NEW d \in Dates
    PROVE  Later(d, d, 0)
<1>1. d.hour \in 0..23
  BY DateNumbers
<1> QED  BY <1>1 DEF Later, SameDay

LEMMA LaterNext ==
    ASSUME NEW d \in Dates, NEW e \in Dates, NEW f, NEW gap \in 0..22, Later(d, e, gap),
           \/ e.hour < 23 /\ f.hour = e.hour + 1 /\ SameDay(e, f)
           \/ e.hour = 23 /\ f.hour = 0
    PROVE  Later(d, f, gap + 1)
<1>1. d.hour \in 0..23 /\ e.hour \in 0..23
  BY DateNumbers
<1>2. CASE e.hour = d.hour + gap /\ SameDay(d, e)
  BY <1>1, <1>2 DEF Later, SameDay
<1>3. CASE e.hour = d.hour + gap - 24
  BY <1>1, <1>3 DEF Later
<1> QED  BY <1>2, <1>3 DEF Later

\* A register holds a number below a hundred in a byte, and an hour without the highest bit.
LEMMA StoredByte ==
    ASSUME NEW m \in Modes
    PROVE  /\ \A v \in 0..99 : Stored(v, m) \in 0..255 /\ (v > 0 => Stored(v, m) > 0)
           /\ \A v \in 0..23 : Stored(v, m) \in 0..127
  BY DEF Stored

\* The conversion of BCD gives back what was stored, and the flag of the afternoon as it is.
LEMMA StoredBack ==
    ASSUME NEW m \in Modes, ~m.binary
    PROVE  /\ \A v \in 0..99 : Binary(Stored(v, m)) = v
           /\ \A v \in 0..23 : /\ HourDigits(Stored(v, m)) = v
                               /\ HourDigits(Stored(v, m) + 128) = v + 128
  BY DEF Stored, Binary, HourDigits

\* No two numbers are stored in the same way.
LEMMA StoredOnce ==
    ASSUME NEW m \in Modes, NEW v \in 0..99, NEW w \in 0..99, Stored(v, m) = Stored(w, m)
    PROVE  v = w
  BY DEF Stored

\* The numbers that the registers hold.
LEMMA RegisterNumbers ==
    ASSUME NEW d \in Dates
    PROVE  /\ d.hour \in 0..23 /\ Hour12(d.hour) \in 1..12
           /\ d.day \in 1..31 /\ d.month \in 1..12
           /\ d.year % 100 \in 0..99 /\ d.year \div 100 \in 19..20
           /\ d.year = (d.year % 100) + 100 * (d.year \div 100)
<1>1. d.year \in 1970..2037 /\ d.month \in 1..12 /\ d.day \in 1..31 /\ d.hour \in 0..23
  BY DateNumbers
<1> QED  BY <1>1 DEF Hour12

\* The registers hold bytes, and without one for the century it reads 0.
LEMMA RegistersTyped ==
    ASSUME NEW d \in Dates, NEW m \in Modes
    PROVE  /\ Registers(d, m) \in Values
           /\ ~m.century => Registers(d, m).century = 0
<1> DEFINE R == Registers(d, m)
<1>1. /\ R.hour = IF m.h24 THEN Stored(d.hour, m)
                  ELSE Stored(Hour12(d.hour), m) + (IF d.hour >= 12 THEN 128 ELSE 0)
      /\ R.day = Stored(d.day, m) /\ R.month = Stored(d.month, m)
      /\ R.year = Stored(d.year % 100, m)
      /\ R.century = IF m.century THEN Stored(d.year \div 100, m) ELSE 0
  BY DEF Registers
<1>2. R.hour \in 0..255
  <2>1. Stored(d.hour, m) \in 0..127 /\ Stored(Hour12(d.hour), m) \in 0..127
    BY RegisterNumbers, StoredByte
  <2> QED  BY <1>1, <2>1
<1>3. R.day \in 0..255 /\ R.month \in 0..255 /\ R.year \in 0..255
  BY <1>1, RegisterNumbers, StoredByte
<1>4. R.century \in 0..255
  BY <1>1, RegisterNumbers, StoredByte
<1>5. R \in Values
  <2>1. R = [r \in Fields |-> R[r]]
    BY DEF Registers, Fields
  <2>2. \A r \in Fields : R[r] \in 0..255
    BY <1>2, <1>3, <1>4 DEF Fields
  <2> HIDE DEF R
  <2> QED  BY <2>1, <2>2 DEF Values
<1> QED  BY <1>1, <1>5

\* Two dates with the same hours register have the same hour.
LEMMA SameHour ==
    ASSUME NEW d \in Dates, NEW e \in Dates, NEW m \in Modes,
           Registers(d, m).hour = Registers(e, m).hour
    PROVE  d.hour = e.hour
<1>1. d.hour \in 0..23 /\ e.hour \in 0..23
  BY RegisterNumbers
<1>2. \A v, w \in 0..23 : Stored(v, m) = Stored(w, m) => v = w
  BY StoredOnce
<1>3. CASE m.h24
  BY <1>1, <1>2, <1>3 DEF Registers
<1>4. CASE ~m.h24
  <2>1. Hour12(d.hour) \in 1..12 /\ Hour12(e.hour) \in 1..12
    BY RegisterNumbers
  <2>2. Stored(Hour12(d.hour), m) \in 0..127 /\ Stored(Hour12(e.hour), m) \in 0..127
    BY <2>1, StoredByte
  <2> DEFINE a == Stored(Hour12(d.hour), m)
             b == Stored(Hour12(e.hour), m)
  <2>3. a + (IF d.hour >= 12 THEN 128 ELSE 0) = b + (IF e.hour >= 12 THEN 128 ELSE 0)
    BY <1>4 DEF Registers
  <2>4. Stored(Hour12(d.hour), m) = Stored(Hour12(e.hour), m) /\ (d.hour >= 12 <=> e.hour >= 12)
    <3>1. a \in 0..127 /\ b \in 0..127
      BY <2>2
    <3> HIDE DEF a, b
    <3>2. a = b /\ (d.hour >= 12 <=> e.hour >= 12)
      BY <1>1, <2>3, <3>1
    <3> QED  BY <3>2 DEF a, b
  <2>5. Hour12(d.hour) = Hour12(e.hour)
    BY <1>2, <2>1, <2>4
  <2> QED  BY <1>1, <2>4, <2>5 DEF Hour12
<1> QED  BY <1>3, <1>4

\* On the same day only the hours register differs.
LEMMA SameDaySameRegisters ==
    ASSUME NEW d, NEW e, NEW m, SameDay(d, e), NEW r \in Fields \ {"hour"}
    PROVE  Registers(d, m)[r] = Registers(e, m)[r]
  BY DEF Registers, SameDay, Fields

\* time() turns the registers back into the date, but for the noon and the midnight of a
\* twelve-hour clock.
LEMMA DateBack ==
    ASSUME NEW d \in ClockDates, mode \in Modes
    PROVE  LET t == DateOf(Registers(d, mode), mode)
           IN  IF TwelveOClock(d) THEN [t EXCEPT !.hour = d.hour] = d ELSE t = d
<1> DEFINE R == Registers(d, mode)
           C == Converted(R, mode)
           t == DateOf(R, mode)
<1>1. d \in Dates /\ (mode.century \/ d.year >= 2000)
  BY DEF ClockDates
<1>2. /\ d.hour \in 0..23 /\ Hour12(d.hour) \in 1..12
      /\ d.day \in 1..31 /\ d.month \in 1..12
      /\ d.year % 100 \in 0..99 /\ d.year \div 100 \in 19..20
      /\ d.year = (d.year % 100) + 100 * (d.year \div 100)
  BY <1>1, RegisterNumbers
<1>3. /\ R.hour = IF mode.h24 THEN Stored(d.hour, mode)
                  ELSE Stored(Hour12(d.hour), mode) + (IF d.hour >= 12 THEN 128 ELSE 0)
      /\ R.day = Stored(d.day, mode) /\ R.month = Stored(d.month, mode)
      /\ R.year = Stored(d.year % 100, mode)
      /\ R.century = IF mode.century THEN Stored(d.year \div 100, mode) ELSE 0
  BY DEF Registers
<1>4. /\ C.day = d.day /\ C.month = d.month /\ C.year = d.year % 100
      /\ C.century = IF mode.century THEN d.year \div 100 ELSE 0
      /\ C.hour = IF mode.h24 THEN d.hour
                  ELSE Hour12(d.hour) + (IF d.hour >= 12 THEN 128 ELSE 0)
  <2>1. CASE mode.binary
    <3>1. C = R
      BY <2>1 DEF Converted
    <3>2. \A v : Stored(v, mode) = v
      BY <2>1 DEF Stored
    <3> QED  BY <1>3, <3>1, <3>2
  <2>2. CASE ~mode.binary
    <3>1. /\ C.hour = HourDigits(R.hour) /\ C.day = Binary(R.day) /\ C.month = Binary(R.month)
          /\ C.year = Binary(R.year) /\ C.century = Binary(R.century)
      BY <2>2 DEF Converted
    <3>2. /\ \A v \in 0..99 : Binary(Stored(v, mode)) = v
          /\ \A v \in 0..23 : /\ HourDigits(Stored(v, mode)) = v
                              /\ HourDigits(Stored(v, mode) + 128) = v + 128
      BY <2>2, StoredBack
    <3>3. C.day = d.day /\ C.month = d.month /\ C.year = d.year % 100
      BY <1>2, <1>3, <3>1, <3>2
    <3>4. C.century = IF mode.century THEN d.year \div 100 ELSE 0
      <4>1. Binary(0) = 0
        BY DEF Binary
      <4> QED  BY <1>2, <1>3, <3>1, <3>2, <4>1
    <3>5. C.hour = IF mode.h24 THEN d.hour
                   ELSE Hour12(d.hour) + (IF d.hour >= 12 THEN 128 ELSE 0)
      <4>1. CASE mode.h24
        BY <1>2, <1>3, <3>1, <3>2, <4>1
      <4>2. CASE ~mode.h24 /\ d.hour >= 12
        BY <1>2, <1>3, <3>1, <3>2, <4>2
      <4>3. CASE ~mode.h24 /\ d.hour < 12
        <5>1. Stored(Hour12(d.hour), mode) \in 0..127
          BY <1>2, StoredByte
        <5>2. R.hour = Stored(Hour12(d.hour), mode)
          BY <1>2, <1>3, <4>3, <5>1
        <5> QED  BY <1>2, <3>1, <3>2, <4>3, <5>2
      <4> QED  BY <1>2, <4>1, <4>2, <4>3
    <3> QED  BY <3>3, <3>4, <3>5
  <2> QED  BY <2>1, <2>2
<1>5. t = [year |-> FullYear(C), month |-> C.month, day |-> C.day, hour |-> HourOfDay(C.hour, mode)]
  BY DEF DateOf
<1> HIDE DEF C
<1>6. FullYear(C) = d.year
  <2>1. mode.century \/ d.year \div 100 = 20
    BY <1>1, <1>2
  <2> QED  BY <1>2, <1>4, <2>1 DEF FullYear, CURRENT_CENTURY
<1>7. ~TwelveOClock(d) => HourOfDay(C.hour, mode) = d.hour
  BY <1>2, <1>4 DEF TwelveOClock, HourOfDay, Hour12
<1>8. d = [year |-> d.year, month |-> d.month, day |-> d.day, hour |-> d.hour]
  BY <1>1, DateNumbers DEF DateRecord
<1> HIDE DEF t
<1>9. CASE TwelveOClock(d)
  <2>1. [t EXCEPT !.hour = d.hour]
        = [year |-> d.year, month |-> d.month, day |-> d.day, hour |-> d.hour]
    BY <1>4, <1>5, <1>6
  <2> QED  BY <1>8, <1>9, <2>1 DEF t
<1>10. CASE ~TwelveOClock(d)
  BY <1>4, <1>5, <1>6, <1>7, <1>8, <1>10 DEF t
<1> QED  BY <1>9, <1>10

-----------------------------------------------------------------------------
(* The reads of a pass.                                                    *)

\* What time() reads, in which order.
LEMMA ReadsFields ==
    /\ Reads \in Seq(Fields)
    /\ Len(Reads) = IF mode.century THEN 5 ELSE 4
    /\ Len(Reads) > 1 /\ (~mode.century => \A i \in 1..Len(Reads) : Reads[i] # "century")
    /\ Fields = {Reads[i] : i \in 1..Len(Reads)} \cup (IF mode.century THEN {} ELSE {"century"})
<1>1. CASE mode.century
  <2> DEFINE s == <<"hour", "day", "month", "year">>
             t == <<"century">>
  <2>1. s \in Seq(Fields) /\ t \in Seq(Fields) /\ Len(s) = 4 /\ Len(t) = 1
    BY DEF Fields
  <2>2. Reads = s \o t
    BY <1>1 DEF Reads
  <2>3. s[1] = "hour" /\ s[2] = "day" /\ s[3] = "month" /\ s[4] = "year" /\ t[1] = "century"
    OBVIOUS
  <2> HIDE DEF s, t
  <2>4. Reads \in Seq(Fields) /\ Len(Reads) = 5 /\ 1..Len(Reads) = {1, 2, 3, 4, 5}
    <3>1. s \o t \in Seq(Fields) /\ Len(s \o t) = Len(s) + Len(t)
      BY ONLY <2>1, ConcatProperties
    <3>2. Reads \in Seq(Fields) /\ Len(Reads) = 5
      BY ONLY <2>1, <2>2, <3>1
    <3> HIDE DEF Reads
    <3> QED  BY <3>2
  <2>5. \A i \in 1..5 : Reads[i] = IF i <= 4 THEN s[i] ELSE t[i - 4]
    <3>1. \A i \in 1..(Len(s) + Len(t)) : (s \o t)[i] = IF i <= Len(s) THEN s[i] ELSE t[i - Len(s)]
      BY ONLY <2>1, ConcatProperties
    <3> DEFINE u == s \o t
    <3>2. \A i \in 1..(4 + 1) : u[i] = IF i <= 4 THEN s[i] ELSE t[i - 4]
      BY ONLY <2>1, <3>1
    <3>3. Reads = u
      BY ONLY <2>2
    <3> HIDE DEF u
    <3> QED  BY ONLY <3>2, <3>3
  <2>6. /\ Reads[1] = "hour" /\ Reads[2] = "day" /\ Reads[3] = "month" /\ Reads[4] = "year"
        /\ Reads[5] = "century"
    BY <2>3, <2>5
  <2> QED  BY <1>1, <2>4, <2>6 DEF Fields
<1>2. CASE ~mode.century
  <2>1. Reads = <<"hour", "day", "month", "year">>
    BY <1>2 DEF Reads
  <2>2. Len(Reads) = 4 /\ 1..Len(Reads) = {1, 2, 3, 4}
    BY <2>1
  <2> QED  BY <1>2, <2>1, <2>2 DEF Fields
<1> QED  BY <1>1, <1>2

\* The values of a pass are not mistaken for those of no pass.
LEMMA ValuesNotNone ==
    ASSUME NEW f \in Values
    PROVE  f # None
<1>1. DOMAIN f = Fields /\ "hour" \in Fields
  BY DEF Values, Fields
<1>2. DOMAIN None = {"pass"}
  BY DEF None
<1> QED  BY <1>1, <1>2

\* Two dates of a call with the same hours register are one.
LEMMA HoursTellDates ==
    ASSUME mode \in Modes, Dated, NEW v \in 1..Now, NEW w \in 1..Now, v <= w,
           RegistersAt(v).hour = RegistersAt(w).hour
    PROVE  v = w
<1>1. recent[v] \in Dates /\ recent[w] \in Dates
  BY DEF Dated, Now, ClockDates
<1>2. recent[v].hour = recent[w].hour /\ recent[v].hour \in 0..23
  BY <1>1, SameHour, DateNumbers DEF RegistersAt
<1>3. Later(recent[v], recent[w], w - v)
  BY DEF Dated
<1>4. Now \in 0..23
  BY DEF Dated
<1> QED  BY <1>2, <1>3, <1>4 DEF Later

\* Midnight comes once during a call: not between a date and a second and that and a third.
LEMMA OneMidnight ==
    ASSUME Dated, NEW u \in 1..Now, NEW v \in 1..Now, NEW w \in 1..Now, u <= v, v <= w
    PROVE  SameDay(recent[u], recent[v]) \/ SameDay(recent[v], recent[w])
<1>1. recent[u].hour \in 0..23 /\ recent[v].hour \in 0..23 /\ recent[w].hour \in 0..23
  BY DateNumbers DEF Dated, Now, ClockDates
<1>2. Later(recent[u], recent[v], v - u) /\ Later(recent[v], recent[w], w - v)
  BY DEF Dated
<1>3. Now \in 0..23
  BY DEF Dated
<1> QED  BY <1>1, <1>2, <1>3 DEF Later

\* Two passes that agree, and of which the second began when the first was over, have read one date.
LEMMA AgreedDate ==
    ASSUME mode \in Modes, Dated, NEW values \in Values, NEW b \in 1..Now,
           ReadBetween(values, Fields, 1, b), ReadBetween(values, Fields, b, Now)
    PROVE  values = RegistersAt(b)
<1>1. Now \in 0..23 /\ b \in Nat
  BY DEF Dated
<1>2. \A r \in Fields : \E i \in 1..b : values[r] = RegistersAt(i)[r]
  BY DEF ReadBetween
<1>3. \A r \in Fields : \E i \in b..Now : values[r] = RegistersAt(i)[r]
  BY DEF ReadBetween
<1>4. values["hour"] = RegistersAt(b)["hour"]
  <2>1. "hour" \in Fields
    BY DEF Fields
  <2>2. PICK v \in 1..b : values["hour"] = RegistersAt(v)["hour"]
    BY <1>2, <2>1
  <2>3. PICK w \in b..Now : values["hour"] = RegistersAt(w)["hour"]
    BY <1>3, <2>1
  <2>4. v \in 1..Now /\ w \in 1..Now /\ v <= b /\ b <= w /\ v <= w
    BY <1>1
  <2>5. v = w
    <3>1. RegistersAt(v).hour = RegistersAt(w).hour
      BY <2>2, <2>3
    <3> QED  BY ONLY mode \in Modes, Dated, <2>4, <3>1, HoursTellDates
  <2> QED  BY <1>1, <2>2, <2>4, <2>5
<1>5. ASSUME NEW r \in Fields
      PROVE  values[r] = RegistersAt(b)[r]
  <2>1. CASE r = "hour"
    BY <1>4, <2>1
  <2>2. CASE r # "hour"
    <3>1. PICK i \in 1..b : values[r] = RegistersAt(i)[r]
      BY <1>2
    <3>2. PICK j \in b..Now : values[r] = RegistersAt(j)[r]
      BY <1>3
    <3>3. SameDay(recent[i], recent[b]) \/ SameDay(recent[b], recent[j])
      <4>1. i \in 1..Now /\ j \in 1..Now /\ i <= b /\ b <= j
        BY <1>1
      <4> QED  BY <4>1, OneMidnight
    <3>4. CASE SameDay(recent[i], recent[b])
      <4>1. RegistersAt(i)[r] = RegistersAt(b)[r]
        BY <2>2, <3>4, SameDaySameRegisters DEF RegistersAt
      <4> QED  BY <3>1, <4>1
    <3>5. CASE SameDay(recent[b], recent[j])
      <4>1. RegistersAt(b)[r] = RegistersAt(j)[r]
        BY <2>2, <3>5, SameDaySameRegisters DEF RegistersAt
      <4> QED  BY <3>2, <4>1
    <3> QED  BY <3>3, <3>4, <3>5
  <2> QED  BY <2>1, <2>2
<1>6. RegistersAt(b) \in Values
  <2>1. recent[b] \in Dates
    BY DEF Dated, Now, ClockDates
  <2> QED  BY <2>1, RegistersTyped DEF RegistersAt
<1> QED  BY <1>5, <1>6 DEF Values

-----------------------------------------------------------------------------
(* The invariant.                                                          *)

\* It holds when the clock is switched on.
THEOREM InvInit ==
    ASSUME RtcAssumption, Init
    PROVE  Inv
<1>1. mode \in Modes /\ date \in ClockDates /\ date.year <= 2035
  <2>1. date \in Dates /\ date.year <= 2035
    BY DEF Init, RtcAssumption
  <2>2. mode.century \/ date.year \div 100 = 20
    BY DEF Init, CURRENT_CENTURY
  <2>3. mode.century \/ date.year >= 2000
    <3>1. date.year \in Int
      BY <2>1, DateNumbers
    <3> QED  BY <2>2, <3>1
  <2> QED  BY <2>1, <2>3 DEF Init, ClockDates
<1>2. regs = Registers(date, mode) /\ rtc = regs /\ regs \in Values
      /\ (~mode.century => rtc.century = 0)
  BY <1>1, RegistersTyped DEF Init, ClockDates
<1>3. Index(date) \in Int /\ Index(date) <= LastStart + hours
  <2>1. date \in Dates
    BY <1>1 DEF ClockDates
  <2>2. Index(date) \in Int /\ Index(date) <= LastStart
    BY <1>1, <2>1, NextHourIndex
  <2>3. LastStart + hours = LastStart
    BY LastStartInt DEF Init
  <2> QED  BY <2>2, <2>3
<1>4. ClockTyped
  <2>1. hours \in 0..Horizon
    BY DEF Init, RtcAssumption
  <2>2. k \in 1..Len(Reads) /\ k = 1
    BY ReadsFields DEF Init
  <2>3. /\ regs \in Values /\ rtc \in Values /\ last = None
        /\ stale = {} /\ stale \subseteq Fields /\ flag \in BOOLEAN /\ pc = "idle"
    <3>1. last = None /\ stale = {} /\ flag = FALSE /\ pc = "idle"
      BY DEF Init
    <3> QED  BY ONLY <1>2, <3>1
  <2> QED  BY <1>1, <1>2, <1>3, <2>1, <2>2, <2>3 DEF ClockTyped
<1>5. Dated
  BY DEF Dated, Now, Init
<1> QED  BY <1>2, <1>4, <1>5 DEF Inv, Fresh, Old, Passes, Init

\* A call that begins: the only date that it has seen is the clock's.
LEMMA BeginTimeStep ==
    ASSUME Inv, BeginTime, UNCHANGED clock
    PROVE  Inv'
<1> USE DEF clock, Inv
<1>1. ClockTyped'
  <2>1. rtc' \in Values /\ rtc'.century = 0
    <3>1. "century" \in Fields
      BY DEF Fields
    <3>2. rtc \in [Fields -> 0..255] /\ rtc' = [rtc EXCEPT !["century"] = 0]
      BY DEF BeginTime, ClockTyped, Values
    <3>3. 0 \in 0..255
      OBVIOUS
    <3> QED  BY ONLY <3>1, <3>2, <3>3 DEF Values
  <2>2. Reads' = Reads
    BY DEF Reads
  <2> QED  BY <2>1, <2>2, ReadsFields DEF ClockTyped, BeginTime, ClockDates
<1>2. Dated'
  <2>1. recent' = <<date>> /\ recent' \in Seq(ClockDates)' /\ Len(recent') = 1 /\ recent'[1] = date'
    BY DEF BeginTime, ClockTyped, ClockDates
  <2>2. Later(date, date, 0)
    BY LaterSelf DEF ClockTyped, ClockDates
  <2> QED  BY <2>1, <2>2 DEF Dated, Now, BeginTime
<1>3. Fresh'
  BY DEF Fresh
<1>4. Old'
  BY DEF Old, Now, BeginTime
<1>5. Passes'
  BY DEF Passes, BeginTime
<1> QED  BY <1>1, <1>2, <1>3, <1>4, <1>5

\* A call that ends.
LEMMA EndTimeStep ==
    ASSUME Inv, pc' = "idle", recent' = <<>>, UNCHANGED <<clock, k, rtc, last>>, pc = "compare"
    PROVE  Inv'
<1> USE DEF clock, Inv
<1>1. ClockTyped'
  <2>1. Reads' = Reads
    BY DEF Reads
  <2> QED  BY <2>1 DEF ClockTyped, ClockDates
<1>2. Dated'
  BY DEF Dated, Now
<1> QED  BY <1>1, <1>2 DEF Fresh, Old, Passes

\* What has been read stays read at dates of the call when a date is added.
LEMMA ReadStays ==
    ASSUME mode' = mode, Now \in Nat, Now' = Now + 1, \A i \in 1..Now : recent'[i] = recent[i],
           NEW values, NEW fields, NEW first \in 1..Now, NEW end \in 1..Now,
           ReadBetween(values, fields, first, end)
    PROVE  \A r \in fields : \E i \in first..end : values[r] = Registers(recent'[i], mode')[r]
<1>1. SUFFICES ASSUME NEW r \in fields
               PROVE  \E i \in first..end : values[r] = Registers(recent'[i], mode')[r]
  OBVIOUS
<1>2. PICK i \in first..end : values[r] = Registers(recent[i], mode)[r]
  BY DEF ReadBetween, RegistersAt
<1>3. recent'[i] = recent[i]
  OBVIOUS
<1> QED  BY <1>2, <1>3

\* The clock begins with an update: during a call that is one date more.
LEMMA StartUpdateStep ==
    ASSUME RtcAssumption, Inv, StartUpdate
    PROVE  Inv'
<1>1. date \in Dates /\ (mode.century \/ date.year >= 2000) /\ hours \in 0..Horizon /\ hours < Horizon
  BY DEF Inv, ClockTyped, ClockDates, StartUpdate
<1>2. /\ Index(date') \in Int
      /\ Index(date') <= LastStart + hours'
      /\ date'.year <= 2037
  <2>1. /\ Index(date) \in Int /\ Index(date') \in Int /\ Index(date') <= Index(date) + 1
        /\ Index(date') <= LastStart + 8064 => date'.year <= 2037
    BY <1>1, NextHourIndex DEF StartUpdate
  <2>2. Index(date) <= LastStart + hours /\ hours' = hours + 1
    BY DEF Inv, ClockTyped, StartUpdate
  <2>3. hours \in Int /\ hours + 1 <= 8064
    <3>1. Horizon \in 0..8064
      BY DEF RtcAssumption
    <3> QED  BY ONLY <1>1, <3>1
  <2> QED  BY <2>1, <2>2, <2>3, LastStartInt
<1>5. /\ date' \in ClockDates
      /\ \/ date.hour < 23 /\ date'.hour = date.hour + 1 /\ SameDay(date, date')
         \/ date.hour = 23 /\ date'.hour = 0
  <2>1. /\ date' \in Dates /\ date.year <= date'.year
        /\ \/ date.hour < 23 /\ date'.hour = date.hour + 1 /\ SameDay(date, date')
           \/ date.hour = 23 /\ date'.hour = 0
    BY <1>1, <1>2, NextHourLater DEF StartUpdate
  <2> QED  BY <1>1, <2>1, DateNumbers DEF ClockDates
<1>6. ClockTyped'
  <2>1. Reads' = Reads
    BY DEF Reads, StartUpdate
  <2>2. DOMAIN regs = Fields
    BY DEF Inv, ClockTyped, Values
  <2> QED  BY <1>1, <1>2, <1>5, <2>1, <2>2 DEF Inv, ClockTyped, ClockDates, StartUpdate, call, RtcAssumption
<1>7. regs = Registers(date, mode)
  <2>1. stale = {}
    BY DEF Inv, StartUpdate, ClockTyped
  <2>2. Registers(date, mode) \in Values /\ regs \in Values
    BY <1>1, RegistersTyped DEF Inv, ClockTyped
  <2> QED  BY <2>1, <2>2 DEF Inv, Fresh, Values
<1>8. Fresh'
  <2>1. DOMAIN regs = Fields
    BY DEF Inv, ClockTyped, Values
  <2> QED  BY <2>1 DEF Fresh, StartUpdate
<1>9. CASE pc = "idle"
  <2>1. recent' = recent /\ pc' = "idle" /\ mode' = mode
    BY <1>9 DEF StartUpdate, call
  <2>2. Dated'
    BY <1>9, <2>1 DEF Inv, Dated, Now, ClockDates
  <2> QED  BY <1>6, <1>8, <2>1, <2>2 DEF Inv, Old, Passes
<1>10. CASE pc # "idle"
  <2>1. pc' = pc /\ mode' = mode /\ last' = last /\ rtc' = rtc /\ k' = k /\ regs' = regs /\ flag'
    BY <1>10 DEF StartUpdate, call
  <2>2. recent \in Seq(ClockDates) /\ Now \in 1..22 /\ recent[Now] = date
    <3>1. Now \in 0..23 /\ Now <= 22 /\ Now # 0
      BY <1>10 DEF Inv, Dated, Now, StartUpdate, RtcAssumption
    <3> QED  BY <3>1 DEF Inv, Dated
  <2>3. /\ Now' = Now + 1 /\ recent'[Now + 1] = date'
        /\ \A i \in 1..Now : recent'[i] = recent[i]
    <3>1. recent' = Append(recent, date')
      BY <1>10 DEF StartUpdate
    <3> QED  BY <1>5, <2>2, <3>1, AppendProperties DEF Now
  <2>4. Dated'
    <3>1. ASSUME NEW i \in 1..(Now + 1), NEW j \in 1..(Now + 1), i <= j
          PROVE  Later(recent'[i], recent'[j], j - i)
      <4>1. CASE j <= Now
        BY <2>2, <2>3, <3>1, <4>1 DEF Inv, Dated
      <4>2. CASE i = Now + 1 /\ j = Now + 1
        <5>1. j - i = 0 /\ recent'[i] = date' /\ recent'[j] = date'
          BY <2>2, <2>3, <4>2
        <5> QED  BY <1>5, <5>1, LaterSelf DEF ClockDates
      <4>3. CASE i <= Now /\ j = Now + 1
        <5>1. Later(recent[i], date, Now - i) /\ Now - i \in 0..22
          BY <2>2, <4>3 DEF Inv, Dated
        <5>2. recent[i] \in Dates
          BY <2>2, <4>3 DEF Now, ClockDates
        <5>3. Later(recent[i], date', Now - i + 1)
          BY ONLY <1>1, <1>5, <5>1, <5>2, LaterNext
        <5>4. Now - i + 1 = j - i
          BY <2>2, <4>3
        <5>5. recent'[i] = recent[i] /\ recent'[j] = date'
          BY <2>3, <4>3
        <5> QED  BY <5>3, <5>4, <5>5
      <4> QED  BY <2>2, <4>1, <4>2, <4>3
    <3>2. recent' \in Seq(ClockDates')
      <4>1. ClockDates' = ClockDates
        BY <2>1 DEF ClockDates
      <4> QED  BY <1>5, <1>10, <2>2, <4>1, AppendProperties DEF StartUpdate
    <3>3. Now' \in 0..23 /\ Now' # 0 /\ pc' # "idle" /\ recent'[Now'] = date'
      BY <1>10, <2>1, <2>2, <2>3
    <3>4. \A i, j \in 1..Now' : i <= j => Later(recent'[i], recent'[j], j - i)
      BY <2>3, <3>1
    <3> QED  BY <3>2, <3>3, <3>4 DEF Inv, Dated
  <2>5. Old'
    <3>1. Now' > 1 /\ Now' - 1 = Now /\ recent'[Now] = date
      BY <2>2, <2>3
    <3>2. recent'[Now' - 1] = date
      BY <3>1
    <3>3. Registers(recent'[Now' - 1], mode') = regs /\ regs' = regs
      BY <1>7, <2>1, <3>2
    <3> QED  BY <3>1, <3>3 DEF Old, RegistersAt
  <2>6. Passes'
    <3>1. CASE pc = "wait" /\ last # None
      <4>1. ReadBetween(last, Fields, 1, Now)
        BY <3>1 DEF Inv, Passes
      <4>2. \A r \in Fields : \E i \in 1..Now : last[r] = Registers(recent'[i], mode')[r]
        <5>1. Now \in Nat /\ Now \in 1..Now /\ 1 \in 1..Now
          BY <2>2
        <5> QED  BY ONLY <2>1, <2>3, <4>1, <5>1, ReadStays
      <4>3. ReadBetween(last, Fields, 1, Now)'
        <5>1. SUFFICES ASSUME NEW r \in Fields
                       PROVE  \E i \in 1..Now' : last[r] = Registers(recent'[i], mode')[r]
          BY <2>1 DEF ReadBetween, RegistersAt
        <5>2. PICK i \in 1..Now : last[r] = Registers(recent'[i], mode')[r]
          BY <4>2
        <5>3. i \in 1..Now'
          BY <2>2, <2>3
        <5> QED  BY <5>2, <5>3
      <4> QED  BY <2>1, <3>1, <4>3 DEF Inv, Passes
    <3>2. CASE pc \in {"read", "compare"}
      <4>1. PICK first \in 1..Now : Pass(first)
        BY <3>2 DEF Inv, Passes
      <4>2. first \in Int /\ first \in 1..Now /\ Now \in Nat /\ Now \in 1..Now /\ 1 \in 1..Now
        BY <2>2
      <4>3. ReadBetween(rtc, Got, first, Now) /\ (last # None => ReadBetween(last, Fields, 1, first))
        BY <4>1 DEF Pass
      <4>4. \A r \in Got : \E i \in first..Now : rtc[r] = Registers(recent'[i], mode')[r]
        BY ONLY <2>1, <2>3, <4>2, <4>3, ReadStays
      <4>5. last # None => \A r \in Fields : \E i \in 1..first : last[r] = Registers(recent'[i], mode')[r]
        BY ONLY <2>1, <2>3, <4>2, <4>3, ReadStays
      <4>6. Got' = Got
        BY <2>1 DEF Got, Reads
      <4>7. ReadBetween(rtc, Got, first, Now)'
        <5>1. SUFFICES ASSUME NEW r \in Got
                       PROVE  \E i \in first..Now' : rtc[r] = Registers(recent'[i], mode')[r]
          BY <2>1, <4>6 DEF ReadBetween, RegistersAt
        <5>2. PICK i \in first..Now : rtc[r] = Registers(recent'[i], mode')[r]
          BY <4>4
        <5>3. i \in first..Now'
          BY <2>2, <2>3
        <5> QED  BY <5>2, <5>3
      <4>8. (last # None => ReadBetween(last, Fields, 1, first))'
        BY <2>1, <4>5 DEF ReadBetween, RegistersAt
      <4>9. Pass(first)'
        BY <2>2, <2>3, <4>2, <4>7, <4>8 DEF Pass
      <4>10. first \in 1..Now'
        BY <2>2, <2>3
      <4> QED  BY <2>1, <3>2, <4>9, <4>10 DEF Inv, Passes
    <3> QED  BY <1>10, <2>1, <3>1, <3>2 DEF Inv, Passes, ClockTyped
  <2> QED  BY <1>6, <1>8, <2>4, <2>5, <2>6 DEF Inv
<1> QED  BY <1>9, <1>10

\* The update goes on and ends: fewer registers are of the date before.
LEMMA UpdateRegisterStep ==
    ASSUME Inv, NEW reg \in stale, UpdateRegister(reg)
    PROVE  Inv'
<1>1. /\ mode' = mode /\ date' = date /\ hours' = hours /\ flag' = flag /\ pc' = pc /\ k' = k
      /\ rtc' = rtc /\ last' = last /\ recent' = recent /\ stale' = stale \ {reg}
      /\ regs' = [regs EXCEPT ![reg] = Registers(date, mode)[reg]]
  BY DEF UpdateRegister, call
<1>2. reg \in Fields /\ stale \subseteq Fields /\ regs \in Values /\ Registers(date, mode) \in Values
  <2>1. reg \in Fields /\ stale \subseteq Fields /\ regs \in Values
    BY DEF Inv, ClockTyped
  <2>2. date \in Dates /\ mode \in Modes
    BY DEF Inv, ClockTyped, ClockDates
  <2> QED  BY <2>1, <2>2, RegistersTyped
<1>3. /\ regs' \in Values
      /\ \A r \in Fields : regs'[r] = IF r = reg THEN Registers(date, mode)[r] ELSE regs[r]
  BY <1>1, <1>2 DEF Values
<1>4. Reads' = Reads /\ Now' = Now /\ ClockDates' = ClockDates /\ Got' = Got
  BY <1>1 DEF Reads, Now, ClockDates, Got
<1>5. ClockTyped'
  BY <1>1, <1>2, <1>3, <1>4 DEF Inv, ClockTyped
<1>6. Dated'
  BY <1>1, <1>4 DEF Inv, Dated
<1>7. Fresh'
  BY <1>1, <1>2, <1>3 DEF Inv, Fresh
<1>8. Old'
  BY <1>1, <1>2, <1>3, <1>4 DEF Inv, Old, RegistersAt
<1>9. Passes'
  BY <1>1, <1>4 DEF Inv, Passes, Pass, ReadBetween, RegistersAt
<1> QED  BY <1>5, <1>6, <1>7, <1>8, <1>9 DEF Inv

\* At the end of an update every register is of the date.
LEMMA EndUpdateStep ==
    ASSUME Inv, EndUpdate
    PROVE  Inv'
<1>1. /\ mode' = mode /\ date' = date /\ hours' = hours /\ pc' = pc /\ k' = k /\ regs' = regs
      /\ rtc' = rtc /\ last' = last /\ recent' = recent /\ stale' = stale /\ stale = {} /\ flag' = FALSE
  BY DEF EndUpdate, call
<1>2. Reads' = Reads /\ Now' = Now /\ ClockDates' = ClockDates /\ Got' = Got
  BY <1>1 DEF Reads, Now, ClockDates, Got
<1>3. ClockTyped'
  BY <1>1, <1>2 DEF Inv, ClockTyped
<1>4. Dated'
  BY <1>1, <1>2 DEF Inv, Dated
<1>5. Fresh' /\ Old'
  BY <1>1 DEF Inv, Fresh, Old
<1>6. Passes'
  BY <1>1, <1>2 DEF Inv, Passes, Pass, ReadBetween, RegistersAt
<1> QED  BY <1>3, <1>4, <1>5, <1>6 DEF Inv

\* A pass begins, at the newest date of the call.
LEMMA SeeFlagDownStep ==
    ASSUME Inv, SeeFlagDown
    PROVE  Inv'
<1>1. /\ mode' = mode /\ date' = date /\ hours' = hours /\ flag' = flag /\ k' = k /\ regs' = regs
      /\ rtc' = rtc /\ last' = last /\ recent' = recent /\ stale' = stale
      /\ pc = "wait" /\ pc' = "read" /\ flag = FALSE
  BY DEF SeeFlagDown, clock, Inv, ClockTyped
<1>2. stale = {} /\ k = 1
  BY <1>1 DEF Inv, ClockTyped
<1>3. Reads' = Reads /\ Now' = Now /\ ClockDates' = ClockDates
  BY <1>1 DEF Reads, Now, ClockDates
<1>4. ClockTyped'
  BY <1>1, <1>3 DEF Inv, ClockTyped
<1>5. Dated'
  BY <1>1, <1>3 DEF Inv, Dated
<1>6. Fresh' /\ Old'
  BY <1>1, <1>2 DEF Inv, Fresh, Old
<1>7. Passes'
  <2>1. Now \in 1..Now
    BY <1>1 DEF Inv, Dated
  <2>2. Got' = {}
    BY <1>1, <1>2 DEF Got
  <2>3. last # None => ReadBetween(last, Fields, 1, Now)
    BY <1>1 DEF Inv, Passes
  <2>4. Pass(Now)'
    BY <1>1, <1>3, <2>2, <2>3 DEF Pass, ReadBetween, RegistersAt
  <2> QED  BY <1>1, <1>3, <2>1, <2>4 DEF Passes
<1> QED  BY <1>4, <1>5, <1>6, <1>7 DEF Inv

\* A read gets the register of the newest date or, within an update, of the one before, and of
\* none from before the pass.
LEMMA ReadIsOfPass ==
    ASSUME Inv, pc = "read", NEW first \in 1..Now, flag => first < Now, NEW r \in Fields
    PROVE  \E i \in first..Now : regs[r] = RegistersAt(i)[r]
<1>1. Now \in 1..23 /\ recent[Now] = date /\ first \in Int
  BY DEF Inv, Dated
<1>2. CASE r \notin stale
  <2>1. regs[r] = RegistersAt(Now)[r] /\ Now \in first..Now
    BY <1>1, <1>2 DEF Inv, Fresh, RegistersAt
  <2> QED  BY <2>1
<1>3. CASE r \in stale
  <2>1. first < Now /\ stale # {}
    BY <1>3 DEF Inv, ClockTyped
  <2>2. regs[r] = RegistersAt(Now - 1)[r]
    BY <1>3, <2>1 DEF Inv, Old
  <2>3. Now - 1 \in first..Now
    BY <1>1, <2>1
  <2> QED  BY <2>2, <2>3
<1> QED  BY <1>2, <1>3

\* A register is read.
LEMMA get_RTC_registerStep ==
    ASSUME Inv, get_RTC_register
    PROVE  Inv'
<1>1. /\ mode' = mode /\ date' = date /\ hours' = hours /\ flag' = flag /\ regs' = regs
      /\ last' = last /\ recent' = recent /\ stale' = stale
      /\ pc = "read" /\ rtc' = [rtc EXCEPT ![Reads[k]] = regs[Reads[k]]]
  BY DEF get_RTC_register, clock
<1>2. \/ k < Len(Reads) /\ k' = k + 1 /\ pc' = "read"
      \/ k = Len(Reads) /\ k' = 1 /\ pc' = "compare"
  BY <1>1 DEF get_RTC_register, Inv, ClockTyped
<1>3. Reads' = Reads /\ Now' = Now /\ ClockDates' = ClockDates
  BY <1>1 DEF Reads, Now, ClockDates
<1>4. k \in 1..Len(Reads) /\ Reads[k] \in Fields /\ (~mode.century => Reads[k] # "century")
  BY ReadsFields DEF Inv, ClockTyped
<1>5. /\ rtc' \in Values
      /\ \A r \in Fields : rtc'[r] = IF r = Reads[k] THEN regs[r] ELSE rtc[r]
  <2>1. rtc \in [Fields -> 0..255] /\ regs[Reads[k]] \in 0..255
    BY <1>4 DEF Inv, ClockTyped, Values
  <2> QED  BY ONLY <1>1, <1>4, <2>1 DEF Values
<1>6. ~mode.century => rtc'["century"] = 0
  <2>1. "century" \in Fields /\ (~mode.century => rtc["century"] = 0)
    BY DEF Fields, Inv, ClockTyped
  <2> QED  BY <1>4, <1>5, <2>1
<1>7. ClockTyped'
  <2>1. k' \in 1..Len(Reads) /\ (pc' # "read" => k' = 1) /\ pc' \in {"idle", "wait", "read", "compare"}
    <3>1. Len(Reads) \in Nat /\ k \in Int
      BY <1>4, ReadsFields
    <3> QED  BY ONLY <1>2, <1>4, <3>1
  <2> QED  BY <1>1, <1>3, <1>5, <1>6, <2>1 DEF Inv, ClockTyped
<1>8. Dated'
  BY <1>1, <1>2, <1>3 DEF Inv, Dated
<1>9. Fresh' /\ Old'
  BY <1>1, <1>2, <1>3 DEF Inv, Fresh, Old, RegistersAt
<1>10. Passes'
  <2>1. PICK first \in 1..Now : Pass(first)
    BY <1>1 DEF Inv, Passes
  <2>2. \A r \in Got : \E i \in first..Now : rtc[r] = RegistersAt(i)[r]
    BY <2>1 DEF Pass, ReadBetween
  <2>3. Got = {Reads[i] : i \in 1..(k - 1)}
    BY <1>1 DEF Got
  <2>4. \A r \in Got \cup {Reads[k]} : \E i \in first..Now : rtc'[r] = RegistersAt(i)[r]
    <3>1. \A r \in Fields : \E i \in first..Now : regs[r] = RegistersAt(i)[r]
      BY <1>1, <2>1, ReadIsOfPass DEF Pass
    <3>2. Got \subseteq Fields
      BY <1>4, <2>3, ReadsFields
    <3> QED  BY <1>4, <1>5, <2>2, <3>1, <3>2
  <2>5. \A r \in Got' : \E i \in first..Now : rtc'[r] = RegistersAt(i)[r]
    <3>1. CASE pc' = "read"
      <4>1. Got' = Got \cup {Reads[k]}
        <5>1. Got' = {Reads[i] : i \in 1..(k' - 1)}
          BY <1>3, <3>1 DEF Got
        <5>2. k' - 1 = k
          BY <1>2, <1>4, <3>1
        <5>3. \A i : i \in 1..k <=> i \in 1..(k - 1) \/ i = k
          BY <1>4
        <5> QED  BY <2>3, <5>1, <5>2, <5>3
      <4> QED  BY <2>4, <4>1
    <3>2. CASE pc' = "compare"
      <4>1. SUFFICES ASSUME NEW r \in Fields
                     PROVE  \E i \in first..Now : rtc'[r] = RegistersAt(i)[r]
        BY <3>2 DEF Got
      <4>2. CASE r \in {Reads[i] : i \in 1..Len(Reads)}
        <5>1. k = Len(Reads)
          BY <1>2, <3>2
        <5>2. \A i : i \in 1..k <=> i \in 1..(k - 1) \/ i = k
          BY <1>4
        <5>3. r \in Got \cup {Reads[k]}
          BY <2>3, <4>2, <5>1, <5>2
        <5> QED  BY <2>4, <5>3
      <4>3. CASE r = "century" /\ ~mode.century
        <5>1. recent[first] \in Dates /\ mode \in Modes /\ first \in first..Now
          BY DEF Inv, Dated, Now, ClockDates, ClockTyped
        <5>2. RegistersAt(first)["century"] = 0
          BY <4>3, <5>1, RegistersTyped DEF RegistersAt
        <5> QED  BY <1>6, <4>3, <5>1, <5>2
      <4> QED  BY <4>2, <4>3, ReadsFields
    <3> QED  BY <1>2, <3>1, <3>2
  <2>6. Pass(first)'
    BY <1>1, <1>3, <2>1, <2>5 DEF Pass, ReadBetween, RegistersAt
  <2> QED  BY <1>1, <1>2, <1>3, <2>6 DEF Passes
<1> QED  BY <1>7, <1>8, <1>9, <1>10 DEF Inv

\* The passes did not agree: this one is the last now.
LEMMA AgainStep ==
    ASSUME Inv, Again
    PROVE  Inv'
<1>1. /\ mode' = mode /\ date' = date /\ hours' = hours /\ flag' = flag /\ k' = k /\ regs' = regs
      /\ rtc' = rtc /\ last' = rtc /\ recent' = recent /\ stale' = stale
      /\ pc = "compare" /\ pc' = "wait"
  BY DEF Again, clock
<1>2. Reads' = Reads /\ Now' = Now /\ ClockDates' = ClockDates
  BY <1>1 DEF Reads, Now, ClockDates
<1>3. ClockTyped'
  BY <1>1, <1>2 DEF Inv, ClockTyped
<1>4. Dated'
  BY <1>1, <1>2 DEF Inv, Dated
<1>5. Fresh' /\ Old'
  BY <1>1, <1>2 DEF Inv, Fresh, Old, RegistersAt
<1>6. Passes'
  <2>1. PICK first \in 1..Now : Pass(first)
    BY <1>1 DEF Inv, Passes
  <2>2. \A r \in Fields : \E i \in first..Now : rtc[r] = RegistersAt(i)[r]
    BY <1>1, <2>1 DEF Pass, ReadBetween, Got
  <2>3. \A r \in Fields : \E i \in 1..Now : rtc[r] = RegistersAt(i)[r]
    <3>1. \A i \in first..Now : i \in 1..Now
      BY DEF Inv, Dated
    <3> QED  BY <2>2, <3>1
  <2> QED  BY <1>1, <1>2, <2>3 DEF Passes, ReadBetween, RegistersAt
<1> QED  BY <1>3, <1>4, <1>5, <1>6 DEF Inv

\* Every step keeps the invariant.
THEOREM InvNext ==
    ASSUME RtcAssumption, Inv, [Next]_vars
    PROVE  Inv'
<1>1. CASE Clock
  <2>1. CASE StartUpdate
    BY <2>1, StartUpdateStep
  <2>2. CASE EndUpdate
    BY <2>2, EndUpdateStep
  <2>3. ASSUME NEW r \in DOMAIN regs, UpdateRegister(r)
        PROVE  Inv'
    <3>1. r \in stale
      BY <2>3 DEF UpdateRegister
    <3> QED  BY <2>3, <3>1, UpdateRegisterStep
  <2> QED  BY <1>1, <2>1, <2>2, <2>3 DEF Clock
<1>2. CASE CallTime
  BY <1>2, BeginTimeStep DEF CallTime
<1>3. ASSUME NEW secs \in Naps, CallSleep(secs)
      PROVE  Inv'
  BY <1>3, BeginTimeStep DEF CallSleep
<1>4. CASE UNCHANGED vars
  <2>1. /\ mode' = mode /\ date' = date /\ hours' = hours /\ flag' = flag /\ pc' = pc /\ k' = k
        /\ regs' = regs /\ rtc' = rtc /\ last' = last /\ recent' = recent /\ stale' = stale
    BY <1>4 DEF vars, clock, call
  <2>2. Reads' = Reads /\ Now' = Now /\ ClockDates' = ClockDates /\ Got' = Got
    BY <2>1 DEF Reads, Now, ClockDates, Got
  <2>3. ClockTyped' /\ Dated'
    BY <2>1, <2>2 DEF Inv, ClockTyped, Dated
  <2>4. Fresh' /\ Old' /\ Passes'
    BY <2>1, <2>2 DEF Inv, Fresh, Old, Passes, Pass, ReadBetween, RegistersAt
  <2> QED  BY <2>3, <2>4 DEF Inv
<1>5. CASE Kernel
  <2>1. CASE PollFlag
    BY <1>4, <2>1 DEF PollFlag
  <2>2. CASE SeeFlagDown
    BY <2>2, SeeFlagDownStep
  <2>3. CASE get_RTC_register
    BY <2>3, get_RTC_registerStep
  <2>4. CASE Again
    BY <2>4, AgainStep
  <2>5. CASE TimeReturns
    BY <2>5, EndTimeStep DEF TimeReturns, Agree
  <2>6. CASE SleepGoesOn
    BY <2>6, BeginTimeStep DEF SleepGoesOn
  <2>7. CASE SleepEnds
    BY <2>7, EndTimeStep DEF SleepEnds, Agree
  <2> QED  BY <1>5, <2>1, <2>2, <2>3, <2>4, <2>5, <2>6, <2>7 DEF Kernel
<1> QED  BY <1>1, <1>2, <1>3, <1>4, <1>5 DEF Next

\* So it always holds.
THEOREM ClockInvariant == Spec => []Inv
<1>1. RtcAssumption
  BY RtcAssumption
<1>2. Init => Inv
  BY <1>1, InvInit
<1>3. Inv /\ [Next]_vars => Inv'
  BY <1>1, InvNext
<1> QED  BY <1>2, <1>3, PTL DEF Spec

-----------------------------------------------------------------------------
(* What follows.                                                           *)

\* The state has its types: no register that does not exist is read.
THEOREM TypeCorrect == Spec => []TypeOK
<1>1. Inv => TypeOK
  <2>1. SUFFICES ASSUME Inv
                 PROVE  TypeOK
    OBVIOUS
  <2>2. /\ DOMAIN regs = Fields /\ DOMAIN rtc = Fields
        /\ \A r \in Fields : regs[r] \in 0..255 /\ rtc[r] \in 0..255
    BY <2>1 DEF Inv, ClockTyped, Values
  <2>3. k \in DOMAIN Reads
    BY <2>1, ReadsFields DEF Inv, ClockTyped
  <2>4. /\ mode \in Modes /\ stale \subseteq Fields /\ (stale # {} => flag)
        /\ pc \in {"idle", "wait", "read", "compare"}
    BY <2>1 DEF Inv, ClockTyped
  <2> QED  BY <2>2, <2>3, <2>4 DEF TypeOK, Fields
<1> QED  BY <1>1, ClockInvariant, PTL

-----------------------------------------------------------------------------
(* Counting seconds.                                                       *)

\* The days before a year, in the calendar.
DaysBefore(y) == 365 * (y - 1) + (y - 1) \div 4 - (y - 1) \div 100 + (y - 1) \div 400 - 719162

\* utime's loop over the years is defined, year by year.
LEMMA YearsDefined ==
    /\ years_to_days[1970] = 0
    /\ \A y \in Nat : y >= 1970 =>
          years_to_days[y + 1] = years_to_days[y] + get_num_of_days_in_year(y)
<1> DEFINE Body(f) == [year \in Nat |-> IF year <= 1970 THEN 0
                                        ELSE f[year - 1] + get_num_of_days_in_year(year - 1)]
<1>1. \E f : f = Body(f)
  <2> DEFINE step == [p \in Nat \X Int |->
                        IF p[1] <= 1970 THEN 0 ELSE p[2] + get_num_of_days_in_year(p[1] - 1)]
  <2>1. step \in [Nat \X Int -> Int]
    BY DEF get_num_of_days_in_year
  <2>2. \A n \in Nat, v \in Int :
           step[<<n, v>>] = IF n <= 1970 THEN 0 ELSE v + get_num_of_days_in_year(n - 1)
    OBVIOUS
  <2> HIDE DEF step
  <2>3. PICK f : Recursion(f, Int, 0, step)
    BY ONLY 0 \in Int, <2>1, RecursiveFunction
  <2>4. ASSUME NEW n \in Nat
        PROVE  f[n] = IF n <= 1970 THEN 0 ELSE f[n - 1] + get_num_of_days_in_year(n - 1)
    <3>1. CASE n = 0
      BY <2>3, <3>1 DEF Recursion
    <3>2. CASE n # 0
      <4>1. n \in Nat \ {0} /\ n - 1 \in Nat /\ f[n - 1] \in Int
        BY <2>3, <3>2 DEF Recursion
      <4>2. f[n] = step[<<n, f[n - 1]>>]
        BY <2>3, <4>1 DEF Recursion
      <4> QED  BY ONLY <2>2, <4>1, <4>2
    <3> QED  BY <3>1, <3>2
  <2>5. f = [n \in Nat |-> f[n]]
    BY <2>3 DEF Recursion
  <2>6. f = Body(f)
    <3>1. [n \in Nat |-> f[n]] = Body(f)
      BY ONLY <2>4
    <3> QED  BY ONLY <2>5, <3>1
  <2> HIDE DEF Body
  <2> QED  BY <2>6
<1>2. years_to_days = Body(years_to_days)
  <2>1. years_to_days = CHOOSE f : f = Body(f)
    BY DEF years_to_days
  <2> HIDE DEF Body
  <2> QED  BY <1>1, <2>1
<1>3. \A n \in Nat : years_to_days[n] = IF n <= 1970 THEN 0
                            ELSE years_to_days[n - 1] + get_num_of_days_in_year(n - 1)
  BY <1>2
<1>4. ASSUME NEW y \in Nat, y >= 1970
      PROVE  years_to_days[y + 1] = years_to_days[y] + get_num_of_days_in_year(y)
  <2>1. y + 1 \in Nat /\ ~(y + 1 <= 1970) /\ (y + 1) - 1 = y
    BY <1>4
  <2> QED  BY <1>3, <2>1
<1> QED  BY <1>3, <1>4

\* It counts the days of the calendar, less the last of February 2000.
LEMMA YearsCounted ==
    ASSUME NEW y \in 1970..2037
    PROVE  years_to_days[y] = DaysBefore(y) - (IF y > 2000 THEN 1 ELSE 0)
<1> DEFINE Right(z) == years_to_days[z] = DaysBefore(z) - (IF z > 2000 THEN 1 ELSE 0)
           Counted == {n \in Nat : n <= 67 => Right(1970 + n)}
<1>1. 0 \in Counted
  <2>1. DaysBefore(1970) = 0
    BY DEF DaysBefore
  <2> QED  BY <2>1, YearsDefined
<1>2. ASSUME NEW n \in Counted
      PROVE  n + 1 \in Counted
  <2> SUFFICES ASSUME n + 1 <= 67
               PROVE  Right(1970 + (n + 1))
    OBVIOUS
  <2>1. n \in 0..66 /\ Right(1970 + n)
    OBVIOUS
  <2>2. PICK z \in 1970..2036 : z = 1970 + n
    BY <2>1
  <2>3. DaysBefore(z + 1) = DaysBefore(z)
            + (IF z = 2000 THEN 366 ELSE get_num_of_days_in_year(z))
    BY DEF DaysBefore, get_num_of_days_in_year
  <2>4. get_num_of_days_in_year(2000) = 365
    BY DEF get_num_of_days_in_year
  <2>5. years_to_days[z + 1] = years_to_days[z] + get_num_of_days_in_year(z)
    BY YearsDefined
  <2>6. DaysBefore(z) \in Int /\ get_num_of_days_in_year(z) \in Int
    BY DEF DaysBefore, get_num_of_days_in_year
  <2>7. Right(z)
    BY <2>1, <2>2
  <2>8. Right(z + 1)
    BY <2>3, <2>4, <2>5, <2>6, <2>7
  <2> HIDE DEF Right
  <2>9. 1970 + (n + 1) = z + 1
    BY <2>1, <2>2
  <2> QED  BY <2>8, <2>9
<1>3. Counted \in SUBSET Nat
  OBVIOUS
<1>4. Counted = Nat
  <2> HIDE DEF Counted
  <2> QED  BY <1>1, <1>2, <1>3, SetInduction
<1>5. y - 1970 \in Nat /\ y - 1970 <= 67 /\ 1970 + (y - 1970) = y
  OBVIOUS
<1> HIDE DEF Right
<1> QED
  <2>1. y - 1970 \in Counted
    <3> HIDE DEF Counted
    <3> QED  BY ONLY <1>4, <1>5
  <2>2. Right(y)
    <3>1. y - 1970 \in Nat /\ (y - 1970 <= 67 => Right(1970 + (y - 1970)))
      BY ONLY <2>1
    <3> QED  BY <1>5, <3>1
  <2> QED  BY <2>2 DEF Right

\* utime's loop over the months is defined, month by month.
LEMMA MonthsDefined ==
    ASSUME NEW y \in Nat
    PROVE  /\ months_to_days(1, y) = 0
           /\ \A m \in Nat \ {0} : months_to_days(m + 1, y)
                                     = months_to_days(m, y) + get_num_of_days_in_month(m, y)
<1> DEFINE Body(f) == [m \in Nat |-> IF m <= 1 THEN 0
                                     ELSE f[m - 1] + get_num_of_days_in_month(m - 1, y)]
<1>1. \E f : f = Body(f)
  <2> DEFINE step == [p \in Nat \X Int |->
                        IF p[1] <= 1 THEN 0 ELSE p[2] + get_num_of_days_in_month(p[1] - 1, y)]
  <2>1. step \in [Nat \X Int -> Int]
    BY DEF get_num_of_days_in_month
  <2>2. \A n \in Nat, v \in Int :
           step[<<n, v>>] = IF n <= 1 THEN 0 ELSE v + get_num_of_days_in_month(n - 1, y)
    OBVIOUS
  <2> HIDE DEF step
  <2>3. PICK f : Recursion(f, Int, 0, step)
    BY ONLY 0 \in Int, <2>1, RecursiveFunction
  <2>4. ASSUME NEW n \in Nat
        PROVE  f[n] = IF n <= 1 THEN 0 ELSE f[n - 1] + get_num_of_days_in_month(n - 1, y)
    <3>1. CASE n = 0
      BY <2>3, <3>1 DEF Recursion
    <3>2. CASE n # 0
      <4>1. n \in Nat \ {0} /\ n - 1 \in Nat /\ f[n - 1] \in Int
        BY <2>3, <3>2 DEF Recursion
      <4>2. f[n] = step[<<n, f[n - 1]>>]
        BY <2>3, <4>1 DEF Recursion
      <4> QED  BY ONLY <2>2, <4>1, <4>2
    <3> QED  BY <3>1, <3>2
  <2>5. f = [n \in Nat |-> f[n]]
    BY <2>3 DEF Recursion
  <2>6. f = Body(f)
    <3>1. [n \in Nat |-> f[n]] = Body(f)
      BY ONLY <2>4
    <3> QED  BY ONLY <2>5, <3>1
  <2> HIDE DEF Body
  <2> QED  BY <2>6
<1> DEFINE days == CHOOSE f : f = Body(f)
<1>2. days = Body(days)
  <2> HIDE DEF Body
  <2> QED  BY <1>1
<1>3. \A m : months_to_days(m, y) = days[m]
  BY DEF months_to_days
<1> HIDE DEF days
<1>4. \A n \in Nat : days[n] = IF n <= 1 THEN 0
                               ELSE days[n - 1] + get_num_of_days_in_month(n - 1, y)
  BY <1>2
<1>5. ASSUME NEW m \in Nat \ {0}
      PROVE  days[m + 1] = days[m] + get_num_of_days_in_month(m, y)
  <2>1. m + 1 \in Nat /\ ~(m + 1 <= 1) /\ (m + 1) - 1 = m
    OBVIOUS
  <2> QED  BY <1>4, <2>1
<1> QED  BY <1>3, <1>4, <1>5

\* A month begins where the month before it ends.
LEMMA MonthsCounted ==
    ASSUME NEW y \in Nat, NEW february, february = get_num_of_days_in_month(2, y)
    PROVE  /\ months_to_days(1, y) = 0 /\ months_to_days(2, y) = 31
           /\ \A m \in 3..12 :
                 months_to_days(m, y) = 31 + february + (153 * (m - 3) + 2) \div 5
<1> DEFINE M(m) == months_to_days(m, y)
           N(m) == get_num_of_days_in_month(m, y)
<1>1. /\ M(1) = 0
      /\ M(2) = M(1) + N(1) /\ M(3) = M(2) + N(2) /\ M(4) = M(3) + N(3) /\ M(5) = M(4) + N(4)
      /\ M(6) = M(5) + N(5) /\ M(7) = M(6) + N(6) /\ M(8) = M(7) + N(7) /\ M(9) = M(8) + N(8)
      /\ M(10) = M(9) + N(9) /\ M(11) = M(10) + N(10) /\ M(12) = M(11) + N(11)
  <2> HIDE DEF N
  <2>1. M(1) = 0 /\ \A m \in Nat \ {0} : M(m + 1) = M(m) + N(m)
    BY MonthsDefined DEF N
  <2> HIDE DEF M
  <2> QED  BY <2>1
<1>2. /\ N(1) = 31 /\ N(2) = february /\ N(3) = 31 /\ N(4) = 30 /\ N(5) = 31 /\ N(6) = 30
      /\ N(7) = 31 /\ N(8) = 31 /\ N(9) = 30 /\ N(10) = 31 /\ N(11) = 30
      /\ february \in 28..29
  BY DEF get_num_of_days_in_month
<1> HIDE DEF M, N
<1>3. \A m \in 3..12 : M(m) = 31 + february + (153 * (m - 3) + 2) \div 5
  <2> SUFFICES ASSUME NEW m \in 3..12
               PROVE  M(m) = 31 + february + (153 * (m - 3) + 2) \div 5
    OBVIOUS
  <2>1. m = 3 \/ m = 4 \/ m = 5 \/ m = 6 \/ m = 7 \/ m = 8 \/ m = 9 \/ m = 10 \/ m = 11 \/ m = 12
    OBVIOUS
  <2> QED  BY <1>1, <1>2, <2>1
<1> QED  BY <1>1, <1>2, <1>3 DEF M

\* The leap day of 2000 is not known to the code.
LostDays(d) == IF d.year > 2000 \/ (d.year = 2000 /\ d.month > 2) THEN 1 ELSE 0

\* The seconds of the calendar since 1970, less that day.
Seconds(d) == (DaysSince1970(d) - LostDays(d)) * 86400 + d.hour * 3600

\* That is what utime counts, until 2037.
LEMMA UtimeCounts ==
    ASSUME NEW d \in Dates
    PROVE  utime(d) = Seconds(d)
<1> DEFINE y == d.year
           m == d.month
           n == d.day
<1>1. y \in 1970..2037 /\ m \in 1..12 /\ n \in 1..31 /\ d.hour \in 0..23
  BY DateNumbers
<1>2. PICK february : february = get_num_of_days_in_month(2, y)
  OBVIOUS
<1>3. /\ february = IF y % 4 = 0 /\ y # 2000 THEN 29 ELSE 28
  BY <1>1, <1>2 DEF get_num_of_days_in_month, get_num_of_days_in_year
<1>4. years_to_days[y] = DaysBefore(y) - (IF y > 2000 THEN 1 ELSE 0)
  BY <1>1, YearsCounted
<1>5. /\ months_to_days(1, y) = 0 /\ months_to_days(2, y) = 31
      /\ \A l \in 3..12 : months_to_days(l, y) = 31 + february + (153 * (l - 3) + 2) \div 5
  <2>1. y \in Nat
    BY <1>1
  <2> QED  BY ONLY <1>2, <2>1, MonthsCounted
<1>6. years_to_days[y] + months_to_days(m, y) + n - 1 = DaysSince1970(d) - LostDays(d)
  <2>1. CASE m = 1
    <3>1. DaysSince1970(d) = DaysBefore(y) + n - 1
      <4>1. (m + 9) % 12 = 10 /\ m <= 2
        BY <2>1
      <4> QED  BY <1>1, <4>1 DEF DaysSince1970, DaysBefore
    <3>2. LostDays(d) = IF y > 2000 THEN 1 ELSE 0
      BY <1>1, <2>1 DEF LostDays
    <3>3. DaysBefore(y) \in Int
      BY <1>1 DEF DaysBefore
    <3> HIDE DEF y, m, n
    <3> QED  BY <1>1, <1>4, <1>5, <2>1, <3>1, <3>2, <3>3
  <2>2. CASE m = 2
    <3>1. DaysSince1970(d) = DaysBefore(y) + 31 + n - 1
      <4>1. (m + 9) % 12 = 11 /\ m <= 2
        BY <2>2
      <4> QED  BY <1>1, <4>1 DEF DaysSince1970, DaysBefore
    <3>2. LostDays(d) = IF y > 2000 THEN 1 ELSE 0
      BY <1>1, <2>2 DEF LostDays
    <3>3. DaysBefore(y) \in Int
      BY <1>1 DEF DaysBefore
    <3> HIDE DEF y, m, n
    <3> QED  BY <1>1, <1>4, <1>5, <2>2, <3>1, <3>2, <3>3
  <2>3. CASE m \in 3..12
    <3>1. DaysSince1970(d) = DaysBefore(y) + 59 + (IF y % 4 = 0 THEN 1 ELSE 0)
                                + (153 * (m - 3) + 2) \div 5 + n - 1
      <4>1. (m + 9) % 12 = m - 3 /\ ~(m <= 2)
        BY <2>3
      <4>2. DaysSince1970(d) = 365 * y + y \div 4 - y \div 100 + y \div 400
                                 + (153 * (m - 3) + 2) \div 5 + n - 719469
        BY <4>1 DEF DaysSince1970
      <4> HIDE DEF y, m, n
      <4>3. 365 * y + y \div 4 - y \div 100 + y \div 400 - 719469
              = DaysBefore(y) + 58 + (IF y % 4 = 0 THEN 1 ELSE 0)
        BY <1>1 DEF DaysBefore
      <4>4. DaysBefore(y) \in Int /\ (153 * (m - 3) + 2) \div 5 \in Int
        BY <1>1 DEF DaysBefore
      <4> QED  BY <1>1, <4>2, <4>3, <4>4
    <3>2. LostDays(d) = IF y >= 2000 THEN 1 ELSE 0
      BY <1>1, <2>3 DEF LostDays
    <3>3. DaysBefore(y) \in Int /\ (153 * (m - 3) + 2) \div 5 \in Int
      BY <1>1 DEF DaysBefore
    <3>4. months_to_days(m, y) = 31 + february + (153 * (m - 3) + 2) \div 5
      BY <1>5, <2>3
    <3> HIDE DEF y, m, n
    <3>5. 2000 % 4 = 0
      OBVIOUS
    <3> QED  BY <1>1, <1>3, <1>4, <3>1, <3>2, <3>3, <3>4, <3>5
  <2> QED  BY <1>1, <2>1, <2>2, <2>3
<1> QED  BY <1>6 DEF utime, Seconds

\* What two passes agree on are the registers of one date of the call, the one at which the
\* second of them began.
LEMMA AgreeOnDate ==
    ASSUME Inv, Agree
    PROVE  \E b \in 1..Now : rtc = RegistersAt(b)
<1>1. pc = "compare" /\ rtc = last /\ rtc \in Values /\ mode \in Modes /\ Dated
  BY DEF Agree, Inv, ClockTyped
<1>2. last # None
  BY <1>1, ValuesNotNone
<1>3. PICK b \in 1..Now : Pass(b)
  BY <1>1 DEF Inv, Passes
<1>4. ReadBetween(rtc, Fields, b, Now) /\ ReadBetween(rtc, Fields, 1, b)
  BY <1>1, <1>2, <1>3 DEF Pass, Got
<1>5. rtc = RegistersAt(b)
  BY ONLY <1>1, <1>4, AgreedDate
<1> QED  BY <1>5

\* No torn time: what time() returns was the date of the clock at some moment of the call,
\* however the updates fall between its reads, in every mode of the clock.
THEOREM NeverTorn == Spec => []TimeWasTrue
<1>1. Inv => TimeWasTrue
  <2>1. SUFFICES ASSUME Inv, Agree
                 PROVE  \E d \in Range(recent) :
                           IF TwelveOClock(d) THEN [Time EXCEPT !.hour = d.hour] = d ELSE Time = d
    BY DEF TimeWasTrue
  <2>2. PICK b \in 1..Now : rtc = RegistersAt(b)
    BY <2>1, AgreeOnDate
  <2>3. recent[b] \in ClockDates /\ mode \in Modes /\ recent[b] \in Range(recent)
    BY <2>1 DEF Inv, Dated, ClockTyped, Now, Range
  <2>4. Time = DateOf(Registers(recent[b], mode), mode)
    BY <2>2 DEF Time, RegistersAt
  <2> QED  BY <2>3, <2>4, DateBack
<1> QED  BY <1>1, ClockInvariant, PTL
-----------------------------------------------------------------------------
(* How long a sleep is.                                                    *)

\* The hour at which the clock had the n-th date of the call.
HourAt(n) == hours - (Now - n)

\* An hour is 3600 seconds of utime, or less when the day that it does not know ends.
Paced ==
    \A m, n \in 1..Now : m <= n =>
        Seconds(recent[n]) <= Seconds(recent[m]) + (n - m) * 3600

\* Every time() of a sleep begins after the sleep does.
Sleeping ==
    /\ slept \in Int /\ nap \in Nat
    /\ pc = "idle" => nap = 0
    /\ nap = 0 => until = NotKnown
    /\ nap # 0 => slept <= HourAt(1)

\* The end is as far from any date of the call as the sleep has still to last at that date.
EndFarEnough ==
    mode.h24 /\ until # NotKnown =>
        /\ until \in Int
        /\ \A n \in 1..Now : Seconds(recent[n]) + (slept + nap - HourAt(n)) * 3600 <= until

SInv == Paced /\ Sleeping /\ EndFarEnough

\* A day in years that begin in March.
MarchDay(y, m, n) ==
    365 * y + y \div 4 - y \div 100 + y \div 400 + (153 * m + 2) \div 5 + n - 719469

LEMMA MarchDayOf ==
    ASSUME NEW d, d.month \in 1..12, d.year \in Nat
    PROVE  DaysSince1970(d) = IF d.month <= 2 THEN MarchDay(d.year - 1, d.month + 9, d.day)
                              ELSE MarchDay(d.year, d.month - 3, d.day)
<1>1. CASE d.month <= 2
  <2>1. (d.month + 9) % 12 = d.month + 9
    BY <1>1
  <2> QED  BY ONLY <1>1, <2>1 DEF DaysSince1970, MarchDay
<1>2. CASE ~(d.month <= 2)
  <2>1. (d.month + 9) % 12 = d.month - 3
    BY <1>2
  <2> QED  BY ONLY <1>2, <2>1 DEF DaysSince1970, MarchDay
<1> QED  BY <1>1, <1>2

LEMMA MarchDayTyped ==
    ASSUME NEW y \in Int, NEW m \in Int, NEW n \in Int
    PROVE  MarchDay(y, m, n) \in Int /\ MarchDay(y, m, n + 1) = MarchDay(y, m, n) + 1
<1>1. /\ y \div 4 \in Int /\ y \div 100 \in Int /\ y \div 400 \in Int
      /\ (153 * m + 2) \div 5 \in Int
  OBVIOUS
<1> QED  BY <1>1 DEF MarchDay

\* The seconds of a date are a number.
LEMMA SecondsTyped ==
    ASSUME NEW d \in Dates
    PROVE  /\ Seconds(d) \in Int /\ DaysSince1970(d) \in Int /\ LostDays(d) \in Int
           /\ d.hour \in Int
<1>1. d.year \in 1970..2037 /\ d.month \in 1..12 /\ d.day \in 1..31 /\ d.hour \in 0..23
  BY DateNumbers
<1>2. DaysSince1970(d) \in Int
  <2>1. /\ d.year \in Int /\ d.year - 1 \in Int /\ d.day \in Int
        /\ d.month + 9 \in Int /\ d.month - 3 \in Int
    BY <1>1
  <2>2. MarchDay(d.year - 1, d.month + 9, d.day) \in Int
    BY ONLY <2>1, MarchDayTyped
  <2>3. MarchDay(d.year, d.month - 3, d.day) \in Int
    BY ONLY <2>1, MarchDayTyped
  <2> QED  BY <1>1, <2>2, <2>3, MarchDayOf
<1>3. LostDays(d) \in {0, 1}
  BY DEF LostDays
<1> DEFINE days == DaysSince1970(d)
           lost == LostDays(d)
           h == d.hour
<1>4. days \in Int /\ lost \in Int /\ h \in Int
  BY <1>1, <1>2, <1>3
<1> HIDE DEF days, lost, h
<1>5. (days - lost) * 86400 + h * 3600 \in Int
  BY <1>4
<1> QED  BY <1>4, <1>5 DEF Seconds, days, lost, h

\* The day after a day is the next one.
LEMMA NextDayCounted ==
    ASSUME NEW d \in Dates, NEW e, e = NextHour(d), d.hour = 23
    PROVE  DaysSince1970(e) = DaysSince1970(d) + 1 /\ LostDays(e) >= LostDays(d)
<1> DEFINE y == d.year
           m == d.month
           n == d.day
<1>1. y \in 1970..2037 /\ m \in 1..12 /\ n \in 1..31
  BY DateNumbers
<1>2. \/ n < DaysOf(m, y) /\ e.day = n + 1 /\ e.month = m /\ e.year = y
      \/ n = DaysOf(m, y) /\ m < 12 /\ e.day = 1 /\ e.month = m + 1 /\ e.year = y
      \/ n = DaysOf(m, y) /\ m = 12 /\ e.day = 1 /\ e.month = 1 /\ e.year = y + 1
  BY NextHourNumbers
<1>3. LostDays(e) >= LostDays(d)
  BY <1>1, <1>2 DEF LostDays
<1>4. DaysSince1970(d) = IF m <= 2 THEN MarchDay(y - 1, m + 9, n) ELSE MarchDay(y, m - 3, n)
  BY <1>1, MarchDayOf
<1>5. DaysSince1970(e) = IF e.month <= 2 THEN MarchDay(e.year - 1, e.month + 9, e.day)
                         ELSE MarchDay(e.year, e.month - 3, e.day)
  BY <1>1, <1>2, MarchDayOf
<1>6. CASE e.day = n + 1 /\ e.month = m /\ e.year = y
  <2>1. y \in Int /\ y - 1 \in Int /\ n \in Int /\ m + 9 \in Int /\ m - 3 \in Int
    BY <1>1
  <2>2. MarchDay(y - 1, m + 9, n + 1) = MarchDay(y - 1, m + 9, n) + 1
    BY ONLY <2>1, MarchDayTyped
  <2>3. MarchDay(y, m - 3, n + 1) = MarchDay(y, m - 3, n) + 1
    BY ONLY <2>1, MarchDayTyped
  <2> QED  BY ONLY <1>3, <1>4, <1>5, <1>6, <2>2, <2>3
<1>7. CASE n = DaysOf(m, y) /\ m < 12 /\ e.day = 1 /\ e.month = m + 1 /\ e.year = y
  <2>1. CASE m = 1
    <3>1. n = 31
      BY <1>7, <2>1 DEF DaysOf
    <3>2. DaysSince1970(d) = MarchDay(y - 1, 10, 31) /\ DaysSince1970(e) = MarchDay(y - 1, 11, 1)
      BY <1>4, <1>5, <1>7, <2>1, <3>1
    <3> QED  BY <1>1, <1>3, <3>2 DEF MarchDay
  <2>2. CASE m = 2
    <3>1. n = IF y % 4 = 0 THEN 29 ELSE 28
      BY <1>1, <1>7, <2>2 DEF DaysOf, IsLeap
    <3>2. DaysSince1970(d) = MarchDay(y - 1, 11, n) /\ DaysSince1970(e) = MarchDay(y, 0, 1)
      BY <1>4, <1>5, <1>7, <2>2
    <3> HIDE DEF y, m, n
    <3> QED  BY <1>1, <1>3, <3>1, <3>2 DEF MarchDay
  <2>3. CASE m \in 3..11
    <3>1. n = IF m \in {4, 6, 9, 11} THEN 30 ELSE 31
      BY <1>7, <2>3 DEF DaysOf
    <3>2. DaysSince1970(d) = MarchDay(y, m - 3, n) /\ DaysSince1970(e) = MarchDay(y, m - 2, 1)
      BY <1>4, <1>5, <1>7, <2>3
    <3> HIDE DEF y, m, n
    <3>3. (153 * (m - 2) + 2) \div 5 = (153 * (m - 3) + 2) \div 5 + n
      BY <2>3, <3>1
    <3>4. (153 * (m - 3) + 2) \div 5 \in Int
      BY <2>3
    <3> QED  BY <1>1, <1>3, <3>2, <3>3, <3>4 DEF MarchDay
  <2> QED  BY <1>1, <1>7, <2>1, <2>2, <2>3
<1>8. CASE n = DaysOf(m, y) /\ m = 12 /\ e.day = 1 /\ e.month = 1 /\ e.year = y + 1
  <2>1. n = 31
    BY <1>8 DEF DaysOf
  <2>2. DaysSince1970(d) = MarchDay(y, 9, 31) /\ DaysSince1970(e) = MarchDay(y, 10, 1)
    BY <1>1, <1>4, <1>5, <1>8, <2>1
  <2> QED  BY <1>1, <1>3, <2>2 DEF MarchDay
<1> QED  BY <1>2, <1>6, <1>7, <1>8

\* An hour is 3600 seconds or less.
LEMMA NextHourPaced ==
    ASSUME NEW d \in Dates, NEW e \in Dates, e = NextHour(d)
    PROVE  Seconds(e) <= Seconds(d) + 3600
<1>1. d.hour \in 0..23 /\ e.hour \in 0..23
  BY DateNumbers
<1>2. CASE d.hour < 23
  <2>1. e.hour = d.hour + 1 /\ SameDay(d, e)
    BY <1>2, NextHourNumbers
  <2>2. DaysSince1970(e) = DaysSince1970(d) /\ LostDays(e) = LostDays(d)
    BY <2>1 DEF SameDay, DaysSince1970, LostDays
  <2>3. DaysSince1970(d) \in Int /\ LostDays(d) \in Int
    BY SecondsTyped
  <2> QED  BY <1>1, <2>1, <2>2, <2>3 DEF Seconds
<1>3. CASE d.hour = 23
  <2>1. e.hour = 0
    BY <1>3, NextHourNumbers
  <2>2. DaysSince1970(e) = DaysSince1970(d) + 1 /\ LostDays(e) >= LostDays(d)
    BY <1>3, NextDayCounted
  <2>3. /\ DaysSince1970(d) \in Int /\ LostDays(d) \in Int
        /\ DaysSince1970(e) \in Int /\ LostDays(e) \in Int
    BY SecondsTyped
  <2> QED  BY <1>1, <1>3, <2>1, <2>2, <2>3 DEF Seconds
<1> QED  BY <1>1, <1>2, <1>3

\* What utime returns is told by a date of the call.
LEMMA UtimeOfDate ==
    ASSUME Inv, Agree
    PROVE  \E b \in 1..Now : TwelveOClock(recent[b]) \/ utime(Time) = Seconds(recent[b])
<1>1. PICK b \in 1..Now : rtc = RegistersAt(b)
  BY AgreeOnDate
<1>2. recent[b] \in ClockDates /\ recent[b] \in Dates /\ mode \in Modes
  BY DEF Inv, Dated, ClockTyped, Now, ClockDates
<1>3. Time = DateOf(Registers(recent[b], mode), mode)
  BY <1>1 DEF Time, RegistersAt
<1>4. TwelveOClock(recent[b]) \/ Time = recent[b]
  BY <1>2, <1>3, DateBack
<1> QED  BY <1>2, <1>4, UtimeCounts

\* Seconds are split into days and seconds of a day in one way.
LEMMA DaysAndSeconds ==
    ASSUME NEW n \in Int, NEW r \in Int, 0 <= r, r <= 86399, NEW x \in Int, x = n * 86400 + r
    PROVE  x \div 86400 = n /\ x % 86400 = r
<1>1. x \div 86400 = n
  OBVIOUS
<1>2. x % 86400 = r
  OBVIOUS
<1> QED  BY <1>1, <1>2

\* The hours of a day as seconds.
LEMMA SecondsOfDay ==
    ASSUME NEW h \in Int, 0 <= h, h <= 23, NEW r, r = h * 3600
    PROVE  r \in Int /\ 0 <= r /\ r <= 86399
  OBVIOUS

\* At noon and midnight of a twelve-hour clock the one comes out as the other.
LEMMA TwelveHour ==
    ASSUME NEW d \in ClockDates, mode \in Modes, TwelveOClock(d)
    PROVE  DateOf(Registers(d, mode), mode).hour \in {0, 12}
<1>1. ~mode.h24 /\ d.hour \in {0, 12} /\ Hour12(d.hour) = 12
  BY DEF TwelveOClock, Hour12
<1>2. Registers(d, mode).hour = Stored(12, mode) + (IF d.hour >= 12 THEN 128 ELSE 0)
  BY <1>1 DEF Registers
<1>3. CASE mode.binary
  <2>1. Registers(d, mode).hour \in {12, 140}
    BY <1>1, <1>2, <1>3 DEF Stored
  <2> QED  BY <1>1, <1>3, <2>1 DEF DateOf, Converted, HourOfDay
<1>4. CASE ~mode.binary
  <2>1. Registers(d, mode).hour \in {18, 146}
    BY <1>1, <1>2, <1>4 DEF Stored
  <2>2. HourDigits(Registers(d, mode).hour) \in {12, 140}
    BY <2>1 DEF HourDigits
  <2> QED  BY <1>1, <1>4, <2>2 DEF DateOf, Converted, HourOfDay
<1> QED  BY <1>3, <1>4

\* The date that time() returns is a date, of the day of one of the call.
LEMMA DayOfCall ==
    ASSUME Inv, Agree
    PROVE  \E b \in 1..Now :
              /\ recent[b] \in Dates /\ Time \in Dates
              /\ Time.year = recent[b].year /\ Time.month = recent[b].month
              /\ Time.day = recent[b].day
              /\ TwelveOClock(recent[b]) \/ Time.hour = recent[b].hour
<1>1. PICK b \in 1..Now : rtc = RegistersAt(b)
  BY AgreeOnDate
<1> DEFINE d == recent[b]
<1>2. d \in ClockDates /\ d \in Dates /\ mode \in Modes
  BY DEF Inv, Dated, ClockTyped, Now, ClockDates
<1>3. Time = DateOf(Registers(d, mode), mode)
  BY <1>1 DEF Time, RegistersAt
<1>4. IF TwelveOClock(d) THEN [Time EXCEPT !.hour = d.hour] = d ELSE Time = d
  BY <1>2, <1>3, DateBack
<1>5. CASE ~TwelveOClock(d)
  BY <1>2, <1>4, <1>5
<1>6. CASE TwelveOClock(d)
  <2>1. Time = [year |-> Time.year, month |-> Time.month, day |-> Time.day, hour |-> Time.hour]
    BY <1>3 DEF DateOf
  <2>2. /\ Time.year = d.year /\ Time.month = d.month /\ Time.day = d.day
    BY <1>4, <1>6, <2>1
  <2>3. Time.hour \in 0..23
    BY <1>2, <1>3, <1>6, TwelveHour
  <2>4. Time \in Dates
    BY <1>2, <2>1, <2>2, <2>3 DEF Dates
  <2> QED  BY <1>2, <1>6, <2>2, <2>4
<1> QED  BY <1>5, <1>6

\* An epoch is a date, and no day is lost between it and the dates that count from it.
LEMMA EpochCounted ==
    ASSUME NEW d \in Dates
    PROVE  Epoch(d) \in Dates /\ Epoch(d).hour = 0 /\ LostDays(Epoch(d)) = LostDays(d)
<1>1. d.year \in 1970..2037 /\ d.month \in 1..12
  BY DateNumbers
<1>2. \A e : e \in {[year |-> 2000, month |-> 3, day |-> 1, hour |-> 0],
                   [year |-> 1970, month |-> 1, day |-> 1, hour |-> 0]} => e \in Dates
  BY DEF Dates, DaysOf
<1> QED  BY <1>1, <1>2 DEF Epoch, LostDays

\* utime counts the days of the calendar from the epoch of a date of the call to it, and
\* the hours of its day.
THEOREM UtimeIsRight == Spec => []UtimeRight
<1>1. Inv => UtimeRight
  <2>1. SUFFICES ASSUME Inv, Agree
                 PROVE  \E d \in Range(recent) :
                    LET counted == utime(Time) - utime(Epoch(d))
                    IN  /\ counted \div 86400 = DaysSince1970(d) - DaysSince1970(Epoch(d))
                        /\ TwelveOClock(d) \/ counted % 86400 = d.hour * 3600
    BY DEF UtimeRight
  <2>2. PICK b \in 1..Now :
              /\ recent[b] \in Dates /\ Time \in Dates
              /\ Time.year = recent[b].year /\ Time.month = recent[b].month
              /\ Time.day = recent[b].day
              /\ TwelveOClock(recent[b]) \/ Time.hour = recent[b].hour
    BY <2>1, DayOfCall
  <2> DEFINE d == recent[b]
             e == Epoch(d)
             days == DaysSince1970(d)
             first == DaysSince1970(e)
             lost == LostDays(d)
             h == Time.hour
  <2>3. e \in Dates /\ e.hour = 0 /\ LostDays(e) = lost
    BY <2>2, EpochCounted
  <2>4. DaysSince1970(Time) = days /\ LostDays(Time) = lost
    BY <2>2 DEF DaysSince1970, LostDays
  <2>5. /\ utime(Time) = (days - lost) * 86400 + h * 3600
        /\ utime(e) = (first - lost) * 86400
    <3>1. utime(Time) = (days - lost) * 86400 + h * 3600
      BY <2>2, <2>4, UtimeCounts DEF Seconds
    <3>2. utime(e) = (first - lost) * 86400 + 0 * 3600
      BY <2>3, UtimeCounts DEF Seconds
    <3>3. first \in Int /\ lost \in Int
      BY <2>2, <2>3, SecondsTyped
    <3> HIDE DEF first, lost, e
    <3> QED  BY <3>1, <3>2, <3>3
  <2>6. days \in Int /\ first \in Int /\ lost \in Int /\ h \in 0..23
    BY <2>2, <2>3, SecondsTyped, DateNumbers
  <2>7. /\ (utime(Time) - utime(e)) \div 86400 = days - first
        /\ (utime(Time) - utime(e)) % 86400 = h * 3600
    <3> DEFINE x == utime(Time) - utime(e)
               n == days - first
               r == h * 3600
    <3>1. n \in Int /\ h \in Int /\ 0 <= h /\ h <= 23
      BY <2>6
    <3>2. r \in Int /\ 0 <= r /\ r <= 86399
      <4>1. r = h * 3600
        OBVIOUS
      <4> HIDE DEF r, h
      <4> QED  BY <3>1, <4>1, SecondsOfDay
    <3>3. x = n * 86400 + r
      <4> HIDE DEF days, first, lost, h, e
      <4> QED  BY <2>5, <2>6
    <3>4. x \in Int
      <4> HIDE DEF x, n, r
      <4> QED  BY <3>1, <3>2, <3>3
    <3>5. x \div 86400 = n /\ x % 86400 = r
      <4> HIDE DEF x, n, r
      <4> QED  BY <3>1, <3>2, <3>3, <3>4, DaysAndSeconds
    <3> QED  BY <3>5
  <2>8. d \in Range(recent)
    BY <2>1 DEF Inv, Dated, Now, Range
  <2> QED  BY <2>2, <2>7, <2>8
<1> QED  BY <1>1, ClockInvariant, PTL
\* The dates of a call, and their seconds, have their types.
LEMMA DatesOfCall ==
    ASSUME Inv
    PROVE  /\ Now \in 0..23 /\ hours \in Int /\ mode \in Modes
           /\ pc = "idle" <=> Now = 0
           /\ Now > 0 => recent[Now] = date
           /\ date \in Dates /\ Seconds(date) \in Int
           /\ \A n \in 1..Now : recent[n] \in Dates /\ Seconds(recent[n]) \in Int
<1>1. Now \in 0..23 /\ mode \in Modes /\ (Now > 0 => recent[Now] = date) /\ date \in Dates
  BY DEF Inv, ClockTyped, Dated, ClockDates
<1>2. hours \in Int
  <2>1. Horizon \in Nat
    BY RtcAssumption DEF RtcAssumption
  <2> QED  BY <2>1 DEF Inv, ClockTyped
<1>3. \A n \in 1..Now : recent[n] \in Dates
  BY DEF Inv, Dated, Now, ClockDates
<1>4. pc = "idle" <=> Now = 0
  BY DEF Inv, Dated
<1> QED  BY <1>1, <1>2, <1>3, <1>4, SecondsTyped

\* A step in which neither the sleep nor the dates of the call change.
LEMMA SleepUntouched ==
    ASSUME SInv, recent' = recent, hours' = hours, mode' = mode,
           slept' = slept, nap' = nap, until' = until, pc' = "idle" => pc = "idle"
    PROVE  SInv'
<1>1. Now' = Now
  BY DEF Now
<1>2. Paced'
  BY <1>1 DEF SInv, Paced
<1>3. \A n : HourAt(n)' = HourAt(n)
  BY <1>1 DEF HourAt
<1>4. Sleeping'
  BY <1>1 DEF SInv, Sleeping, HourAt
<1>5. EndFarEnough'
  BY <1>1 DEF SInv, EndFarEnough, HourAt
<1> QED  BY <1>2, <1>4, <1>5 DEF SInv

\* The clock begins with an update: an hour and at most 3600 seconds more.
LEMMA SleepStartUpdate ==
    ASSUME Inv, Inv', SInv, StartUpdate
    PROVE  SInv'
<1>1. /\ hours' = hours + 1 /\ mode' = mode /\ pc' = pc /\ date' = NextHour(date)
      /\ slept' = slept /\ nap' = nap /\ until' = until
  BY DEF StartUpdate, call
<1>2. CASE pc = "idle"
  <2>1. recent' = recent /\ Now = 0 /\ Now' = 0
    BY <1>2, DatesOfCall DEF StartUpdate, Now
  <2>2. nap = 0 /\ until = NotKnown
    BY <1>2 DEF SInv, Sleeping
  <2>3. Paced'
    BY <2>1 DEF Paced
  <2>4. Sleeping'
    BY <1>1, <1>2, <2>2 DEF SInv, Sleeping
  <2>5. EndFarEnough'
    BY <1>1, <2>2 DEF EndFarEnough
  <2> QED  BY <2>3, <2>4, <2>5 DEF SInv
<1>3. CASE pc # "idle"
  <2> DEFINE N == Now
             S(n) == Seconds(recent[n])
             s == Seconds(date')
  <2>1. /\ N \in 1..23 /\ hours \in Int
        /\ \A n \in 1..N : S(n) \in Int
        /\ recent[N] = date /\ S(N) = Seconds(date) /\ s \in Int
    <3>1. date' \in Dates
      BY DEF Inv, ClockTyped, ClockDates
    <3> QED  BY <1>3, <3>1, DatesOfCall, SecondsTyped
  <2>2. s <= S(N) + 3600
    <3>1. date \in Dates /\ date' \in Dates
      BY DEF Inv, ClockTyped, ClockDates
    <3> QED  BY <1>1, <2>1, <3>1, NextHourPaced
  <2>3. /\ Now' = N + 1 /\ recent'[N + 1] = date'
        /\ \A n \in 1..N : recent'[n] = recent[n]
    <3>1. recent' = Append(recent, date')
      BY <1>3 DEF StartUpdate
    <3>2. recent \in Seq(ClockDates) /\ date' \in ClockDates'  /\ ClockDates' = ClockDates
      BY <1>1 DEF Inv, Dated, ClockTyped, ClockDates
    <3> QED  BY <3>1, <3>2, AppendProperties DEF Now
  <2>4. /\ Seconds(recent'[N + 1]) = s
        /\ \A n \in 1..N : Seconds(recent'[n]) = S(n)
    BY <2>3
  <2>5. \A m, n \in 1..N : m <= n => S(n) <= S(m) + (n - m) * 3600
    BY DEF SInv, Paced
  <2>6. Paced'
    <3>1. SUFFICES ASSUME NEW m \in 1..(N + 1), NEW n \in 1..(N + 1), m <= n
                   PROVE  Seconds(recent'[n]) <= Seconds(recent'[m]) + (n - m) * 3600
      BY <2>3 DEF Paced
    <3> HIDE DEF N, S, s
    <3>2. CASE n <= N
      <4>1. m \in 1..N /\ n \in 1..N
        BY <2>1, <3>1, <3>2
      <4> QED  BY <2>4, <2>5, <3>1, <4>1
    <3>3. CASE n = N + 1 /\ m <= N
      <4>1. m \in 1..N /\ N \in 1..N /\ S(m) \in Int /\ S(N) \in Int
        BY <2>1, <3>1, <3>3
      <4>2. S(N) <= S(m) + (N - m) * 3600
        BY <2>5, <4>1
      <4>3. Seconds(recent'[n]) = s /\ Seconds(recent'[m]) = S(m)
        BY <2>4, <3>3, <4>1
      <4> QED  BY ONLY <2>1, <2>2, <3>3, <4>1, <4>2, <4>3
    <3>4. CASE n = N + 1 /\ m = N + 1
      BY <2>1, <2>4, <3>4
    <3> QED  BY <2>1, <3>1, <3>2, <3>3, <3>4
  <2>7. \A n \in Int : HourAt(n) = hours - (N - n) /\ HourAt(n)' = hours + 1 - (N + 1 - n)
    <3>1. SUFFICES ASSUME NEW n \in Int
                   PROVE  HourAt(n) = hours - (N - n) /\ HourAt(n)' = hours + 1 - (N + 1 - n)
      OBVIOUS
    <3>2. hours' - (Now' - n) = hours + 1 - (N + 1 - n)
      BY ONLY <1>1, <2>1, <2>3, <3>1
    <3> QED  BY <3>2 DEF HourAt
  <2>8. Sleeping'
    <3>1. slept <= hours - (N - 1) => slept <= hours + 1 - (N + 1 - 1)
      BY <2>1
    <3> QED  BY <1>1, <1>3, <2>7, <3>1 DEF SInv, Sleeping
  <2>9. EndFarEnough'
    <3>1. SUFFICES ASSUME mode.h24, until # NotKnown
                   PROVE  /\ until' \in Int
                          /\ \A n \in 1..Now' :
                                Seconds(recent'[n]) + (slept' + nap' - HourAt(n)') * 3600 <= until'
      BY <1>1 DEF EndFarEnough
    <3>2. /\ until \in Int /\ slept \in Int /\ nap \in Nat
          /\ \A n \in 1..N : S(n) + (slept + nap - (hours - (N - n))) * 3600 <= until
      BY <3>1 DEF SInv, EndFarEnough, Sleeping, HourAt
    <3> HIDE DEF N, S, s
    <3>3. ASSUME NEW n \in 1..(N + 1)
          PROVE  Seconds(recent'[n]) + (slept + nap - (hours + 1 - (N + 1 - n))) * 3600 <= until
      <4>1. CASE n <= N
        <5>1. n \in 1..N /\ S(n) \in Int /\ Seconds(recent'[n]) = S(n)
          BY <2>1, <2>4, <3>3, <4>1
        <5>2. S(n) + (slept + nap - (hours - (N - n))) * 3600 <= until
          BY <3>2, <5>1
        <5> QED  BY ONLY <2>1, <3>2, <5>1, <5>2
      <4>2. CASE n = N + 1
        <5>1. N \in 1..N /\ S(N) \in Int /\ Seconds(recent'[n]) = s
          BY <2>1, <2>4, <4>2
        <5>2. S(N) + (slept + nap - (hours - (N - N))) * 3600 <= until
          BY <3>2, <5>1
        <5> QED  BY ONLY <2>1, <2>2, <3>2, <4>2, <5>1, <5>2
      <4> QED  BY <2>1, <3>3, <4>1, <4>2
    <3>4. ASSUME NEW n \in 1..Now'
          PROVE  Seconds(recent'[n]) + (slept' + nap' - HourAt(n)') * 3600 <= until'
      <4>1. n \in 1..(N + 1)
        BY <2>3 DEF N
      <4>2. HourAt(n)' = hours + 1 - (N + 1 - n)
        BY <2>7, <4>1
      <4> QED  BY <1>1, <3>3, <4>1, <4>2
    <3> QED  BY <1>1, <3>2, <3>4
  <2> QED  BY <2>6, <2>8, <2>9 DEF SInv
<1> QED  BY <1>2, <1>3

\* A first date of a call: the sleep that makes it was called before, and its end is known to
\* be far enough.
LEMMA SleepBegins ==
    ASSUME Inv, BeginTime, UNCHANGED clock,
           slept' \in Int, nap' \in Nat, nap' = 0 => until' = NotKnown,
           nap' # 0 => slept' <= hours,
           mode.h24 /\ until' # NotKnown =>
              until' \in Int /\ Seconds(date) + (slept' + nap' - hours) * 3600 <= until'
    PROVE  SInv'
<1>1. pc' = "wait" /\ Now' = 1 /\ recent'[1] = date /\ hours' = hours /\ mode' = mode
  BY DEF BeginTime, Now, clock
<1>2. hours \in Int /\ Seconds(date) \in Int
  BY DatesOfCall
<1>3. HourAt(1)' = hours
  BY <1>1, <1>2 DEF HourAt
<1>4. \A n \in 1..Now' : n = 1
  BY <1>1
<1>5. Paced'
  <2>1. SUFFICES ASSUME NEW m \in 1..Now', NEW n \in 1..Now'
                 PROVE  Seconds(recent'[n]) <= Seconds(recent'[m]) + (n - m) * 3600
    BY DEF Paced
  <2>2. m = 1 /\ n = 1 /\ Seconds(recent'[n]) = Seconds(date) /\ Seconds(recent'[m]) = Seconds(date)
    BY <1>1, <1>4
  <2> QED  BY <1>2, <2>2
<1>6. Sleeping'
  BY <1>1, <1>3 DEF Sleeping
<1>7. EndFarEnough'
  <2>1. SUFFICES ASSUME mode.h24, until' # NotKnown, NEW n \in 1..Now'
                 PROVE  /\ until' \in Int
                        /\ Seconds(recent'[n]) + (slept' + nap' - HourAt(n)') * 3600 <= until'
    BY <1>1 DEF EndFarEnough
  <2>2. n = 1 /\ Seconds(recent'[n]) = Seconds(date) /\ HourAt(n)' = hours
    BY <1>1, <1>3, <1>4 DEF HourAt
  <2> QED  BY <2>1, <2>2
<1> QED  BY <1>5, <1>6, <1>7 DEF SInv

\* A call that is over.
LEMMA SleepIsOver ==
    ASSUME SInv, pc' = "idle", recent' = <<>>, slept' = slept, nap' = 0, until' = NotKnown
    PROVE  SInv'
<1>1. Now' = 0
  BY DEF Now
<1> QED  BY <1>1 DEF SInv, Paced, Sleeping, EndFarEnough

\* The first time of a sleep gives an end that is far enough, and the later ones keep it.
LEMMA SleepGoesOnStep ==
    ASSUME Inv, SInv, SleepGoesOn
    PROVE  SInv'
<1>1. /\ Agree /\ nap # 0 /\ nap' = nap /\ slept' = slept /\ until' = EndUtime
      /\ BeginTime /\ UNCHANGED clock
  BY DEF SleepGoesOn
<1>2. /\ Now \in 1..23 /\ hours \in Int /\ recent[Now] = date /\ Seconds(date) \in Int
      /\ slept \in Int /\ nap \in Nat
  BY <1>1, DatesOfCall DEF SInv, Sleeping, Agree
<1>3. slept <= hours - (Now - 1)
  BY <1>1 DEF SInv, Sleeping, HourAt
<1>4. slept <= hours
  BY <1>2, <1>3
<1>5. ASSUME mode.h24
      PROVE  until' \in Int /\ Seconds(date) + (slept + nap - hours) * 3600 <= until'
  <2>1. CASE until # NotKnown
    <3>1. until' = until
      BY <1>1, <2>1 DEF EndUtime
    <3>2. /\ until \in Int
          /\ Seconds(recent[Now]) + (slept + nap - (hours - (Now - Now))) * 3600 <= until
      BY <1>2, <1>5, <2>1 DEF SInv, EndFarEnough, HourAt
    <3> QED  BY <1>2, <3>1, <3>2
  <2>2. CASE until = NotKnown
    <3>1. PICK b \in 1..Now : TwelveOClock(recent[b]) \/ utime(Time) = Seconds(recent[b])
      BY <1>1, UtimeOfDate
    <3>2. utime(Time) = Seconds(recent[b])
      BY <1>5, <3>1 DEF TwelveOClock
    <3>3. until' = Seconds(recent[b]) + nap * 3600 /\ Seconds(recent[b]) \in Int
      BY <1>1, <2>2, <3>2, DatesOfCall DEF EndUtime
    <3>4. Seconds(date) <= Seconds(recent[b]) + (Now - b) * 3600
      <4>1. Now \in 1..Now /\ b <= Now
        BY <1>2
      <4> QED  BY <1>2, <4>1 DEF SInv, Paced
    <3> QED  BY ONLY b \in 1..Now, <1>2, <1>3, <3>3, <3>4
  <2> QED  BY <2>1, <2>2
<1> QED  BY <1>1, <1>2, <1>4, <1>5, SleepBegins

\* Every step keeps it.
THEOREM SleepInvNext ==
    ASSUME Inv, Inv', SInv, [Next]_vars
    PROVE  SInv'
<1>1. CASE Clock
  <2>1. CASE StartUpdate
    BY <2>1, SleepStartUpdate
  <2>2. CASE EndUpdate
    BY <2>2, SleepUntouched DEF EndUpdate, call
  <2>3. ASSUME NEW r \in DOMAIN regs, UpdateRegister(r)
        PROVE  SInv'
    BY <2>3, SleepUntouched DEF UpdateRegister, call
  <2> QED  BY <1>1, <2>1, <2>2, <2>3 DEF Clock
<1>2. CASE CallTime
  <2>1. nap' = 0 /\ until' = NotKnown /\ slept' \in Int
    BY <1>2 DEF CallTime, SInv, Sleeping
  <2> QED  BY <1>2, <2>1, SleepBegins DEF CallTime
<1>3. ASSUME NEW secs \in Naps, CallSleep(secs)
      PROVE  SInv'
  <2>1. secs \in Nat /\ hours \in Int
    BY NapsAssumption, DatesOfCall DEF NapsAssumption
  <2>2. nap' = secs /\ until' = NotKnown /\ slept' = hours /\ BeginTime /\ UNCHANGED clock
    BY <1>3 DEF CallSleep, SInv, Sleeping
  <2>3. slept' \in Int /\ nap' \in Nat /\ slept' <= hours
    BY <2>1, <2>2
  <2> QED  BY <2>2, <2>3, SleepBegins
<1>4. CASE UNCHANGED vars
  BY <1>4, SleepUntouched DEF vars, clock, call
<1>5. CASE Kernel
  <2>1. CASE PollFlag
    BY <1>4, <2>1 DEF PollFlag
  <2>2. CASE SeeFlagDown
    BY <2>2, SleepUntouched DEF SeeFlagDown, clock
  <2>3. CASE get_RTC_register
    <3>1. pc' # "idle"
      BY <2>3 DEF get_RTC_register
    <3> QED  BY <2>3, <3>1, SleepUntouched DEF get_RTC_register, clock
  <2>4. CASE Again
    BY <2>4, SleepUntouched DEF Again, clock
  <2>5. CASE TimeReturns
    BY <2>5, SleepIsOver DEF TimeReturns, SInv, Sleeping
  <2>6. CASE SleepGoesOn
    BY <2>6, SleepGoesOnStep
  <2>7. CASE SleepEnds
    BY <2>7, SleepIsOver DEF SleepEnds
  <2> QED  BY <1>5, <2>1, <2>2, <2>3, <2>4, <2>5, <2>6, <2>7 DEF Kernel
<1> QED  BY <1>1, <1>2, <1>3, <1>4, <1>5 DEF Next

\* So it always holds.
THEOREM SleepInvariant == Spec => []SInv
<1>1. Init => SInv
  BY DEF Init, SInv, Paced, Sleeping, EndFarEnough, Now
<1>2. Inv /\ Inv' /\ SInv /\ [Next]_vars => SInv'
  BY SleepInvNext
<1> QED  BY <1>1, <1>2, ClockInvariant, PTL DEF Spec

\* On a twenty-four-hour clock sleep never returns before its time is over, wherever the
\* updates fall and whatever ends meanwhile.
THEOREM SleepIsLongEnough == Spec => SleepsLongEnough
<1>1. ASSUME Inv, SInv, SleepEnds, mode.h24
      PROVE  hours >= slept + nap
  <2>1. Agree /\ nap # 0 /\ utime(Time) >= EndUtime
    BY <1>1 DEF SleepEnds
  <2>2. slept \in Int /\ nap \in Nat
    BY <1>1 DEF SInv, Sleeping
  <2>3. PICK b \in 1..Now : utime(Time) = Seconds(recent[b])
    BY <1>1, <2>1, UtimeOfDate DEF TwelveOClock
  <2>4. Seconds(recent[b]) \in Int /\ Now \in 0..23 /\ hours \in Int
    BY <1>1, DatesOfCall
  <2>5. until # NotKnown
    <3>1. SUFFICES ASSUME until = NotKnown
                   PROVE  FALSE
      OBVIOUS
    <3>2. Seconds(recent[b]) >= Seconds(recent[b]) + nap * 3600
      BY <2>1, <2>3, <3>1 DEF EndUtime
    <3> QED  BY ONLY <2>1, <2>2, <2>4, <3>2
  <2>6. /\ until \in Int /\ Seconds(recent[b]) >= until
        /\ Seconds(recent[b]) + (slept + nap - (hours - (Now - b))) * 3600 <= until
    BY <1>1, <2>1, <2>3, <2>5 DEF EndUtime, SInv, EndFarEnough, HourAt
  <2> QED  BY ONLY b \in 1..Now, <2>2, <2>4, <2>6
<1>2. Inv /\ SInv /\ [Next]_vars => [SleepEnds /\ mode.h24 => hours >= slept + nap]_vars
  BY <1>1
<1> QED  BY <1>2, ClockInvariant, SleepInvariant, PTL DEF Spec, SleepsLongEnough
=============================================================================
