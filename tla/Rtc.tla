-------------------------------- MODULE Rtc --------------------------------
(***************************************************************************)
(* Reading the clock: time, utime and sleep of src/cmos/cmos.c and the     *)
(* real-time clock behind the CMOS ports.  The clock counts on its own; an *)
(* update raises the update-in-progress flag, changes the registers one by *)
(* one in no particular order, and drops the flag.  time() reads register  *)
(* after register, so that an update can fall between any two of its       *)
(* reads, until two passes agree.                                          *)
(*                                                                         *)
(* The lowest register of the model is that of the hours, so the clock has *)
(* an update every hour and sleep counts hours; the registers of the       *)
(* minutes and seconds are more of the same.                               *)
(***************************************************************************)
EXTENDS Calendar, Sequences, Functions

CONSTANTS
    Starts,     \* the dates at which the machine is switched on
    Naps,       \* the arguments of sleep, in hours
    Horizon,    \* bound on the hours that pass
    LastCall,   \* bound on the hours after which a call begins
    MaxTicks    \* bound on the updates that fall into one call of time()

\* A call of time() is over before the lowest register has gone all the way
\* around.  From 19 January 2038 on the seconds since 1970 do not fit an int:
\* the clock is switched on before 2036, for 48 weeks or 8064 hours at most.
ASSUME RtcAssumption ==
    /\ Starts \subseteq {d \in Dates : d.year <= 2035}
    /\ LastCall \in Nat /\ Horizon \in 0..8064
    /\ MaxTicks \in 0..22

\* Nor does a sleep end later than an int can tell.
ASSUME NapsAssumption == Naps \subseteq 1..8064

VARIABLES
    mode,           \* the mode of the clock
    date, hours,    \* its date, and the hours since it was switched on
    regs,           \* its registers
    stale,          \* the registers that a running update has still to change
    flag,           \* update in progress
    pc,             \* where the kernel is; "idle" outside of time()
    k,              \* the register read next
    rtc,            \* the values of the running pass
    last,           \* the values of the pass before, if there was one
    until,          \* end_utime of a running sleep, once it is known
    nap,            \* the argument of a running sleep, 0 if there is none
    interrupts,     \* the processor's interrupt flag
    recent,         \* history: the dates of the clock since time() was called
    slept           \* history: hours when the running sleep was called

clock == <<mode, date, hours, regs, stale, flag>>
call == <<pc, k, rtc, last, until, nap, interrupts, slept>>
vars == <<clock, call, recent>>

NotKnown == -1
None == [pass |-> "none"]

\* The order in which time() reads.  Without a century register it is not read.
Reads ==
    <<"hour", "day", "month", "year">> \o (IF mode.century THEN <<"century">> ELSE <<>>)

\* The code is of the century that it takes for granted without a register.
Init ==
    /\ mode \in Modes
    /\ date \in {d \in Starts : mode.century \/ d.year \div 100 = CURRENT_CENTURY - 1}
    /\ hours = 0
    /\ regs = Registers(date, mode) /\ stale = {} /\ flag = FALSE
    /\ pc = "idle" /\ k = 1
    /\ rtc = regs /\ last = None
    /\ until = NotKnown /\ nap = 0
    /\ interrupts = TRUE
    /\ recent = <<>> /\ slept = 0

-----------------------------------------------------------------------------
(* The clock.                                                              *)

StartUpdate ==
    /\ ~flag /\ hours < Horizon
    /\ Len(recent) <= MaxTicks
    /\ date' = NextHour(date)
    /\ hours' = hours + 1
    /\ flag' = TRUE
    /\ stale' = {r \in DOMAIN regs : regs[r] # Registers(date', mode)[r]}
    /\ recent' = IF pc = "idle" THEN recent ELSE Append(recent, date')
    /\ UNCHANGED <<mode, regs, call>>

UpdateRegister(r) ==
    /\ r \in stale
    /\ regs' = [regs EXCEPT ![r] = Registers(date, mode)[r]]
    /\ stale' = stale \ {r}
    /\ UNCHANGED <<mode, date, hours, flag, call, recent>>

EndUpdate ==
    /\ flag /\ stale = {}
    /\ flag' = FALSE
    /\ UNCHANGED <<mode, date, hours, regs, stale, call, recent>>

Clock == StartUpdate \/ EndUpdate \/ \E r \in DOMAIN regs : UpdateRegister(r)

-----------------------------------------------------------------------------
(* The kernel.  No pass has been made when time() is called.               *)

BeginTime ==
    /\ pc' = "wait"
    /\ k' = 1
    /\ rtc' = [rtc EXCEPT !.century = 0]
    /\ last' = None
    /\ recent' = <<date>>

\* Calls are made again when the clock of the model has stopped.
CallTime ==
    /\ pc = "idle"
    /\ hours <= LastCall \/ hours = Horizon
    /\ BeginTime
    /\ UNCHANGED <<clock, until, nap, interrupts, slept>>

CallSleep(secs) ==
    /\ pc = "idle" /\ hours <= LastCall
    /\ BeginTime
    /\ nap' = secs
    /\ slept' = hours
    /\ UNCHANGED <<clock, until, interrupts>>

PollFlag ==
    /\ pc = "wait" /\ flag
    /\ UNCHANGED vars

\* Mutant: the flag is not looked at.
SeeFlagDown_Never ==
    /\ pc = "wait"
    /\ pc' = "read"
    /\ UNCHANGED <<clock, k, rtc, last, until, nap, interrupts, recent, slept>>

SeeFlagDown ==
    /\ pc = "wait" /\ ~flag
    /\ pc' = "read"
    /\ UNCHANGED <<clock, k, rtc, last, until, nap, interrupts, recent, slept>>

\* Mutant: one register too many.
get_RTC_register_OneMore ==
    /\ pc = "read"
    /\ rtc' = IF k \in DOMAIN Reads THEN [rtc EXCEPT ![Reads[k]] = regs[Reads[k]]] ELSE rtc
    /\ interrupts' = FALSE
    /\ IF k <= Len(Reads) THEN k' = k + 1 /\ pc' = pc
                          ELSE k' = 1 /\ pc' = "compare"
    /\ UNCHANGED <<clock, last, until, nap, recent, slept>>

\* The sti of get_RTC_register comes after its return: interrupts stay off.
get_RTC_register ==
    /\ pc = "read"
    /\ rtc' = [rtc EXCEPT ![Reads[k]] = regs[Reads[k]]]
    /\ interrupts' = FALSE
    /\ IF k < Len(Reads) THEN k' = k + 1 /\ pc' = pc
                         ELSE k' = 1 /\ pc' = "compare"
    /\ UNCHANGED <<clock, last, until, nap, recent, slept>>

\* Mutant: the last values are not renewed.
Again_KeepsLast ==
    /\ pc = "compare" /\ rtc # last
    /\ pc' = "wait"
    /\ last' = IF last = None THEN rtc ELSE last
    /\ UNCHANGED <<clock, k, rtc, until, nap, interrupts, recent, slept>>

Again ==
    /\ pc = "compare" /\ rtc # last
    /\ pc' = "wait"
    /\ last' = rtc
    /\ UNCHANGED <<clock, k, rtc, until, nap, interrupts, recent, slept>>

Agree == pc = "compare" /\ rtc = last

\* What time() returns, and utime() makes of it.
Time == DateOf(rtc, mode)

TimeReturns ==
    /\ Agree /\ nap = 0
    /\ pc' = "idle"
    /\ recent' = <<>>
    /\ UNCHANGED <<clock, k, rtc, last, until, nap, interrupts, slept>>

\* Mutant: the end is counted from the hour before.
EndUtime_Early == IF until = NotKnown THEN utime(Time) + (nap - 1) * 3600 ELSE until

\* The first time of a sleep sets its end.
EndUtime == IF until = NotKnown THEN utime(Time) + nap * 3600 ELSE until

SleepGoesOn ==
    /\ Agree /\ nap # 0
    /\ utime(Time) < EndUtime
    /\ until' = EndUtime
    /\ BeginTime
    /\ UNCHANGED <<clock, nap, interrupts, slept>>

SleepEnds ==
    /\ Agree /\ nap # 0
    /\ utime(Time) >= EndUtime
    /\ pc' = "idle"
    /\ recent' = <<>>
    /\ until' = NotKnown /\ nap' = 0
    /\ UNCHANGED <<clock, k, rtc, last, interrupts, slept>>

Kernel ==
    \/ PollFlag \/ SeeFlagDown \/ get_RTC_register \/ Again
    \/ TimeReturns \/ SleepGoesOn \/ SleepEnds

Next ==
    \/ Clock
    \/ CallTime
    \/ \E secs \in Naps : CallSleep(secs)
    \/ Kernel

\* The processor goes on, and so does the clock.
Spec == Init /\ [][Next]_vars /\ WF_vars(Kernel) /\ WF_vars(Clock)

-----------------------------------------------------------------------------
(* Properties.                                                             *)

TypeOK ==
    /\ mode \in Modes
    /\ DOMAIN regs = {"hour", "day", "month", "year", "century"}
    /\ DOMAIN rtc = DOMAIN regs /\ stale \subseteq DOMAIN regs
    /\ \A r \in DOMAIN regs : regs[r] \in 0..255 /\ rtc[r] \in 0..255
    /\ stale # {} => flag
    /\ pc \in {"idle", "wait", "read", "compare"}
    /\ k \in DOMAIN Reads

TwelveOClock(d) == ~mode.h24 /\ d.hour \in {0, 12}

\* What time() is about to return was the date of the clock at some moment of
\* the call, in each of the clock's formats, and never a mixture of registers
\* from before and after an update, although the flag is only looked at before
\* each pass.  Midnight and noon of a twelve-hour clock get the wrong hour.
TimeWasTrue ==
    Agree => \E d \in Range(recent) :
        IF TwelveOClock(d) THEN [Time EXCEPT !.hour = d.hour] = d ELSE Time = d

\* Where utime() begins to count: in 1970, and again in March 2000, since the code
\* does not know the day before.
Epoch(d) ==
    IF d.year > 2000 \/ (d.year = 2000 /\ d.month > 2)
    THEN [year |-> 2000, month |-> 3, day |-> 1, hour |-> 0]
    ELSE [year |-> 1970, month |-> 1, day |-> 1, hour |-> 0]

\* Between its epoch and a date of the call, utime() counts the days of the calendar,
\* over any number of months and leap years, whatever the clock's format; and it
\* counts the hours of the day, but for the hours that begin at noon and midnight of a
\* twelve-hour clock, which time() takes for each other.
UtimeRight ==
    Agree => \E d \in Range(recent) :
        LET counted == utime(Time) - utime(Epoch(d))
        IN  /\ counted \div 86400 = DaysSince1970(d) - DaysSince1970(Epoch(d))
            /\ TwelveOClock(d) \/ counted % 86400 = d.hour * 3600

\* On a twenty-four-hour clock sleep never returns before its time is over,
\* wherever the updates fall and whatever day, month or year ends meanwhile.
SleepsLongEnough == [][SleepEnds /\ mode.h24 => hours >= slept + nap]_vars

\* Every time() and every sleep() returns: two passes agree some time, and the
\* clock reaches the end of the sleep, also after the seconds have gone back by
\* half a day at noon or by a whole one at the end of February 2000.
CallsReturn == []<>(pc = "idle")
=============================================================================
