------------------------------- MODULE Clock --------------------------------
(***************************************************************************)
(* The time of day (sys/syscall_time.c) and the clock chip it is taken     *)
(* from and written to (dev/rtc.c).  The chip is read register by register *)
(* while it goes on counting; its own updates are atomic here, as the      *)
(* kernel waits while the chip says that one is in progress.               *)
(***************************************************************************)
EXTENDS Integers, Sequences

CONSTANTS
    Starts,      \* dates that the chip may show at boot
    Targets,     \* times, in seconds since 1970, to which the clock is set
    MAXUP,       \* bound: seconds since boot
    Careful,     \* TRUE: the chip counts 24 hours, and is set to years it can hold
    NONE

VARIABLES
    date,        \* what the chip counts: <<second, minute, hour, day, month, year>>
    mode,        \* its register B: whether it counts in BCD, and to 24 hours
    frozen,      \* the SET bit
    user,        \* the call that uses the chip
    offset,      \* g_realtime_offset_sec
    uptime       \* in seconds

vars == <<date, mode, frozen, user, offset, uptime>>

Leap(y) == (y % 4 = 0 /\ y % 100 # 0) \/ y % 400 = 0
DaysInMonths(y) == <<31, IF Leap(y) THEN 29 ELSE 28, 31, 30, 31, 30, 31, 31, 30, 31, 30, 31>>

DaysBeforeMonth == <<0, 31, 59, 90, 120, 151, 181, 212, 243, 273, 304, 334>>

\* Mutant: every fourth year is taken to be a leap year before its February ends.
LeapDayEarly(d) ==
    LET y == d[6]
        leap_years == (y - 1968) \div 4 - (y - 1901) \div 100 + (y - 1601) \div 400
        days == (y - 1970) * 365 + leap_years + DaysBeforeMonth[d[5]] + (d[4] - 1)
    IN days * 86400 + d[3] * 3600 + d[2] * 60 + d[1]

rtc_to_epoch_sec(d) ==
    LET y == d[6]
        leap_years == (y - 1969) \div 4 - (y - 1901) \div 100 + (y - 1601) \div 400
        days == (y - 1970) * 365 + leap_years + DaysBeforeMonth[d[5]] + (d[4] - 1)
                + (IF Leap(y) /\ d[5] > 2 THEN 1 ELSE 0)
    IN days * 86400 + d[3] * 3600 + d[2] * 60 + d[1]

\* The year and the day of the year, then the month and its day.
RECURSIVE YearOf(_, _)
YearOf(days, y) ==
    LET n == IF Leap(y) THEN 366 ELSE 365
    IN IF days < n THEN <<days, y>> ELSE YearOf(days - n, y + 1)

RECURSIVE MonthOf(_, _, _)
MonthOf(days, y, m) ==
    IF m <= 12 /\ days >= DaysInMonths(y)[m] THEN MonthOf(days - DaysInMonths(y)[m], y, m + 1)
    ELSE <<days + 1, m>>

epoch_sec_to_datetime(sec) ==
    LET yd == YearOf(sec \div 86400, 1970)
        md == MonthOf(yd[1], yd[2], 1)
    IN <<sec % 60, (sec \div 60) % 60, (sec \div 3600) % 24>> \o md \o <<yd[2]>>

\* What the register of a field holds.  With a 12 hour clock bit 7 means p.m.
Bcd(n) == (n \div 10) * 16 + (n % 10)
Hour(h) == IF mode.h24 THEN h ELSE IF h % 12 = 0 THEN 12 ELSE h % 12
Coded(n) == IF mode.bcd THEN Bcd(n) ELSE n
Register(i) ==
    CASE i = 3 -> Coded(Hour(date[3])) + (IF ~mode.h24 /\ date[3] >= 12 THEN 128 ELSE 0)
      [] i = 6 -> Coded(date[6] % 100)
      [] OTHER -> Coded(date[i])

\* What rtc_get_datetime makes of the registers.
Binary(r) == (r % 16) + (r \div 16) * 10
BinaryHour(r) == (r % 16) + (((r \div 16) % 8) * 10) + (r \div 128) * 128
Decoded(r) ==
    LET b == IF mode.bcd
             THEN <<Binary(r[1]), Binary(r[2]), BinaryHour(r[3]), Binary(r[4]), Binary(r[5]), Binary(r[6])>>
             ELSE r
        hour == IF ~mode.h24 /\ b[3] >= 128 THEN ((b[3] % 128) + 12) % 24 ELSE b[3]
    IN <<b[1], b[2], hour, b[4], b[5], b[6] + 2000>>

Idle == [op |-> "idle", i |-> 0, regs |-> <<>>, last |-> <<>>, ticked |-> FALSE, to |-> NONE]

Init ==
    /\ date \in Starts
    /\ mode \in [bcd : BOOLEAN, h24 : IF Careful THEN {TRUE} ELSE BOOLEAN]
    /\ frozen = FALSE
    /\ user = [Idle EXCEPT !.op = "get"]
    /\ offset = NONE
    /\ uptime = 0

\* One second later.
NextSecond(d) ==
    LET last == <<59, 59, 23, DaysInMonths(d[6])[d[5]], 12>>
        first == <<0, 0, 0, 1, 1>>
    IN [i \in 1..6 |->
          IF \E j \in 1..(i - 1) : d[j] # last[j] THEN d[i]
          ELSE IF i < 6 /\ d[i] = last[i] THEN first[i] ELSE d[i] + 1]

\* A second passes.  A pass over the registers takes less than that.
Second ==
    /\ uptime < MAXUP
    /\ ~user.ticked
    /\ uptime' = uptime + 1
    /\ date' = IF frozen THEN date ELSE NextSecond(date)
    /\ user' = [user EXCEPT !.ticked = @ \/ user.op # "idle"]
    /\ UNCHANGED <<mode, frozen, offset>>

ReadRegister ==
    /\ user.op = "get" /\ Len(user.regs) < 6
    /\ user' = [user EXCEPT !.regs = Append(@, Register(Len(@) + 1))]
    /\ UNCHANGED <<date, mode, frozen, offset, uptime>>

\* Mutant: the registers are read once.
ReadsOnce == TRUE

Settled == user.regs = user.last

\* The registers are read until two passes agree; then the offset is taken.
rtc_get_datetime ==
    /\ user.op = "get" /\ Len(user.regs) = 6
    /\ IF Settled
       THEN /\ offset' = rtc_to_epoch_sec(Decoded(user.regs)) - uptime
            /\ user' = Idle
       ELSE /\ user' = [user EXCEPT !.last = user.regs, !.regs = <<>>, !.ticked = FALSE]
            /\ UNCHANGED offset
    /\ UNCHANGED <<date, mode, frozen, uptime>>

handle_sys_clock_settime(sec) ==
    /\ user.op = "idle" /\ offset # NONE
    /\ Careful => epoch_sec_to_datetime(sec)[6] >= 2000
    /\ offset' = sec - uptime
    /\ frozen' = TRUE
    /\ user' = [Idle EXCEPT !.op = "set", !.to = epoch_sec_to_datetime(sec)]
    /\ UNCHANGED <<date, mode, uptime>>

\* What the chip makes of the byte that is written for a field.
Taken(i, n) ==
    LET byte == Coded(IF i = 6 /\ n >= 2000 THEN n - 2000 ELSE n) % 256
        v == IF mode.bcd THEN Binary(byte) ELSE byte
    IN CASE i = 3 /\ ~mode.h24 -> ((v % 128) % 12) + (IF byte >= 128 THEN 12 ELSE 0)
         [] i = 6 -> 2000 + v
         [] OTHER -> v

WriteRegister ==
    /\ user.op = "set" /\ user.i < 6
    /\ date' = [date EXCEPT ![user.i + 1] = Taken(user.i + 1, user.to[user.i + 1])]
    /\ user' = [user EXCEPT !.i = @ + 1]
    /\ UNCHANGED <<mode, frozen, offset, uptime>>

rtc_set_datetime ==
    /\ user.op = "set" /\ user.i = 6
    /\ frozen' = FALSE
    /\ user' = Idle
    /\ UNCHANGED <<date, mode, offset, uptime>>

Next ==
    \/ Second \/ ReadRegister \/ rtc_get_datetime \/ WriteRegister \/ rtc_set_datetime
    \/ \E sec \in Targets : handle_sys_clock_settime(sec)

Spec == Init /\ [][Next]_vars

-----------------------------------------------------------------------------

\* A second later is one second more, and a time turned into a date and back is
\* the same time: the two conversions agree with the calendar and with each other.
CalendarExact ==
    LET sec == rtc_to_epoch_sec(date)
    IN ~frozen => /\ rtc_to_epoch_sec(NextSecond(date)) = sec + 1
                  /\ epoch_sec_to_datetime(sec) = date

\* The time of day that programs are given is that of the chip, to the second in
\* which it was read or set: no register is taken from before an update and
\* another from after it.
TimeKept == user.op = "idle" => rtc_to_epoch_sec(date) - (offset + uptime) \in {-1, 0, 1}

\* Both.
ClockRight == CalendarExact /\ TimeKept
=============================================================================
