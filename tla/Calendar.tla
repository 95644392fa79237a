------------------------------ MODULE Calendar ------------------------------
(***************************************************************************)
(* The calendar arithmetic of Application/Main.c: struct TIME, the carries *)
(* of Time_counting, the increment Counting_seconds makes and the local    *)
(* time correction of Datagram_parameters_initialisation, beside a         *)
(* reference definition of the Gregorian calendar they are compared with.  *)
(*                                                                         *)
(* No operator is RECURSIVE: the theorems of CalendarProofs use them all.  *)
(***************************************************************************)
EXTENDS Integers

\* Stores to uint8_t and uint16_t members keep the low 8 and 16 bits.
U8(x) == x % 256
U16(x) == x % 65536

\* The values of the two types.  They are not written as intervals because
\* the SMT translation of the proofs enumerates an interval of literals.
Byte == {n \in Nat : n < 256}
Word == {n \in Nat : n < 65536}

\* struct TIME.
TIME == [second: Byte, minute: Byte, hour: Byte, day: Byte, month: Byte, year: Word]

-----------------------------------------------------------------------------
(* The code.                                                               *)

\* The table DaysInMonth[12]; the code indexes it with month-1.
DaysInMonth == <<31, 28, 31, 30, 31, 30, 31, 31, 30, 31, 30, 31>>

\* Mutant: the carry one second late.
CarrySecondLate(t) ==
    IF t.second > 60
    THEN [t EXCEPT !.second = 0, !.minute = U8(@ + 1)] ELSE t

CarrySecond(t) ==
    IF t.second >= 60
    THEN [t EXCEPT !.second = 0, !.minute = U8(@ + 1)] ELSE t

CarryMinute(t) ==
    IF t.minute >= 60
    THEN [t EXCEPT !.minute = 0, !.hour = U8(@ + 1)] ELSE t

CarryHour(t) ==
    IF t.hour >= 24
    THEN [t EXCEPT !.hour = @ - 24, !.day = U8(@ + 1)] ELSE t

\* Mutant: the Julian rule.
LeapDayJulian(t) == t.month = 2 /\ t.day = 29 /\ t.year % 4 = 0

\* The exception in Time_counting that keeps 29 February of a leap year.
LeapDay(t) ==
    /\ t.month = 2
    /\ t.day = 29
    /\ \/ t.year % 4 = 0 /\ t.year % 100 # 0
       \/ t.year % 4 = 0 /\ t.year % 400 = 0

CarryDay(t) ==
    IF t.day > DaysInMonth[t.month] /\ ~LeapDay(t)
    THEN [t EXCEPT !.month = U8(@ + 1), !.day = 1] ELSE t

CarryMonth(t) ==
    IF t.month >= 13
    THEN [t EXCEPT !.month = 1, !.year = U16(@ + 1)] ELSE t

\* Time_counting: the five carries, each seeing the result of the one before.
Time_counting(t) ==
    CarryMonth(CarryDay(CarryHour(CarryMinute(CarrySecond(t)))))

\* The increment `second++` of Counting_seconds on one struct TIME.
AddSecond(t) == [t EXCEPT !.second = U8(@ + 1)]

\* The last day of month mon, by the correction's own leap rule.
LastDay(mon, year) ==
    IF mon = 2 THEN (IF year % 4 = 0 THEN 29 ELSE 28) ELSE DaysInMonth[mon]

\* Mutant: the correction forgets to step the year back with the month.
StepBackDayNoYear(t) ==
    IF t.day # 0 THEN t
    ELSE IF U8(t.month - 1) = 0
    THEN [t EXCEPT !.day = 31, !.month = 12]
    ELSE [t EXCEPT !.month = U8(@ - 1), !.day = LastDay(U8(t.month - 1), t.year)]

\* "if(Datagram.local.day==0)": the last day of the month before.
StepBackDay(t) ==
    IF t.day # 0 THEN t
    ELSE IF U8(t.month - 1) = 0
    THEN [t EXCEPT !.day = 31, !.month = 12, !.year = U16(@ - 1)]
    ELSE [t EXCEPT !.month = U8(@ - 1), !.day = LastDay(U8(t.month - 1), t.year)]

\* The local time correction: msk with timering hours taken or added.
LocalTime(msk, timering, timering_sign) ==
    StepBackDay(
        IF timering_sign = 1 /\ msk.hour < timering
        THEN [msk EXCEPT !.day = U8(@ - 1),
                         !.hour = U8(24 + msk.hour - timering)]
        ELSE [msk EXCEPT !.hour = U8(@ + timering)])

-----------------------------------------------------------------------------
(* The reference: the Gregorian calendar, not taken from the code.         *)

IsLeap(y) == (y % 4 = 0 /\ y % 100 # 0) \/ y % 400 = 0

MonthLength(y, m) ==
    IF m = 2 THEN (IF IsLeap(y) THEN 29 ELSE 28)
    ELSE IF m \in {4, 6, 9, 11} THEN 30 ELSE 31

\* A struct TIME that denotes an instant in the usual way.
Normal(t) ==
    /\ t.month \in 1..12
    /\ t.day \in 1..MonthLength(t.year, t.month)
    /\ t.hour \in 0..23 /\ t.minute \in 0..59 /\ t.second \in 0..59

\* What Counting_seconds leaves behind: a normal instant, or the 60th second
\* of a minute, which Time_counting carries on the loop's next turn.
NormalOr60(t) ==
    /\ t.month \in 1..12
    /\ t.day \in 1..MonthLength(t.year, t.month)
    /\ t.hour \in 0..23 /\ t.minute \in 0..59 /\ t.second \in 0..60

DateOf(t) == <<t.year, t.month, t.day>>

NextDate(d) ==
    IF d[3] < MonthLength(d[1], d[2]) THEN <<d[1], d[2], d[3] + 1>>
    ELSE IF d[2] < 12 THEN <<d[1], d[2] + 1, 1>>
    ELSE <<U16(d[1] + 1), 1, 1>>

SecondOfDay(t) == 3600 * t.hour + 60 * t.minute + t.second

\* Days since 1 March of year 0, with the year taken to start in March: a
\* closed form that uses no table of month lengths.
DayNumber(t) ==
    LET y == IF t.month <= 2 THEN t.year - 1 ELSE t.year
        m == (t.month + 9) % 12
    IN  365 * y + y \div 4 - y \div 100 + y \div 400
            + (153 * m + 2) \div 5 + t.day - 1

\* Seconds from instant t to instant u.
Elapsed(t, u) ==
    86400 * (DayNumber(u) - DayNumber(t)) + SecondOfDay(u) - SecondOfDay(t)

\* l shows the instant one hour before m.
OneHourBehind(m, l) ==
    /\ l.second = m.second
    /\ l.minute = m.minute
    /\ \/ l.hour + 1 = m.hour /\ DateOf(l) = DateOf(m)
       \/ l.hour = 23 /\ m.hour = 0 /\ DateOf(m) = NextDate(DateOf(l))
=============================================================================
