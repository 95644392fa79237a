--------------------------- MODULE CalendarProofs ---------------------------
(***************************************************************************)
(* What the carries of Time_counting compute, for every struct TIME the    *)
(* loop can hold, compared with the reference calendar of module Calendar. *)
(***************************************************************************)
EXTENDS MCCalendar, TLAPS

\* The bounds that the widths of struct TIME's members give.
LEMMA TimeFields ==
    ASSUME NEW t \in TIME
    PROVE  /\ t.second \in Nat /\ t.minute \in Nat /\ t.hour \in Nat
           /\ t.day \in Nat /\ t.month \in Nat /\ t.year \in Nat
           /\ t.year < 65536
PROOF BY DEF TIME, Byte, Word

\* The table of the code holds the length of each month of a common year.
LEMMA DaysInMonthTable ==
    ASSUME NEW m \in 1..12
    PROVE  /\ DaysInMonth[m] \in 28..31
           /\ m = 2 => DaysInMonth[m] = 28
           /\ m # 2 => \A y \in Nat : DaysInMonth[m] = MonthLength(y, m)
PROOF BY DEF DaysInMonth, MonthLength

\* The test "day past the table and not 29 February of a leap year" of
\* Time_counting is the test "day past the end of the month".
LEMMA PastMonthEnd ==
    ASSUME NEW t \in TIME, t.month \in 1..12,
           t.day \in 1..(MonthLength(t.year, t.month) + 1)
    PROVE  (t.day > DaysInMonth[t.month] /\ ~LeapDay(t))
              <=> t.day = MonthLength(t.year, t.month) + 1
PROOF
  <1>1. CASE t.month # 2
    BY <1>1, DaysInMonthTable DEF TIME, Byte, Word, MonthLength, LeapDay
  <1>2. CASE t.month = 2
    <2>1. DaysInMonth[t.month] = 28  BY <1>2, DaysInMonthTable
    <2>2. IsLeap(t.year) <=> \/ t.year % 4 = 0 /\ t.year % 100 # 0
                             \/ t.year % 4 = 0 /\ t.year % 400 = 0
      BY DEF TIME, Byte, Word, IsLeap
    <2>3. QED  BY <1>2, <2>1, <2>2 DEF TIME, Byte, Word, MonthLength, LeapDay
  <1>3. QED  BY <1>1, <1>2

\* A normal instant is left alone: Time_counting may run any number of times
\* between two seconds.
LEMMA CarryNothing ==
    ASSUME NEW t \in TIME, Normal(t)
    PROVE  Time_counting(t) = t
PROOF
  <1>1. CarrySecond(t) = t  BY DEF TIME, Byte, Word, Normal, CarrySecond
  <1>2. CarryMinute(t) = t  BY DEF TIME, Byte, Word, Normal, CarryMinute
  <1>3. CarryHour(t) = t  BY DEF TIME, Byte, Word, Normal, CarryHour
  <1>4. CarryDay(t) = t
    <2>1. t.day # MonthLength(t.year, t.month) + 1
      BY DEF TIME, Byte, Word, Normal, MonthLength
    <2>2. t.day \in 1..(MonthLength(t.year, t.month) + 1) /\ t.month \in 1..12
      BY DEF TIME, Byte, Word, Normal, MonthLength
    <2>3. QED  BY <2>1, <2>2, PastMonthEnd DEF CarryDay
  <1>5. CarryMonth(t) = t  BY DEF TIME, Byte, Word, Normal, CarryMonth
  <1>6. QED  BY <1>1, <1>2, <1>3, <1>4, <1>5 DEF Time_counting

\* The 60th second inside an hour.
LEMMA CarryToMinute ==
    ASSUME NEW t \in TIME, NormalOr60(t), t.second = 60, t.minute < 59
    PROVE  Time_counting(t) = [t EXCEPT !.second = 0, !.minute = t.minute + 1]
PROOF
  <1> DEFINE u == [t EXCEPT !.second = 0, !.minute = t.minute + 1]
  <1>1. t.second >= 60 /\ U8(t.minute + 1) = t.minute + 1
    BY TimeFields DEF U8
  <1>2. CarrySecond(t) = u  BY <1>1, Zenon DEF CarrySecond
  <1>3. 0 \in Byte /\ t.minute + 1 \in Byte  BY TimeFields DEF Byte
  <1>4. u \in TIME  BY <1>3, Zenon DEF TIME
  <1>5. /\ u.second = 0 /\ u.minute = t.minute + 1 /\ u.hour = t.hour
        /\ u.day = t.day /\ u.month = t.month /\ u.year = t.year
    BY DEF TIME
  <1>6. Normal(u)  BY <1>5, TimeFields DEF NormalOr60, Normal
  <1>7. CarrySecond(u) = u  BY <1>5 DEF CarrySecond
  <1>8. Time_counting(u) = u  BY <1>4, <1>6, CarryNothing
  <1>9. QED  BY <1>2, <1>7, <1>8, Zenon DEF Time_counting

\* The 60th second of the last minute of an hour inside a day.
LEMMA CarryToHour ==
    ASSUME NEW t \in TIME, NormalOr60(t), t.second = 60, t.minute = 59, t.hour < 23
    PROVE  Time_counting(t)
              = [t EXCEPT !.second = 0, !.minute = 0, !.hour = t.hour + 1]
PROOF
  <1> DEFINE v == [t EXCEPT !.second = 0, !.minute = 60]
             u == [t EXCEPT !.second = 0, !.minute = 0, !.hour = t.hour + 1]
  <1>1. t.second >= 60 /\ U8(t.minute + 1) = 60 /\ U8(t.hour + 1) = t.hour + 1
    BY TimeFields DEF U8
  <1>2. CarrySecond(t) = v  BY <1>1, Zenon DEF CarrySecond
  <1>3. v.minute >= 60 /\ v.hour = t.hour  BY DEF TIME
  <1>4. CarryMinute(v) = [v EXCEPT !.minute = 0, !.hour = t.hour + 1]
    BY <1>1, <1>3, Zenon DEF CarryMinute
  <1>5. CarryMinute(v) = u  BY <1>4, Zenon DEF TIME
  <1>6. 0 \in Byte /\ t.hour + 1 \in Byte  BY TimeFields DEF Byte
  <1>7. u \in TIME  BY <1>6, Zenon DEF TIME
  <1>8. /\ u.second = 0 /\ u.minute = 0 /\ u.hour = t.hour + 1
        /\ u.day = t.day /\ u.month = t.month /\ u.year = t.year
    BY DEF TIME
  <1>9. Normal(u)  BY <1>8, TimeFields DEF NormalOr60, Normal
  <1>10. CarrySecond(u) = u /\ CarryMinute(u) = u
    BY <1>8 DEF CarrySecond, CarryMinute
  <1>11. Time_counting(u) = u  BY <1>7, <1>9, CarryNothing
  <1>12. QED  BY <1>2, <1>5, <1>10, <1>11, Zenon DEF Time_counting

\* The first three carries of the 60th second of the last minute of a day.
LEMMA CarryToMidnight ==
    ASSUME NEW t \in TIME, NormalOr60(t), t.second = 60, t.minute = 59, t.hour = 23
    PROVE  CarryHour(CarryMinute(CarrySecond(t)))
              = [t EXCEPT !.second = 0, !.minute = 0, !.hour = 0, !.day = t.day + 1]
PROOF
  <1> DEFINE v == [t EXCEPT !.second = 0, !.minute = 60]
             w == [t EXCEPT !.second = 0, !.minute = 0, !.hour = 24]
  <1>1. t.second >= 60 /\ U8(t.minute + 1) = 60 /\ U8(t.hour + 1) = 24
    BY TimeFields DEF U8
  <1>2. CarrySecond(t) = v  BY <1>1, Zenon DEF CarrySecond
  <1>3. v.minute >= 60 /\ v.hour = t.hour  BY DEF TIME
  <1>4. CarryMinute(v) = [v EXCEPT !.minute = 0, !.hour = 24]
    BY <1>1, <1>3, Zenon DEF CarryMinute
  <1>5. CarryMinute(v) = w  BY <1>4, Zenon DEF TIME
  <1>6. w.hour >= 24 /\ w.hour - 24 = 0 /\ w.day = t.day  BY DEF TIME
  <1>7. U8(t.day + 1) = t.day + 1
    BY TimeFields DEF NormalOr60, MonthLength, U8
  <1>8. CarryHour(w) = [w EXCEPT !.hour = 0, !.day = t.day + 1]
    BY <1>6, <1>7, Zenon DEF CarryHour
  <1>9. CarryHour(w)
           = [t EXCEPT !.second = 0, !.minute = 0, !.hour = 0, !.day = t.day + 1]
    BY <1>8, Zenon DEF TIME
  <1>10. QED  BY <1>2, <1>5, <1>9, Zenon

\* The 60th second of the last minute of a day: midnight of the next date.
LEMMA CarryToDay ==
    ASSUME NEW t \in TIME, NormalOr60(t), t.second = 60, t.minute = 59, t.hour = 23
    PROVE  /\ Time_counting(t) \in TIME
           /\ Normal(Time_counting(t))
           /\ Time_counting(t).second = 0
           /\ Time_counting(t).minute = 0
           /\ Time_counting(t).hour = 0
           /\ DateOf(Time_counting(t)) = NextDate(DateOf(t))
PROOF
  <1> DEFINE h == [t EXCEPT !.second = 0, !.minute = 0, !.hour = 0, !.day = t.day + 1]
  <1>2. Time_counting(t) = CarryMonth(CarryDay(h))
    BY CarryToMidnight, Zenon DEF Time_counting
  <1>a. t.day \in 1..31 /\ t.month \in 1..12 /\ t.year \in Nat /\ t.year < 65536
    BY TimeFields DEF NormalOr60, MonthLength
  <1>b. MonthLength(t.year, t.month) \in 28..31  BY DEF MonthLength
  <1>c. 0 \in Byte /\ 1 \in Byte /\ t.day + 1 \in Byte  BY <1>a DEF Byte
  <1>d. h \in TIME  BY <1>c, Zenon DEF TIME
  <1>3. /\ h.month = t.month /\ h.year = t.year /\ h.day = t.day + 1
        /\ h.second = 0 /\ h.minute = 0 /\ h.hour = 0
    BY DEF TIME
  <1>4. h.month \in 1..12 /\ h.day \in 1..(MonthLength(h.year, h.month) + 1)
    BY <1>3, <1>a, <1>b DEF NormalOr60
  <1>5. (h.day > DaysInMonth[h.month] /\ ~LeapDay(h))
            <=> t.day = MonthLength(t.year, t.month)
    <2>1. (h.day > DaysInMonth[h.month] /\ ~LeapDay(h))
             <=> h.day = MonthLength(h.year, h.month) + 1
      BY <1>d, <1>4, PastMonthEnd
    <2>2. QED  BY <2>1, <1>3, <1>a, <1>b
  <1>6. CASE t.day # MonthLength(t.year, t.month)
    <2>1. CarryDay(h) = h  BY <1>5, <1>6 DEF CarryDay
    <2>2. CarryMonth(h) = h  BY <1>4 DEF CarryMonth
    <2>3. t.day < MonthLength(t.year, t.month)
      BY <1>6, <1>a, <1>b DEF NormalOr60
    <2>4. DateOf(h) = NextDate(DateOf(t))
      BY <1>3, <2>3 DEF DateOf, NextDate
    <2>5. Normal(h)  BY <1>3, <1>a, <1>b, <2>3 DEF Normal
    <2>6. QED  BY <1>2, <1>d, <1>3, <2>1, <2>2, <2>4, <2>5
  <1>7. CASE t.day = MonthLength(t.year, t.month) /\ t.month < 12
    <2> DEFINE u == [h EXCEPT !.month = t.month + 1, !.day = 1]
    <2>1. U8(h.month + 1) = t.month + 1  BY <1>3, <1>a DEF U8
    <2>2. CarryDay(h) = u  BY <1>5, <1>7, <2>1, Zenon DEF CarryDay
    <2>3. t.month + 1 \in Byte  BY <1>a DEF Byte
    <2>4. u \in TIME  BY <1>c, <1>d, <2>3, Zenon DEF TIME
    <2>5. /\ u.month = t.month + 1 /\ u.day = 1 /\ u.year = h.year
          /\ u.second = h.second /\ u.minute = h.minute /\ u.hour = h.hour
      BY <1>d DEF TIME
    <2>6. CarryMonth(u) = u  BY <1>7, <1>a, <2>5 DEF CarryMonth
    <2>7. DateOf(u) = NextDate(DateOf(t))
      BY <1>7, <1>3, <1>b, <2>5 DEF DateOf, NextDate
    <2>8. MonthLength(u.year, u.month) \in 28..31  BY DEF MonthLength
    <2>9. Normal(u)  BY <1>7, <1>3, <1>a, <2>5, <2>8 DEF Normal
    <2>10. QED  BY <1>2, <1>3, <2>2, <2>4, <2>5, <2>6, <2>7, <2>9
  <1>8. CASE t.day = MonthLength(t.year, t.month) /\ t.month = 12
    <2> DEFINE v == [h EXCEPT !.month = 13, !.day = 1]
               u == [h EXCEPT !.month = 1, !.day = 1, !.year = U16(t.year + 1)]
    <2>1. U8(h.month + 1) = 13  BY <1>3, <1>8 DEF U8
    <2>2. CarryDay(h) = v  BY <1>5, <1>8, <2>1, Zenon DEF CarryDay
    <2>3. v.month >= 13 /\ v.year = t.year
      BY <1>d, <1>3 DEF TIME
    <2>4. CarryMonth(v) = [v EXCEPT !.month = 1, !.year = U16(t.year + 1)]
      BY <2>3, Zenon DEF CarryMonth
    <2>5. CarryMonth(v) = u  BY <1>d, <2>4, Zenon DEF TIME
    <2>6. U16(t.year + 1) \in Word  BY <1>a DEF Word, U16
    <2>7. u \in TIME  BY <1>c, <1>d, <2>6, Zenon DEF TIME
    <2>8. /\ u.month = 1 /\ u.day = 1 /\ u.year = U16(t.year + 1)
          /\ u.second = h.second /\ u.minute = h.minute /\ u.hour = h.hour
      BY <1>d DEF TIME
    <2>9. DateOf(u) = NextDate(DateOf(t))
      BY <1>8, <1>b, <2>8 DEF DateOf, NextDate
    <2>10. Normal(u)
      <3>1. MonthLength(u.year, u.month) = 31  BY <2>8 DEF MonthLength
      <3>2. QED  BY <1>3, <2>8, <3>1 DEF Normal
    <2>11. QED  BY <1>2, <1>3, <2>2, <2>5, <2>7, <2>8, <2>9, <2>10
  <1>9. QED  BY <1>a, <1>6, <1>7, <1>8

\* Time_counting makes every struct TIME the loop can hold normal again.
LEMMA CarryNormalises ==
    ASSUME NEW t \in TIME, NormalOr60(t)
    PROVE  Time_counting(t) \in TIME /\ Normal(Time_counting(t))
PROOF
  <1>1. CASE t.second < 60
    <2>1. Normal(t)  BY <1>1, TimeFields DEF Normal, NormalOr60
    <2>2. QED  BY <2>1, CarryNothing
  <1>2. CASE t.second = 60 /\ t.minute < 59
    <2> DEFINE u == [t EXCEPT !.second = 0, !.minute = t.minute + 1]
    <2>1. 0 \in Byte /\ t.minute + 1 \in Byte  BY <1>2, TimeFields DEF Byte
    <2>2. u \in TIME  BY <2>1, Zenon DEF TIME
    <2>3. /\ u.second = 0 /\ u.minute = t.minute + 1 /\ u.hour = t.hour
          /\ u.day = t.day /\ u.month = t.month /\ u.year = t.year
      BY DEF TIME
    <2>4. Normal(u)  BY <1>2, <2>3, TimeFields DEF NormalOr60, Normal
    <2>5. QED  BY <1>2, <2>2, <2>4, CarryToMinute
  <1>3. CASE t.second = 60 /\ t.minute = 59 /\ t.hour < 23
    <2> DEFINE u == [t EXCEPT !.second = 0, !.minute = 0, !.hour = t.hour + 1]
    <2>1. 0 \in Byte /\ t.hour + 1 \in Byte  BY <1>3, TimeFields DEF Byte
    <2>2. u \in TIME  BY <2>1, Zenon DEF TIME
    <2>3. /\ u.second = 0 /\ u.minute = 0 /\ u.hour = t.hour + 1
          /\ u.day = t.day /\ u.month = t.month /\ u.year = t.year
      BY DEF TIME
    <2>4. Normal(u)  BY <1>3, <2>3, TimeFields DEF NormalOr60, Normal
    <2>5. QED  BY <1>3, <2>2, <2>4, CarryToHour
  <1>4. CASE t.second = 60 /\ t.minute = 59 /\ t.hour = 23
    BY <1>4, CarryToDay
  <1>5. QED  BY <1>1, <1>2, <1>3, <1>4, TimeFields DEF NormalOr60

\* What one Time_counting does to the fields, seen from outside: nothing, or
\* the next minute, hour or midnight.
LEMMA CarryFields ==
    ASSUME NEW t \in TIME, NormalOr60(t)
    PROVE  LET u == Time_counting(t)
           IN  \/ t.second < 60 /\ u = t
               \/ /\ t.second = 60 /\ t.minute < 59
                  /\ u.second = 0 /\ u.minute = t.minute + 1
                  /\ u.hour = t.hour /\ DateOf(u) = DateOf(t)
               \/ /\ t.second = 60 /\ t.minute = 59 /\ t.hour < 23
                  /\ u.second = 0 /\ u.minute = 0
                  /\ u.hour = t.hour + 1 /\ DateOf(u) = DateOf(t)
               \/ /\ t.second = 60 /\ t.minute = 59 /\ t.hour = 23
                  /\ u.second = 0 /\ u.minute = 0
                  /\ u.hour = 0 /\ DateOf(u) = NextDate(DateOf(t))
PROOF
  <1>1. CASE t.second < 60
    <2>1. Normal(t)  BY <1>1, TimeFields DEF Normal, NormalOr60
    <2>2. QED  BY <1>1, <2>1, CarryNothing
  <1>2. CASE t.second = 60 /\ t.minute < 59
    <2> DEFINE u == [t EXCEPT !.second = 0, !.minute = t.minute + 1]
    <2>1. /\ u.second = 0 /\ u.minute = t.minute + 1 /\ u.hour = t.hour
          /\ u.day = t.day /\ u.month = t.month /\ u.year = t.year
      BY DEF TIME
    <2>2. DateOf(u) = DateOf(t)  BY <2>1 DEF DateOf
    <2>3. Time_counting(t) = u  BY <1>2, CarryToMinute
    <2>4. QED  BY <1>2, <2>1, <2>2, <2>3
  <1>3. CASE t.second = 60 /\ t.minute = 59 /\ t.hour < 23
    <2> DEFINE u == [t EXCEPT !.second = 0, !.minute = 0, !.hour = t.hour + 1]
    <2>1. /\ u.second = 0 /\ u.minute = 0 /\ u.hour = t.hour + 1
          /\ u.day = t.day /\ u.month = t.month /\ u.year = t.year
      BY DEF TIME
    <2>2. DateOf(u) = DateOf(t)  BY <2>1 DEF DateOf
    <2>3. Time_counting(t) = u  BY <1>3, CarryToHour
    <2>4. QED  BY <1>3, <2>1, <2>2, <2>3
  <1>4. CASE t.second = 60 /\ t.minute = 59 /\ t.hour = 23
    BY <1>4, CarryToDay
  <1>5. QED  BY <1>1, <1>2, <1>3, <1>4, TimeFields DEF NormalOr60

\* The heart of LocalOneHourBehind: carrying both times keeps them one hour
\* apart, on whichever side of an hour, day, month or year boundary each is.
LEMMA CarryKeepsHour ==
    ASSUME NEW m \in TIME, NEW l \in TIME, NormalOr60(m), NormalOr60(l),
           OneHourBehind(m, l)
    PROVE  OneHourBehind(Time_counting(m), Time_counting(l))
PROOF
  <1> DEFINE um == Time_counting(m)
             ul == Time_counting(l)
  <1>1. l.second = m.second /\ l.minute = m.minute  BY DEF OneHourBehind
  <1>2. /\ m.hour \in 0..23 /\ l.hour \in 0..23
        /\ m.minute \in 0..59 /\ m.second \in 0..60
    BY DEF NormalOr60
  <1>3. CASE m.second < 60
    BY <1>1, <1>3, CarryFields
  <1>4. CASE m.second = 60 /\ m.minute < 59
    <2>1. /\ um.second = 0 /\ um.minute = m.minute + 1
          /\ um.hour = m.hour /\ DateOf(um) = DateOf(m)
      BY <1>4, CarryFields
    <2>2. /\ ul.second = 0 /\ ul.minute = l.minute + 1
          /\ ul.hour = l.hour /\ DateOf(ul) = DateOf(l)
      BY <1>1, <1>4, CarryFields
    <2>3. QED  BY <1>1, <2>1, <2>2 DEF OneHourBehind
  <1>5. CASE m.second = 60 /\ m.minute = 59
    <2>1. um.second = 0 /\ um.minute = 0 /\ ul.second = 0 /\ ul.minute = 0
      BY <1>1, <1>5, CarryFields
    <2>2. /\ m.hour < 23 => um.hour = m.hour + 1 /\ DateOf(um) = DateOf(m)
          /\ m.hour = 23 => um.hour = 0 /\ DateOf(um) = NextDate(DateOf(m))
      BY <1>5, CarryFields
    <2>3. /\ l.hour < 23 => ul.hour = l.hour + 1 /\ DateOf(ul) = DateOf(l)
          /\ l.hour = 23 => ul.hour = 0 /\ DateOf(ul) = NextDate(DateOf(l))
      BY <1>1, <1>5, CarryFields
    <2>4. QED  BY <1>2, <2>1, <2>2, <2>3 DEF OneHourBehind
  <1>6. QED  BY <1>2, <1>3, <1>4, <1>5

\* The increment of Counting_seconds on a normal instant.
LEMMA AddSecondFields ==
    ASSUME NEW t \in TIME, Normal(t)
    PROVE  LET u == AddSecond(t)
           IN  /\ u \in TIME /\ NormalOr60(u)
               /\ u.second = t.second + 1 /\ u.minute = t.minute
               /\ u.hour = t.hour /\ DateOf(u) = DateOf(t)
               /\ u.day = t.day /\ u.month = t.month /\ u.year = t.year
PROOF
  <1>1. U8(t.second + 1) = t.second + 1  BY TimeFields DEF Normal, U8
  <1>2. t.second + 1 \in Byte  BY TimeFields DEF Normal, Byte
  <1> DEFINE u == [t EXCEPT !.second = t.second + 1]
  <1>3. AddSecond(t) = u  BY <1>1, Zenon DEF AddSecond
  <1>4. u \in TIME  BY <1>2, Zenon DEF TIME
  <1>5. /\ u.second = t.second + 1 /\ u.minute = t.minute /\ u.hour = t.hour
        /\ u.day = t.day /\ u.month = t.month /\ u.year = t.year
    BY DEF TIME
  <1>6. NormalOr60(u)  BY <1>5, TimeFields DEF Normal, NormalOr60
  <1>7. DateOf(u) = DateOf(t)  BY <1>5 DEF DateOf
  <1>8. QED  BY <1>3, <1>4, <1>5, <1>6, <1>7

\* Adding a second to both times keeps them an hour apart.
LEMMA AddSecondKeepsHour ==
    ASSUME NEW m \in TIME, NEW l \in TIME, Normal(m), Normal(l), OneHourBehind(m, l)
    PROVE  OneHourBehind(AddSecond(m), AddSecond(l))
PROOF BY AddSecondFields DEF OneHourBehind

\* A leap day is one more day in the closed form of DayNumber.
LEMMA LeapYearLength ==
    ASSUME NEW y \in Nat, y > 0
    PROVE  (y \div 4 - y \div 100 + y \div 400)
              - ((y - 1) \div 4 - (y - 1) \div 100 + (y - 1) \div 400)
           = IF IsLeap(y) THEN 1 ELSE 0
PROOF
  <1>1. y \div 4 - (y - 1) \div 4 = IF y % 4 = 0 THEN 1 ELSE 0  OBVIOUS
  <1>2. y \div 100 - (y - 1) \div 100 = IF y % 100 = 0 THEN 1 ELSE 0  OBVIOUS
  <1>3. y \div 400 - (y - 1) \div 400 = IF y % 400 = 0 THEN 1 ELSE 0  OBVIOUS
  <1>4. /\ y % 400 = 0 => y % 100 = 0
        /\ y % 100 = 0 => y % 4 = 0
    OBVIOUS
  <1>5. /\ y \div 4 \in Int /\ (y - 1) \div 4 \in Int
        /\ y \div 100 \in Int /\ (y - 1) \div 100 \in Int
        /\ y \div 400 \in Int /\ (y - 1) \div 400 \in Int
    OBVIOUS
  <1>6. QED  BY <1>1, <1>2, <1>3, <1>4, <1>5 DEF IsLeap

\* Successive dates have successive day numbers.
LEMMA NextDayNumber ==
    ASSUME NEW t \in TIME, NEW u \in TIME, t.month \in 1..12,
           t.day \in 1..MonthLength(t.year, t.month),
           t.year > 0, t.year < 65535, DateOf(u) = NextDate(DateOf(t))
    PROVE  DayNumber(u) = DayNumber(t) + 1
PROOF
  <1>0. t.year \in Nat /\ t.day \in Nat /\ u.year \in Nat /\ t.month \in Nat
    BY TimeFields
  <1>1. CASE t.day < MonthLength(t.year, t.month)
    <2>1. u.year = t.year /\ u.month = t.month /\ u.day = t.day + 1
      BY <1>1 DEF DateOf, NextDate
    <2>2. QED  BY <1>0, <2>1 DEF DayNumber
  <1>2. CASE t.day = MonthLength(t.year, t.month) /\ t.month = 12
    <2>1. u.year = t.year + 1 /\ u.month = 1 /\ u.day = 1
      BY <1>0, <1>2 DEF DateOf, NextDate, U16, MonthLength
    <2>2. t.day = 31  BY <1>2 DEF MonthLength
    <2>3. QED  BY <1>0, <1>2, <2>1, <2>2 DEF DayNumber
  <1>3. CASE t.day = MonthLength(t.year, t.month) /\ t.month < 12
    <2>1. u.year = t.year /\ u.month = t.month + 1 /\ u.day = 1
      BY <1>0, <1>3 DEF DateOf, NextDate, MonthLength
    <2>2. CASE t.month = 2
      <3>1. t.day = 28 + IF IsLeap(t.year) THEN 1 ELSE 0
        BY <1>3, <2>2 DEF MonthLength
      <3>2. DayNumber(t) = 365 * (t.year - 1) + (t.year - 1) \div 4
               - (t.year - 1) \div 100 + (t.year - 1) \div 400 + 337 + t.day - 1
        BY <1>0, <2>2 DEF DayNumber
      <3>3. DayNumber(u) = 365 * t.year + t.year \div 4
               - t.year \div 100 + t.year \div 400
        BY <1>0, <2>1, <2>2 DEF DayNumber
      <3>4. (t.year \div 4 - t.year \div 100 + t.year \div 400)
              - ((t.year - 1) \div 4 - (t.year - 1) \div 100 + (t.year - 1) \div 400)
            = IF IsLeap(t.year) THEN 1 ELSE 0
        BY <1>0, LeapYearLength
      <3>5. /\ t.year \div 4 \in Int /\ (t.year - 1) \div 4 \in Int
            /\ t.year \div 100 \in Int /\ (t.year - 1) \div 100 \in Int
            /\ t.year \div 400 \in Int /\ (t.year - 1) \div 400 \in Int
        BY <1>0
      <3>6. QED  BY <1>0, <3>1, <3>2, <3>3, <3>4, <3>5
    <2>3. CASE t.month = 1
      <3>1. t.day = 31  BY <1>3, <2>3 DEF MonthLength
      <3>2. QED  BY <1>0, <2>1, <2>3, <3>1 DEF DayNumber
    <2>4. CASE t.month > 2
      <3>1. t.day = IF t.month = 4 \/ t.month = 6 \/ t.month = 9 \/ t.month = 11
                    THEN 30 ELSE 31
        BY <1>3, <2>4 DEF MonthLength
      <3>2. (t.month + 1 + 9) % 12 = t.month - 2 /\ (t.month + 9) % 12 = t.month - 3
        BY <1>3, <2>4
      <3>3. (153 * (t.month - 2) + 2) \div 5 = (153 * (t.month - 3) + 2) \div 5 + t.day
        <4>1. t.month \in {3, 4, 5, 6, 7, 8, 9, 10, 11}  BY <1>3, <2>4
        <4>2. QED  BY <3>1, <4>1
      <3>4. QED  BY <1>0, <2>1, <2>4, <3>2, <3>3 DEF DayNumber
    <2>5. QED  BY <1>0, <2>2, <2>3, <2>4
  <1>4. QED  BY <1>0, <1>1, <1>2, <1>3 DEF MonthLength

\* Day numbers are integers, and they depend on the date only.
LEMMA DayNumberType ==
    ASSUME NEW t \in TIME
    PROVE  DayNumber(t) \in Int
PROOF BY TimeFields DEF DayNumber

\* The day number depends on the date only.
LEMMA DayNumberOfDate ==
    ASSUME NEW t \in TIME, NEW u \in TIME, DateOf(u) = DateOf(t)
    PROVE  DayNumber(u) = DayNumber(t)
PROOF
  <1>1. u.year = t.year /\ u.month = t.month /\ u.day = t.day  BY DEF DateOf
  <1>2. QED  BY <1>1 DEF DayNumber

\* Time_counting changes the spelling of an instant, never the instant.
LEMMA CarryKeepsInstant ==
    ASSUME NEW b \in TIME, NEW t \in TIME, NormalOr60(t), t.year > 0, t.year < 65535
    PROVE  Elapsed(b, Time_counting(t)) = Elapsed(b, t)
PROOF
  <1> DEFINE u == Time_counting(t)
  <1>1. u \in TIME  BY CarryNormalises
  <1>2. /\ DayNumber(b) \in Int /\ DayNumber(t) \in Int /\ DayNumber(u) \in Int
    BY <1>1, DayNumberType
  <1>3. /\ t.month \in 1..12 /\ t.day \in 1..MonthLength(t.year, t.month)
        /\ t.hour \in 0..23 /\ t.minute \in 0..59 /\ t.second \in 0..60
    BY DEF NormalOr60
  <1>4. CASE t.second < 60
    <2>1. u = t  BY <1>4, CarryFields
    <2>2. QED  BY <2>1
  <1>5. CASE t.second = 60 /\ t.minute < 59
    <2>1. /\ u.second = 0 /\ u.minute = t.minute + 1
          /\ u.hour = t.hour /\ DateOf(u) = DateOf(t)
      BY <1>5, CarryFields
    <2>2. DayNumber(u) = DayNumber(t)  BY <1>1, <2>1, DayNumberOfDate
    <2>3. SecondOfDay(u) = SecondOfDay(t)  BY <1>3, <1>5, <2>1 DEF SecondOfDay
    <2>4. QED  BY <2>2, <2>3 DEF Elapsed
  <1>6. CASE t.second = 60 /\ t.minute = 59 /\ t.hour < 23
    <2>1. /\ u.second = 0 /\ u.minute = 0
          /\ u.hour = t.hour + 1 /\ DateOf(u) = DateOf(t)
      BY <1>6, CarryFields
    <2>2. DayNumber(u) = DayNumber(t)  BY <1>1, <2>1, DayNumberOfDate
    <2>3. SecondOfDay(u) = SecondOfDay(t)  BY <1>3, <1>6, <2>1 DEF SecondOfDay
    <2>4. QED  BY <2>2, <2>3 DEF Elapsed
  <1>7. CASE t.second = 60 /\ t.minute = 59 /\ t.hour = 23
    <2>1. /\ u.second = 0 /\ u.minute = 0
          /\ u.hour = 0 /\ DateOf(u) = NextDate(DateOf(t))
      BY <1>7, CarryFields
    <2>2. DayNumber(u) = DayNumber(t) + 1  BY <1>1, <1>3, <2>1, NextDayNumber
    <2>3. SecondOfDay(t) = 86400 /\ SecondOfDay(u) = 0
      BY <1>7, <2>1 DEF SecondOfDay
    <2>4. SecondOfDay(b) \in Int  BY TimeFields DEF SecondOfDay
    <2>5. QED  BY <1>2, <2>2, <2>3, <2>4 DEF Elapsed
  <1>8. QED  BY <1>3, <1>4, <1>5, <1>6, <1>7

\* The increment of Counting_seconds is one second.
LEMMA AddSecondElapsed ==
    ASSUME NEW b \in TIME, NEW t \in TIME, Normal(t)
    PROVE  Elapsed(b, AddSecond(t)) = Elapsed(b, t) + 1
PROOF
  <1> DEFINE u == AddSecond(t)
  <1>1. /\ u \in TIME /\ u.second = t.second + 1 /\ u.minute = t.minute
        /\ u.hour = t.hour /\ DateOf(u) = DateOf(t)
    BY AddSecondFields
  <1>2. DayNumber(u) = DayNumber(t)  BY <1>1, DayNumberOfDate
  <1>3. DayNumber(b) \in Int /\ DayNumber(t) \in Int  BY DayNumberType
  <1>4. SecondOfDay(u) = SecondOfDay(t) + 1 /\ SecondOfDay(t) \in Int
    BY <1>1, TimeFields DEF SecondOfDay
  <1>5. SecondOfDay(b) \in Int  BY TimeFields DEF SecondOfDay
  <1>6. QED  BY <1>2, <1>3, <1>4, <1>5 DEF Elapsed

\* One turn of counting: the next instant, spelt normally, one second on, and
\* in the same year or the next.
LEMMA CountOne ==
    ASSUME NEW t \in TIME, Normal(t), t.year > 0, t.year < 65535
    PROVE  LET u == Time_counting(AddSecond(t))
           IN  /\ u \in TIME /\ Normal(u)
               /\ u.year \in {t.year, t.year + 1}
               /\ Elapsed(t, u) = 1
PROOF
  <1>1. PICK a : a = AddSecond(t)  OBVIOUS
  <1>2. /\ a \in TIME /\ NormalOr60(a) /\ a.year = t.year
    BY <1>1, AddSecondFields
  <1>3. PICK u : u = Time_counting(a)  OBVIOUS
  <1>4. u \in TIME /\ Normal(u)  BY <1>2, <1>3, CarryNormalises
  <1>5. u.year \in {t.year, t.year + 1}
    <2>1. DateOf(u) = DateOf(a) \/ DateOf(u) = NextDate(DateOf(a))
      BY <1>2, <1>3, CarryFields
    <2>2. a.year \in Nat /\ a.year + 1 < 65536  BY <1>2, TimeFields
    <2>3. U16(a.year + 1) = a.year + 1  BY <2>2 DEF U16
    <2>4. DateOf(u)[1] = u.year /\ DateOf(a)[1] = a.year  BY DEF DateOf
    <2>5. NextDate(DateOf(a))[1] \in {a.year, a.year + 1}
      <3>1. PICK d : d = DateOf(a)  OBVIOUS
      <3>2. d[1] = a.year  BY <2>4, <3>1
      <3>3. NextDate(d)[1] \in {d[1], U16(d[1] + 1)}  BY DEF NextDate
      <3> QED  BY <2>3, <3>1, <3>2, <3>3
    <2> QED  BY <1>2, <2>1, <2>4, <2>5
  <1>6. Elapsed(t, u) = 1
    <2>1. Elapsed(t, u) = Elapsed(t, a)  BY <1>2, <1>3, CarryKeepsInstant
    <2>2. Elapsed(t, a) = Elapsed(t, t) + 1  BY <1>1, AddSecondElapsed
    <2>3. Elapsed(t, t) = 0
      <3>1. DayNumber(t) \in Int /\ SecondOfDay(t) \in Int
        BY DayNumberType, TimeFields DEF SecondOfDay
      <3> QED  BY <3>1 DEF Elapsed
    <2> QED  BY <2>1, <2>2, <2>3
  <1> QED  BY <1>1, <1>3, <1>4, <1>5, <1>6

-----------------------------------------------------------------------------
(* The behaviours of module MCCalendar: a struct TIME counted on from the  *)
(* last seconds of an hour of any day of the years in Years.               *)

\* The years to start from: from 1 on, and so that the few seconds counted end
\* before the year wraps.
YearsInRange == \A y \in Years : y \in Nat /\ y > 0 /\ y + 4 < 65535

\* The invariant: a normal instant, and a year that has moved on by at most
\* one with each second.
CountedOn ==
    /\ shown \in TIME /\ Normal(shown) /\ count \in Nat /\ count <= 4
    /\ shown.year > 0 /\ shown.year + 4 < 65535 + count

\* The struct starts as an instant that exists.
LEMMA CountedInit == YearsInRange /\ CountInit => CountedOn
PROOF
  <1>1. SUFFICES ASSUME YearsInRange, CountInit PROVE CountedOn  OBVIOUS
  <1>2. shown \in Starts  BY <1>1 DEF CountInit
  <1>3. /\ {58, 59} \subseteq Byte /\ {0, 22, 23} \subseteq Byte
        /\ 1..31 \subseteq Byte /\ 1..12 \subseteq Byte
    BY DEF Byte
  <1>4. Years \subseteq Word  BY <1>1 DEF YearsInRange, Word
  <1>5. shown \in TIME  BY <1>2, <1>3, <1>4 DEF TIME, Starts
  <1>6. shown.year > 0 /\ shown.year + 4 < 65535
    <2>1. shown.year \in Years  BY <1>2 DEF Starts
    <2> QED  BY <1>1, <2>1 DEF YearsInRange
  <1>7. Normal(shown) /\ count = 0  BY <1>1, Zenon DEF CountInit
  <1> QED  BY <1>5, <1>6, <1>7 DEF CountedOn

\* Each second counted keeps it, and is a second.
LEMMA CountedNext ==
    CountedOn /\ [CountNext]_<<shown, count>>
      => CountedOn' /\ (<<shown, count>>' # <<shown, count>> => Elapsed(shown, shown') = 1)
PROOF
  <1>1. SUFFICES ASSUME CountedOn, [CountNext]_<<shown, count>>
                 PROVE  CountedOn' /\ (<<shown, count>>' # <<shown, count>> => Elapsed(shown, shown') = 1)
    OBVIOUS
  <1>2. CASE UNCHANGED <<shown, count>>  BY <1>1, <1>2 DEF CountedOn
  <1>3. CASE CountNext
    <2>1. /\ shown' = Time_counting(AddSecond(shown)) /\ count < 4 /\ count' = count + 1
      BY <1>3, Zenon DEF CountNext, MaxSteps
    <2>2. /\ shown \in TIME /\ Normal(shown) /\ count \in Nat
          /\ shown.year > 0 /\ shown.year + 4 < 65535 + count
      BY <1>1 DEF CountedOn
    <2>3. shown.year \in Nat /\ shown.year < 65535  BY <2>1, <2>2, TimeFields
    <2>4. /\ shown' \in TIME /\ Normal(shown')
          /\ shown'.year \in {shown.year, shown.year + 1} /\ Elapsed(shown, shown') = 1
      BY <2>1, <2>2, <2>3, CountOne
    <2>5. shown'.year > 0 /\ shown'.year + 4 < 65535 + count' /\ count' \in Nat /\ count' <= 4
      BY <2>1, <2>2, <2>3, <2>4
    <2> QED  BY <2>4, <2>5 DEF CountedOn
  <1> QED  BY <1>1, <1>2, <1>3

\* In all years from 1 to 65530 no second leads to a date or a time of day that
\* does not exist (Time_counting, Main.c:515).
THEOREM StaysNormalHolds == ASSUME YearsInRange PROVE CountSpec => []StaysNormal
PROOF
  <1>1. CountInit => CountedOn  BY CountedInit
  <1>2. CountedOn /\ [CountNext]_<<shown, count>> => CountedOn'  BY CountedNext
  <1>3. CountedOn => StaysNormal  BY DEF CountedOn, StaysNormal
  <1> QED  BY <1>1, <1>2, <1>3, PTL DEF CountSpec

\* And every second counted (Main.c:573, 515) is one second of the calendar, over
\* every minute, hour, day, month, year and leap-day boundary.
THEOREM AdvancesOneSecondHolds == ASSUME YearsInRange PROVE CountSpec => AdvancesOneSecond
PROOF
  <1>1. CountInit => CountedOn  BY CountedInit
  <1>2. CountedOn /\ [CountNext]_<<shown, count>> => CountedOn'  BY CountedNext
  <1>3. CountedOn /\ [CountNext]_<<shown, count>> => [Elapsed(shown, shown') = 1]_<<shown, count>>
    BY CountedNext, Zenon
  <1> QED  BY <1>1, <1>2, <1>3, PTL DEF CountSpec, AdvancesOneSecond
=============================================================================
