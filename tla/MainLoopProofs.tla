--------------------------- MODULE MainLoopProofs ---------------------------
(***************************************************************************)
(* The safety properties of the super-loop for every tick width, watchdog  *)
(* timeout and timer period.  The clock is proved from one inductive       *)
(* invariant, IInv; on top of it SentInv says what a receiver can rely on, *)
(* and PeriodInv when lwIP's timers run.                                   *)
(***************************************************************************)
EXTENDS MainLoop, CalendarProofs, FiniteSetTheorems

-----------------------------------------------------------------------------
(* The datagram: types of its construction, and what the wire carries.     *)

\* The members of struct PAYLOAD that the proofs look at.
LEMMA PayloadFields ==
    ASSUME NEW d \in PAYLOAD
    PROVE  /\ d.number \in Byte /\ d.msk \in TIME /\ d.local \in TIME
           /\ d.identificator \in Word /\ d.useful_info \in Word
           /\ d.timering \in Byte /\ d.timering_sign \in Byte
           /\ d.reserve_first \in Byte /\ d.reserve_second \in Byte
           /\ d.reserve_third \in Byte /\ d.check_sum \in Byte
           /\ d.validity \in 0..1 /\ d.efficency \in 0..1
PROOF BY DEF PAYLOAD

\* The exclusive or of any bytes is a byte.
LEMMA XorAllType ==
    ASSUME NEW f, NEW n \in Nat
    PROVE  XorAll(f, n) \in Byte
PROOF
  <1> DEFINE S(k) == {i \in 0..(n - 1) : (f[i] \div k) % 2 = 1}
  <1>1. \A k \in Nat : Cardinality(S(k)) \in Nat
    <2>1. IsFiniteSet(0..(n - 1))  BY FS_Interval
    <2>2. TAKE k \in Nat
    <2>3. S(k) \subseteq 0..(n - 1)  OBVIOUS
    <2>4. IsFiniteSet(S(k))  BY <2>1, <2>3, FS_Subset
    <2>5. QED  BY <2>4, FS_CardinalityType
  <1> DEFINE b(k) == Cardinality(S(k)) % 2
  <1>2. \A k \in Nat : b(k) \in 0..1  BY <1>1
  <1>3. XorAll(f, n) = b(1) + 2 * b(2) + 4 * b(4) + 8 * b(8)
                          + 16 * b(16) + 32 * b(32) + 64 * b(64) + 128 * b(128)
    BY DEF XorAll
  <1>4. /\ b(1) \in 0..1 /\ b(2) \in 0..1 /\ b(4) \in 0..1 /\ b(8) \in 0..1
        /\ b(16) \in 0..1 /\ b(32) \in 0..1 /\ b(64) \in 0..1 /\ b(128) \in 0..1
    BY <1>2
  <1> HIDE DEF b
  <1>5. QED  BY <1>3, <1>4, SMT DEF Byte

\* So is the checksum.
LEMMA CheckSumType ==
    ASSUME NEW d
    PROVE  Get_check_sum(d) \in Byte
PROOF BY XorAllType DEF Get_check_sum, SizeofPayload

\* DATA[] holds 26 bytes after DATA_construct.
LEMMA DataType ==
    ASSUME NEW d \in PAYLOAD
    PROVE  DATA_construct(d) \in [0..25 -> Byte]
PROOF
  <1>1. \A w \in Word : Low(w) \in Byte /\ High(w) \in Byte
    BY SMT DEF Word, Byte, Low, High
  <1>2. 2 * d.validity + d.efficency \in Byte  BY PayloadFields, SMT DEF Byte
  <1>3. /\ d.msk.second \in Byte /\ d.msk.minute \in Byte /\ d.msk.hour \in Byte
        /\ d.msk.day \in Byte /\ d.msk.month \in Byte /\ d.msk.year \in Word
    BY PayloadFields, SMT DEF TIME
  <1>4. /\ d.local.second \in Byte /\ d.local.minute \in Byte /\ d.local.hour \in Byte
        /\ d.local.day \in Byte /\ d.local.month \in Byte /\ d.local.year \in Word
    BY PayloadFields, SMT DEF TIME
  <1>5. /\ Low(d.msk.year) \in Byte /\ High(d.msk.year) \in Byte
        /\ Low(d.local.year) \in Byte /\ High(d.local.year) \in Byte
        /\ Low(d.identificator) \in Byte /\ High(d.identificator) \in Byte
        /\ Low(d.useful_info) \in Byte /\ High(d.useful_info) \in Byte
    BY <1>1, <1>3, <1>4, PayloadFields
  <1>6. QED  BY <1>2, <1>3, <1>4, <1>5, PayloadFields, SMT DEF DATA_construct

\* The place in the struct's memory of the i-th byte on the wire: the padding
\* is left out.
InImage(i) ==
    IF i <= 0 THEN i ELSE IF i <= 7 THEN i + 1 ELSE IF i <= 12 THEN i + 2
    ELSE IF i <= 15 THEN i + 3 ELSE IF i <= 20 THEN i + 4 ELSE i + 5
Padding == {1, 9, 15, 19, 25}

\* The places of the wire and the padding make up the first 30 bytes.
LEMMA Places ==
    /\ \A i \in 0..24 : InImage(i) \in 0..29 /\ InImage(i) \notin Padding
    /\ \A i, j \in 0..24 : InImage(i) = InImage(j) => i = j
    /\ \A p \in (0..29) \ Padding : \E i \in 0..24 : InImage(i) = p
PROOF
  <1>1. \A i \in 0..24 : InImage(i) \in 0..29 /\ InImage(i) \notin Padding
    BY SMT DEF InImage, Padding
  <1>2. \A i, j \in 0..24 : InImage(i) = InImage(j) => i = j
    BY SMT DEF InImage
  <1>3. ASSUME NEW p \in (0..29) \ Padding PROVE \E i \in 0..24 : InImage(i) = p
    <2> DEFINE i == IF p <= 0 THEN p ELSE IF p <= 8 THEN p - 1 ELSE IF p <= 14 THEN p - 2
                    ELSE IF p <= 18 THEN p - 3 ELSE IF p <= 24 THEN p - 4 ELSE p - 5
    <2>1. i \in 0..24 /\ InImage(i) = p
      BY SMT DEF InImage, Padding
    <2> QED  BY <2>1
  <1> QED  BY <1>1, <1>2, <1>3

\* Zeros do not count in an exclusive or, nor does the order.
LEMMA SameXor ==
    ASSUME NEW f, NEW h, \A i \in 0..24 : h[InImage(i)] = f[i], \A p \in Padding : h[p] = 0
    PROVE  XorAll(f, 25) = XorAll(h, 30)
PROOF
  <1> DEFINE S(k) == {i \in 0..(25 - 1) : (f[i] \div k) % 2 = 1}
             T(k) == {i \in 0..(30 - 1) : (h[i] \div k) % 2 = 1}
  <1>1. ASSUME NEW k \in Nat \ {0} PROVE Cardinality(S(k)) = Cardinality(T(k))
    <2> DEFINE g == [i \in S(k) |-> InImage(i)]
    <2>1. IsFiniteSet(S(k))
      <3>1. IsFiniteSet(0..24)
        <4>1. 0 \in Int /\ 24 \in Int  OBVIOUS
        <4> QED  BY <4>1, FS_Interval, Zenon
      <3>2. S(k) \subseteq 0..24  OBVIOUS
      <3> QED  BY <3>1, <3>2, FS_Subset
    <2>2. g \in [S(k) -> T(k)]
      <3>1. ASSUME NEW i \in S(k) PROVE InImage(i) \in T(k)
        <4>1. i \in 0..24 /\ (f[i] \div k) % 2 = 1  OBVIOUS
        <4>2. InImage(i) \in 0..29 /\ h[InImage(i)] = f[i]  BY <4>1, Places
        <4> QED  BY <4>1, <4>2
      <3> QED  BY <3>1
    <2>3. \A i, j \in S(k) : g[i] = g[j] => i = j
      BY Places
    <2>4. \A p \in T(k) : \E i \in S(k) : g[i] = p
      <3> TAKE p \in T(k)
      <3>1. p \in 0..29 /\ (h[p] \div k) % 2 = 1  OBVIOUS
      <3>2. (0 \div k) % 2 = 0
        <4>1. 0 \div k = 0  BY SMT
        <4> QED  BY <4>1
      <3>3. p \notin Padding
        <4> SUFFICES ASSUME p \in Padding PROVE FALSE  OBVIOUS
        <4>1. h[p] = 0  OBVIOUS
        <4> QED  BY <3>1, <3>2, <4>1
      <3>4. PICK i \in 0..24 : InImage(i) = p  BY <3>1, <3>3, Places
      <3>5. i \in S(k)  BY <3>1, <3>4
      <3> QED  BY <3>4, <3>5
    <2>5. g \in Bijection(S(k), T(k))
      <3> HIDE DEF g, S, T
      <3> QED  BY <2>2, <2>3, <2>4 DEF Bijection, Injection, Surjection, IsInjective
    <2>6. ExistsBijection(S(k), T(k))
      <3> HIDE DEF g, S, T
      <3> QED  BY <2>5 DEF ExistsBijection
    <2> HIDE DEF S, T
    <2> QED  BY <2>1, <2>6, FS_Bijection, Zenon
  <1> DEFINE b(k) == Cardinality(S(k)) % 2
             c(k) == Cardinality(T(k)) % 2
  <1>2. \A k \in Nat \ {0} : b(k) = c(k)
    BY <1>1
  <1>3. /\ XorAll(f, 25) = b(1) + 2 * b(2) + 4 * b(4) + 8 * b(8)
                              + 16 * b(16) + 32 * b(32) + 64 * b(64) + 128 * b(128)
        /\ XorAll(h, 30) = c(1) + 2 * c(2) + 4 * c(4) + 8 * c(8)
                              + 16 * c(16) + 32 * c(32) + 64 * c(64) + 128 * c(128)
    BY DEF XorAll
  <1> HIDE DEF b, c
  <1>4. /\ b(1) = c(1) /\ b(2) = c(2) /\ b(4) = c(4) /\ b(8) = c(8)
        /\ b(16) = c(16) /\ b(32) = c(32) /\ b(64) = c(64) /\ b(128) = c(128)
    BY <1>2
  <1> QED  BY <1>3, <1>4

\* The bytes of the struct's memory that the checksum covers.
LEMMA ImageBytes ==
    ASSUME NEW d \in PAYLOAD
    PROVE  LET b == Image(d)
           IN  /\ b[0] = d.number /\ b[2] = Low(d.identificator) /\ b[3] = High(d.identificator)
               /\ b[4] = Low(d.useful_info) /\ b[5] = High(d.useful_info)
               /\ b[6] = d.timering /\ b[7] = d.timering_sign /\ b[8] = d.reserve_first
               /\ b[10] = d.msk.second /\ b[11] = d.msk.minute /\ b[12] = d.msk.hour
               /\ b[13] = d.msk.day /\ b[14] = d.msk.month
               /\ b[16] = Low(d.msk.year) /\ b[17] = High(d.msk.year) /\ b[18] = d.reserve_second
               /\ b[20] = d.local.second /\ b[21] = d.local.minute /\ b[22] = d.local.hour
               /\ b[23] = d.local.day /\ b[24] = d.local.month
               /\ b[26] = Low(d.local.year) /\ b[27] = High(d.local.year)
               /\ b[28] = d.reserve_third /\ b[29] = d.validity
               /\ b[1] = 0 /\ b[9] = 0 /\ b[15] = 0 /\ b[19] = 0 /\ b[25] = 0
PROOF BY SMT DEF Image, SizeofPayload, Pad

\* The bytes on the wire.
LEMMA WireBytes ==
    ASSUME NEW d \in PAYLOAD
    PROVE  LET w == DATA_construct(d)
           IN  /\ w[0] = d.number /\ w[1] = Low(d.identificator) /\ w[2] = High(d.identificator)
               /\ w[3] = Low(d.useful_info) /\ w[4] = High(d.useful_info)
               /\ w[5] = d.timering /\ w[6] = d.timering_sign /\ w[7] = d.reserve_first
               /\ w[8] = d.msk.second /\ w[9] = d.msk.minute /\ w[10] = d.msk.hour
               /\ w[11] = d.msk.day /\ w[12] = d.msk.month
               /\ w[13] = Low(d.msk.year) /\ w[14] = High(d.msk.year) /\ w[15] = d.reserve_second
               /\ w[16] = d.local.second /\ w[17] = d.local.minute /\ w[18] = d.local.hour
               /\ w[19] = d.local.day /\ w[20] = d.local.month
               /\ w[21] = Low(d.local.year) /\ w[22] = High(d.local.year)
               /\ w[23] = d.reserve_third /\ w[24] = 2 * d.validity + d.efficency
               /\ w[25] = d.check_sum
PROOF BY SMT DEF DATA_construct

\* What DATA_construct sends of a datagram with its checksum, a receiver finds
\* valid (Main.c:321-373): the image that was summed and the wire carry the same
\* bytes.
LEMMA SummedIsValid ==
    ASSUME NEW d \in PAYLOAD, d.check_sum = Get_check_sum(d)
    PROVE  ChecksumValid(DATA_construct(d))
PROOF
  <1> DEFINE w == DATA_construct(d)
             f == [w EXCEPT ![24] = w[24] \div 2]
             h == Image(d)
  <1>1. w \in [0..25 -> Byte]  BY DataType
  <1>2. \A i \in 0..25 : f[i] = IF i = 24 THEN w[24] \div 2 ELSE w[i]
    <2> HIDE DEF w
    <2> QED  BY <1>1
  <1>3. w[24] \div 2 = d.validity
    <2>1. w[24] = 2 * d.validity + d.efficency  BY WireBytes
    <2> HIDE DEF w
    <2> QED  BY <2>1, PayloadFields, SMT
  <1>4. \A i \in 0..24 : h[InImage(i)] = f[i]
    <2>1. /\ f[0] = h[0] /\ f[1] = h[2] /\ f[2] = h[3] /\ f[3] = h[4] /\ f[4] = h[5]
          /\ f[5] = h[6] /\ f[6] = h[7] /\ f[7] = h[8] /\ f[8] = h[10] /\ f[9] = h[11]
          /\ f[10] = h[12] /\ f[11] = h[13] /\ f[12] = h[14] /\ f[13] = h[16] /\ f[14] = h[17]
          /\ f[15] = h[18] /\ f[16] = h[20] /\ f[17] = h[21] /\ f[18] = h[22] /\ f[19] = h[23]
          /\ f[20] = h[24] /\ f[21] = h[26] /\ f[22] = h[27] /\ f[23] = h[28] /\ f[24] = h[29]
      <3> DEFINE v == w
      <3>1. \A i \in 0..23 : f[i] = v[i]
        <4> HIDE DEF f
        <4> QED  BY <1>2
      <3>2. f[24] = d.validity
        <4> HIDE DEF f, w
        <4> QED  BY <1>2, <1>3
      <3> HIDE DEF f, h, v
      <3> QED  BY <3>1, <3>2, ImageBytes, WireBytes DEF h, v
    <2> HIDE DEF f, h
    <2> QED  BY <2>1, SMT DEF InImage
  <1>5. \A p \in Padding : h[p] = 0
    <2>1. h[1] = 0 /\ h[9] = 0 /\ h[15] = 0 /\ h[19] = 0 /\ h[25] = 0  BY ImageBytes
    <2> HIDE DEF h
    <2> QED  BY <2>1 DEF Padding
  <1>6. XorAll(f, 25) = XorAll(h, 30)
    <2> HIDE DEF f, h
    <2> QED  BY <1>4, <1>5, SameXor, Zenon
  <1>7. w[25] = XorAll(h, 30)
    <2>1. Get_check_sum(d) = XorAll(h, 30)  BY DEF Get_check_sum, SizeofPayload
    <2> QED  BY <2>1, WireBytes
  <1> HIDE DEF h
  <1> QED  BY <1>6, <1>7, Zenon DEF ChecksumValid

\* The receiver reads the two times that the datagram holds.
LEMMA WireTimes ==
    ASSUME NEW d \in PAYLOAD
    PROVE  WireTime(DATA_construct(d), 8) = d.msk /\ WireTime(DATA_construct(d), 16) = d.local
PROOF
  <1>1. ASSUME NEW y \in Word PROVE Low(y) + 256 * High(y) = y
    BY SMT DEF Word, Low, High
  <1>2. ASSUME NEW t \in TIME, NEW w, NEW b \in Nat,
               w[b] = t.second, w[b + 1] = t.minute, w[b + 2] = t.hour, w[b + 3] = t.day,
               w[b + 4] = t.month, w[b + 5] = Low(t.year), w[b + 6] = High(t.year)
        PROVE  WireTime(w, b) = t
    <2>1. t.year \in Word  BY DEF TIME
    <2>2. w[b + 5] + 256 * w[b + 6] = t.year  BY <1>1, <1>2, <2>1
    <2>3. t = [second |-> t.second, minute |-> t.minute, hour |-> t.hour, day |-> t.day,
               month |-> t.month, year |-> t.year]
      BY DEF TIME
    <2> QED  BY <1>2, <2>2, <2>3, Zenon DEF WireTime
  <1>3. d.msk \in TIME /\ d.local \in TIME  BY PayloadFields
  <1> DEFINE w == DATA_construct(d)
  <1>4. /\ w[8] = d.msk.second /\ w[8 + 1] = d.msk.minute /\ w[8 + 2] = d.msk.hour
        /\ w[8 + 3] = d.msk.day /\ w[8 + 4] = d.msk.month
        /\ w[8 + 5] = Low(d.msk.year) /\ w[8 + 6] = High(d.msk.year)
    <2>1. 8 + 1 = 9 /\ 8 + 2 = 10 /\ 8 + 3 = 11 /\ 8 + 4 = 12 /\ 8 + 5 = 13 /\ 8 + 6 = 14
      OBVIOUS
    <2> QED  BY <2>1, WireBytes
  <1>5. /\ w[16] = d.local.second /\ w[16 + 1] = d.local.minute /\ w[16 + 2] = d.local.hour
        /\ w[16 + 3] = d.local.day /\ w[16 + 4] = d.local.month
        /\ w[16 + 5] = Low(d.local.year) /\ w[16 + 6] = High(d.local.year)
    <2>1. 16 + 1 = 17 /\ 16 + 2 = 18 /\ 16 + 3 = 19 /\ 16 + 4 = 20 /\ 16 + 5 = 21 /\ 16 + 6 = 22
      OBVIOUS
    <2> QED  BY <2>1, WireBytes
  <1> HIDE DEF w
  <1>6. WireTime(w, 8) = d.msk
    BY <1>2, <1>3, <1>4
  <1>7. WireTime(w, 16) = d.local
    BY <1>2, <1>3, <1>5
  <1> QED  BY <1>6, <1>7 DEF w

-----------------------------------------------------------------------------
(* The invariant.                                                          *)

\* Both times are instants of the calendar, one hour apart; Time_counting has
\* just carried them when the loop is about to add a second.
TimesInv ==
    /\ NormalOr60(Datagram.msk) /\ NormalOr60(Datagram.local)
    /\ pc \in {"Check", "Latch"} => Normal(Datagram.msk) /\ Normal(Datagram.local)
    /\ OneHourBehind(Datagram.msk, Datagram.local)

\* Interrupts since the last latch: those of this turn, and before this turn's
\* latch also those of the turn before, which the watchdog bounds.
BacklogInv ==
    /\ Pending <= WatchdogTicks + unfed
    /\ pc \in {"Send", "Reload"} => Pending <= unfed
    /\ pc = "Latch" => Pending >= 1

\* What is counted and pending was delivered.
CountInv == Counted \in Nat /\ Counted + Pending <= pps

\* A timely loop owes at most one second, and has latched it by the end of
\* the second turn after the interrupt.
TimelyInv ==
    Timely =>
        /\ Counted + Pending = pps
        /\ Pending <= 1
        /\ Pending = 1 /\ laps = 1 =>
              pc \in {"Pkt", "Periodic", "TimeCounting", "Check", "Latch", "Stuck"}
        /\ laps = 2 => Pending = 0
        /\ pc = "Send" => Pending = 0 /\ laps < 2

\* The seconds without a datagram are the interrupts not counted yet, until the
\* loop hangs; from then on the watchdog counts them too.
QuietInv ==
    /\ quiet <= WatchdogTicks + unfed
    /\ pc # "Stuck" => quiet = Pending

IInv == TypeOK /\ TimesInv /\ BacklogInv /\ CountInv /\ TimelyInv /\ QuietInv

-----------------------------------------------------------------------------
(* Facts about the pieces of the actions.                                  *)

\* Setting the date of a struct TIME.
LEMMA SetDate ==
    ASSUME NEW t \in TIME, NEW d \in Byte, NEW m \in Byte, NEW y \in Word
    PROVE  [t EXCEPT !.day = d, !.month = m, !.year = y] \in TIME
PROOF BY Zenon DEF TIME

\* Setting day and hour of a struct TIME.
LEMMA SetDayHour ==
    ASSUME NEW t \in TIME, NEW d \in Byte, NEW h \in Byte
    PROVE  [t EXCEPT !.day = d, !.hour = h] \in TIME
PROOF BY Zenon DEF TIME

\* The local time correction at the start of a year.
LEMMA LocalAtNewYear ==
    ASSUME NEW t \in TIME, t.hour = 0, t.day = 1, t.month = 1, t.year > 0
    PROVE  LET l == LocalTime(t, 1, 1)
           IN  /\ l \in TIME
               /\ l.second = t.second /\ l.minute = t.minute /\ l.hour = 23
               /\ l.day = 31 /\ l.month = 12 /\ l.year = t.year - 1
PROOF
  <1> DEFINE v == [t EXCEPT !.day = 0, !.hour = 23]
             l == [v EXCEPT !.day = 31, !.month = 12, !.year = t.year - 1]
  <1>1. t.hour < 1 /\ U8(t.day - 1) = 0 /\ U8(24 + t.hour - 1) = 23
    BY SMT DEF U8
  <1>2. LocalTime(t, 1, 1) = StepBackDay(v)  BY <1>1, Zenon DEF LocalTime
  <1>3. 0 \in Byte /\ 23 \in Byte /\ 31 \in Byte /\ 12 \in Byte  BY SMT DEF Byte
  <1>4. v \in TIME  BY <1>3, SetDayHour
  <1>5. /\ v.day = 0 /\ v.hour = 23 /\ v.month = 1 /\ v.year = t.year
        /\ v.second = t.second /\ v.minute = t.minute
    BY SMT DEF TIME
  <1>6. U8(v.month - 1) = 0 /\ U16(v.year - 1) = t.year - 1
    BY <1>5, TimeFields, SMT DEF U8, U16
  <1>7. StepBackDay(v) = l  BY <1>5, <1>6, Zenon DEF StepBackDay
  <1>8. t.year - 1 \in Word  BY TimeFields, SMT DEF Word
  <1>9. l \in TIME  BY <1>3, <1>4, <1>8, SetDate, ZenonT(60)
  <1>10. /\ l.second = v.second /\ l.minute = v.minute /\ l.hour = v.hour
         /\ l.day = 31 /\ l.month = 12 /\ l.year = t.year - 1
    BY <1>4, SMT DEF TIME
  <1>11. QED  BY <1>2, <1>5, <1>7, <1>9, <1>10

\* The instant a struct TIME is given when the device starts.
LEMMA BootTimeFields ==
    /\ BootTime \in TIME /\ Normal(BootTime)
    /\ BootTime.hour = 0 /\ BootTime.day = 1 /\ BootTime.month = 1
    /\ BootTime.year = 2022
PROOF
  <1>1. BootTime \in TIME  BY SMT DEF BootTime, TIME, Byte, Word
  <1>2. /\ BootTime.hour = 0 /\ BootTime.day = 1 /\ BootTime.month = 1
        /\ BootTime.year = 2022 /\ BootTime.minute = 59 /\ BootTime.second = 30
    BY SMT DEF BootTime
  <1>3. MonthLength(BootTime.year, BootTime.month) = 31
    BY <1>2, SMT DEF MonthLength
  <1>4. QED  BY <1>1, <1>2, <1>3, SMT DEF Normal

\* The datagram that main() enters its loop with.
LEMMA BootDatagram ==
    LET d == Datagram_parameters_initialisation
    IN  /\ d \in PAYLOAD /\ d.msk = BootTime
        /\ Normal(d.msk) /\ Normal(d.local) /\ OneHourBehind(d.msk, d.local)
PROOF
  <1> DEFINE d == Datagram_parameters_initialisation
             l == LocalTime(BootTime, 1, 1)
  <1>1. /\ l \in TIME
        /\ l.second = BootTime.second /\ l.minute = BootTime.minute /\ l.hour = 23
        /\ l.day = 31 /\ l.month = 12 /\ l.year = BootTime.year - 1
    BY BootTimeFields, LocalAtNewYear, SMT
  <1> HIDE DEF l
  <1>2. /\ d = [number |-> 0, identificator |-> 255, useful_info |-> 26,
                timering |-> 1, timering_sign |-> 1, reserve_first |-> 0,
                msk |-> BootTime, reserve_second |-> 0, local |-> l,
                reserve_third |-> 0, validity |-> 0, efficency |-> 0, check_sum |-> 0]
    BY SMT DEF Datagram_parameters_initialisation, l
  <1>3. 0 \in Byte /\ 1 \in Byte /\ 255 \in Word /\ 26 \in Word
    BY SMT DEF Byte, Word
  <1>4. d \in PAYLOAD /\ d.msk = BootTime /\ d.local = l
    BY <1>1, <1>2, <1>3, BootTimeFields, SMT DEF PAYLOAD
  <1>5. MonthLength(l.year, l.month) = 31  BY <1>1, SMT DEF MonthLength
  <1>6. Normal(l)  BY <1>1, <1>5, BootTimeFields, SMT DEF Normal
  <1>7. MonthLength(l.year, 12) = 31  BY <1>1, <1>5
  <1>8. NextDate(DateOf(l)) = DateOf(BootTime)
    BY <1>1, <1>7, BootTimeFields, SMT DEF NextDate, DateOf, U16
  <1>9. OneHourBehind(BootTime, l)
    BY <1>1, <1>8, BootTimeFields, SMT DEF OneHourBehind
  <1>10. QED  BY <1>4, <1>6, <1>9, BootTimeFields

\* As long as no more than MaxPps seconds are counted the year is in range.
LEMMA YearInRange ==
    ASSUME NEW t \in TIME, NormalOr60(t), Elapsed(BootTime, t) \in Nat,
           Elapsed(BootTime, t) <= MaxPps
    PROVE  t.year > 0 /\ t.year < 65535
PROOF
  <1>1. /\ SecondOfDay(t) \in Nat /\ SecondOfDay(t) <= 86400
        /\ SecondOfDay(BootTime) = 3570
    <2>1. /\ t.hour \in Nat /\ t.minute \in Nat /\ t.second \in Nat
          /\ t.hour <= 23 /\ t.minute <= 59 /\ t.second <= 60
      BY DEF NormalOr60
    <2>2. BootTime.hour = 0 /\ BootTime.minute = 59 /\ BootTime.second = 30
      BY SMT DEF BootTime
    <2>3. QED  BY <2>1, <2>2, SMT DEF SecondOfDay
  <1>2. DayNumber(BootTime) = 738461
    BY BootTimeFields, SMT DEF DayNumber
  <1>3. DayNumber(t) \in Int  BY DayNumberType
  <1>4. DayNumber(t) >= 738460 /\ DayNumber(t) < 738461 + 23000001
    BY <1>1, <1>2, <1>3, MaxPpsAssumption, SMT DEF Elapsed
  <1>5. /\ t.year \in Nat /\ t.year < 65536 /\ t.month \in 1..12 /\ t.day \in 1..31
    BY TimeFields DEF NormalOr60, MonthLength
  <1>6. ASSUME t.year = 0 PROVE FALSE
    <2>1. DayNumber(t) <= 365 + (153 * 11 + 2) \div 5 + 31
      BY <1>5, <1>6, SMT DEF DayNumber
    <2>2. QED  BY <1>3, <1>4, <2>1, SMT
  <1>7. ASSUME t.year = 65535 PROVE FALSE
    <2>1. DayNumber(t) >= 365 * 65534 + 65534 \div 4 - 655
      BY <1>5, <1>7, SMT DEF DayNumber
    <2>2. QED  BY <1>3, <1>4, <2>1, SMT
  <1>8. QED  BY <1>5, <1>6, <1>7, SMT

-----------------------------------------------------------------------------
(* uint32_t arithmetic, for any modulus.                                   *)

\* A number less than one modulus out of range.
LEMMA ModOnce ==
    ASSUME NEW x \in Int, NEW M \in Nat, M > 0
    PROVE  /\ 0 <= x /\ x < M => x % M = x
           /\ -M <= x /\ x < 0 => x % M = x + M
           /\ x = M => x % M = 0
PROOF
  <1>1. ASSUME 0 <= x, x < M PROVE x % M = x  BY <1>1, SMT
  <1>2. ASSUME -M <= x, x < 0 PROVE x % M = x + M  BY <1>2, SMT
  <1>3. ASSUME x = M PROVE x % M = 0  BY <1>3, SMT
  <1>4. QED  BY <1>1, <1>2, <1>3

\* The difference of two counters, wrapped or not.
LEMMA Minus32Value ==
    ASSUME NEW a \in 0..(TickModulus - 1), NEW b \in 0..(TickModulus - 1)
    PROVE  /\ Minus32(a, b) = IF a >= b THEN a - b ELSE a - b + TickModulus
           /\ Minus32(a, b) \in 0..(TickModulus - 1)
PROOF
  <1>1. a - b \in Int /\ TickModulus \in Nat /\ TickModulus > 0
    BY ModulusAssumption
  <1>2. CASE a >= b
    <2>1. 0 <= a - b /\ a - b < TickModulus  BY <1>1, <1>2
    <2>2. (a - b) % TickModulus = a - b  BY <1>1, <2>1, ModOnce
    <2>3. QED  BY <1>1, <1>2, <2>1, <2>2 DEF Minus32
  <1>3. CASE a < b
    <2>1. -TickModulus <= a - b /\ a - b < 0  BY <1>1, <1>3
    <2>2. (a - b) % TickModulus = a - b + TickModulus  BY <1>1, <2>1, ModOnce
    <2>3. QED  BY <1>1, <1>3, <2>1, <2>2 DEF Minus32
  <1>4. QED  BY <1>1, <1>2, <1>3

\* One interrupt more is one second more pending, until the counters would
\* lap each other.
LEMMA PpsCountPending ==
    ASSUME NEW a \in 0..(TickModulus - 1), NEW b \in 0..(TickModulus - 1),
           Minus32(a, b) + 1 < TickModulus
    PROVE  /\ PpsCount(a) \in 0..(TickModulus - 1)
           /\ Minus32(PpsCount(a), b) = Minus32(a, b) + 1
PROOF
  <1>1. TickModulus \in Nat /\ TickModulus > 1  BY ModulusAssumption
  <1>2. PpsCount(a) = IF a + 1 < TickModulus THEN a + 1 ELSE 0
    <2>1. a + 1 < TickModulus => (a + 1) % TickModulus = a + 1
      BY <1>1, ModOnce
    <2>2. a + 1 = TickModulus => (a + 1) % TickModulus = 0
      BY <1>1, ModOnce
    <2>3. QED  BY <1>1, <2>1, <2>2 DEF PpsCount
  <1>3. PpsCount(a) \in 0..(TickModulus - 1)  BY <1>1, <1>2
  <1>4. Minus32(a, b) = IF a >= b THEN a - b ELSE a - b + TickModulus
    BY Minus32Value
  <1>5. Minus32(PpsCount(a), b)
          = IF PpsCount(a) >= b THEN PpsCount(a) - b ELSE PpsCount(a) - b + TickModulus
    BY <1>3, Minus32Value
  <1>6. QED  BY <1>1, <1>2, <1>3, <1>4, <1>5

-----------------------------------------------------------------------------
(* The datagram's own steps.                                               *)

\* Both times of the datagram after the carries.
LEMMA TimeCountingDatagram ==
    ASSUME TimeCounting, Datagram \in PAYLOAD,
           Time_counting(Datagram.msk) \in TIME, Time_counting(Datagram.local) \in TIME
    PROVE  /\ Datagram' \in PAYLOAD
           /\ Datagram'.msk = Time_counting(Datagram.msk)
           /\ Datagram'.local = Time_counting(Datagram.local)
PROOF
  <1> DEFINE m == Time_counting(Datagram.msk)
             l == Time_counting(Datagram.local)
  <1>1. Datagram' = [Datagram EXCEPT !.msk = m, !.local = l]
    BY Zenon DEF TimeCounting
  <1>2. m \in TIME /\ l \in TIME  OBVIOUS
  <1> HIDE DEF m, l
  <1>3. Datagram' \in PAYLOAD  BY <1>1, <1>2, Zenon DEF PAYLOAD
  <1>4. Datagram'.msk = m /\ Datagram'.local = l  BY <1>1, <1>2, SMT DEF PAYLOAD
  <1>5. QED  BY <1>3, <1>4 DEF m, l

\* Type and times of the datagram Counting_seconds builds.
LEMMA NextDatagramFields ==
    ASSUME NEW d \in PAYLOAD, AddSecond(d.msk) \in TIME, AddSecond(d.local) \in TIME,
           NEW e \in NextDatagrams(d)
    PROVE  e \in PAYLOAD /\ e.msk = AddSecond(d.msk) /\ e.local = AddSecond(d.local)
PROOF
  <1>1. PICK pins \in Inputs : e = Summed(Advanced(d, pins))
    BY Zenon DEF NextDatagrams
  <1>2. pins[1] \in 0..1 /\ pins[2] \in 0..1  BY InputsAssumption
  <1>3. U8(d.number + 1) \in Byte  BY PayloadFields, SMT DEF Byte, U8
  <1> DEFINE c == [d EXCEPT !.number = U8(@ + 1), !.msk = AddSecond(@),
                            !.local = AddSecond(@)]
             a == Asking(c, pins)
  <1>10. a = Advanced(d, pins)  BY Zenon DEF Advanced
  <1>11. c \in PAYLOAD  BY <1>3, Zenon DEF PAYLOAD
  <1>12. c.msk = AddSecond(d.msk) /\ c.local = AddSecond(d.local)  BY SMT DEF PAYLOAD
  <1> HIDE DEF c
  <1>4. a \in PAYLOAD  BY <1>2, <1>11, Zenon DEF Asking, PAYLOAD
  <1>5. a.msk = AddSecond(d.msk) /\ a.local = AddSecond(d.local)
    BY <1>11, <1>12, SMT DEF Asking, PAYLOAD
  <1>6. Get_check_sum(a) \in Byte  BY CheckSumType
  <1> HIDE DEF a
  <1>7. Summed(a) \in PAYLOAD  BY <1>4, <1>6, Zenon DEF Summed, PAYLOAD
  <1>8. Summed(a).msk = a.msk /\ Summed(a).local = a.local
    BY <1>4, SMT DEF Summed, PAYLOAD
  <1>9. QED  BY <1>1, <1>10, <1>5, <1>7, <1>8

\* SetBiLED sets two pins, whatever the colour.
LEMMA LedType ==
    ASSUME NEW c
    PROVE  SetBiLED(c) \in [red: BOOLEAN, green: BOOLEAN]
PROOF BY DEF SetBiLED

-----------------------------------------------------------------------------
(* The induction.                                                          *)

\* What main() builds before while(1) satisfies the invariant, at power-up
\* and after a watchdog reset.
LEMMA BootedCount ==
    ASSUME NEW t, t = BootTime
    PROVE  Elapsed(BootTime, t) = 0
PROOF
  <1>1. DayNumber(BootTime) \in Int  BY BootTimeFields, DayNumberType
  <1>2. SecondOfDay(BootTime) \in Int  BY BootTimeFields, TimeFields DEF SecondOfDay
  <1>3. QED  BY <1>1, <1>2, SMT DEF Elapsed

\* Power-up.
LEMMA InitIInv == Init => IInv
PROOF
  <1> SUFFICES ASSUME Init PROVE IInv  OBVIOUS
  <1>1. /\ ticks_two = 0 /\ ticks = 0 /\ TCPTimer = 0 /\ ARPTimer = 0
        /\ Datagram = Datagram_parameters_initialisation
        /\ DATA = NoDatagram /\ wire = NoDatagram
        /\ led = SetBiLED("LED_YELLOW") /\ pc = "Pkt"
        /\ unfed = 0 /\ laps = 2 /\ pps = 0 /\ tcpAge = 0 /\ arpAge = 0 /\ quiet = 0
    BY DEF Init, Booted
  <1>2. 0 \in 0..(TickModulus - 1)  BY ModulusAssumption
  <1>3. /\ Datagram \in PAYLOAD /\ Datagram.msk = BootTime
        /\ Normal(Datagram.msk) /\ Normal(Datagram.local)
        /\ OneHourBehind(Datagram.msk, Datagram.local)
    BY <1>1, BootDatagram
  <1>4. NoDatagram \in [0..25 -> Byte]  BY SMT DEF NoDatagram, Byte
  <1>5. TypeOK
    BY <1>1, <1>2, <1>3, <1>4, LedType, WatchdogAssumption, MaxPpsAssumption
    DEF TypeOK, Labels
  <1>6. TimesInv  BY <1>1, <1>3 DEF TimesInv, Normal, NormalOr60
  <1>7. Pending = 0  BY <1>1, <1>2, Minus32Value, SMT DEF Pending
  <1>8. Counted = 0  BY <1>3, BootedCount DEF Counted
  <1>9. BacklogInv /\ CountInv /\ TimelyInv /\ QuietInv
    BY <1>1, <1>7, <1>8, WatchdogAssumption DEF BacklogInv, CountInv, TimelyInv, QuietInv
  <1>10. QED  BY <1>5, <1>6, <1>9 DEF IInv

\* The parts of the invariant in the form the steps use them.
LEMMA Typed ==
    ASSUME TypeOK
    PROVE  /\ Pending \in 0..(TickModulus - 1)
           /\ Pending \in Nat /\ unfed \in Nat /\ laps \in 0..2 /\ pps \in Nat
           /\ WatchdogTicks \in Nat /\ TickModulus \in Nat
           /\ unfed <= WatchdogTicks /\ pps <= MaxPps /\ MaxPps \in Nat
           /\ Datagram.msk \in TIME /\ Datagram.local \in TIME /\ quiet \in Nat
PROOF
  <1>1. Pending \in 0..(TickModulus - 1)
    BY Minus32Value DEF TypeOK, Pending
  <1>2. Datagram.msk \in TIME /\ Datagram.local \in TIME
    BY PayloadFields DEF TypeOK
  <1>3. QED
    BY <1>1, <1>2, WatchdogAssumption, ModulusAssumption, MaxPpsAssumption DEF TypeOK

\* The interrupt makes one second more pending; the watchdog keeps the
\* counters from lapping each other.
LEMMA PpsInterruptIInv == IInv /\ PpsInterrupt => IInv'
PROOF
  <1> SUFFICES ASSUME IInv, PpsInterrupt PROVE IInv'  OBVIOUS
  <1> USE Typed DEF IInv
  <1>1. Pending <= WatchdogTicks + unfed  BY DEF BacklogInv
  <1>2. Pending + 1 < TickModulus
    BY <1>1, WatchdogAssumption DEF PpsInterrupt
  <1>3. /\ ticks_two' \in 0..(TickModulus - 1)
        /\ Minus32(ticks_two', ticks) = Pending + 1
    BY <1>2, PpsCountPending DEF TypeOK, Pending, PpsInterrupt
  <1>4. Pending' = Pending + 1  BY <1>3 DEF Pending, PpsInterrupt
  <1>5. TypeOK'
    BY <1>3, MaxPpsAssumption DEF TypeOK, PpsInterrupt
  <1>6. TimesInv'  BY DEF TimesInv, PpsInterrupt
  <1>7. BacklogInv'  BY <1>4 DEF BacklogInv, PpsInterrupt
  <1>8. Counted' = Counted  BY DEF Counted, PpsInterrupt
  <1>9. CountInv'  BY <1>4, <1>8 DEF CountInv, PpsInterrupt
  <1>10. TimelyInv'  BY <1>4, <1>8 DEF TimelyInv, CountInv, PpsInterrupt
  <1>11. QuietInv'  BY <1>4 DEF QuietInv, PpsInterrupt
  <1>12. QED  BY <1>5, <1>6, <1>7, <1>9, <1>10, <1>11

\* A second in a hung loop is one without a datagram, and is not counted.
LEMMA HungSecondIInv == IInv /\ HungSecond => IInv'
PROOF
  <1> SUFFICES ASSUME IInv, HungSecond PROVE IInv'  OBVIOUS
  <1> USE Typed DEF IInv
  <1>1. /\ UNCHANGED <<ticks_two, ticks, Datagram, DATA, TCPTimer, ARPTimer, led, pc, wire,
                       laps, pps, tcpAge, arpAge>>
        /\ pc = "Stuck" /\ unfed < WatchdogTicks /\ unfed' = unfed + 1 /\ quiet' = quiet + 1
    BY Zenon DEF HungSecond, code
  <1>2. Pending' = Pending /\ Counted' = Counted  BY <1>1 DEF Pending, Counted
  <1>3. TypeOK'  BY <1>1 DEF TypeOK
  <1>4. TimesInv'  BY <1>1 DEF TimesInv
  <1>5. BacklogInv' /\ CountInv' /\ TimelyInv' /\ QuietInv'
    BY <1>1, <1>2 DEF BacklogInv, CountInv, TimelyInv, QuietInv
  <1>6. QED  BY <1>3, <1>4, <1>5

\* A received frame does not touch the clock.
LEMMA LwIP_Pkt_HandleIInv == IInv /\ LwIP_Pkt_Handle => IInv'
PROOF
  <1> SUFFICES ASSUME IInv, LwIP_Pkt_Handle PROVE IInv'  OBVIOUS
  <1> USE Typed DEF IInv
  <1>1. Pending' = Pending /\ Counted' = Counted
    BY DEF Pending, Counted, LwIP_Pkt_Handle
  <1>2. TypeOK'  BY DEF TypeOK, Labels, LwIP_Pkt_Handle, ghost
  <1>3. TimesInv'  BY DEF TimesInv, LwIP_Pkt_Handle
  <1>4. BacklogInv' /\ CountInv' /\ TimelyInv' /\ QuietInv'
    BY <1>1 DEF BacklogInv, CountInv, TimelyInv, QuietInv, LwIP_Pkt_Handle, ghost
  <1>5. QED  BY <1>2, <1>3, <1>4

\* Nor do lwIP's timers.
LEMMA LwIP_Periodic_HandleIInv == IInv /\ LwIP_Periodic_Handle => IInv'
PROOF
  <1> SUFFICES ASSUME IInv, LwIP_Periodic_Handle PROVE IInv'  OBVIOUS
  <1> USE Typed DEF IInv
  <1>1. Pending' = Pending /\ Counted' = Counted
    BY DEF Pending, Counted, LwIP_Periodic_Handle
  <1>2. TypeOK'
    <2>1. TCPTimer' \in 0..(TickModulus - 1) /\ ARPTimer' \in 0..(TickModulus - 1)
      BY DEF TypeOK, LwIP_Periodic_Handle
    <2>2. tcpAge' \in Nat /\ arpAge' \in Nat
      BY DEF TypeOK, LwIP_Periodic_Handle
    <2>3. QED  BY <2>1, <2>2 DEF TypeOK, Labels, LwIP_Periodic_Handle
  <1>3. TimesInv'  BY DEF TimesInv, LwIP_Periodic_Handle
  <1>4. BacklogInv' /\ CountInv' /\ TimelyInv' /\ QuietInv'
    BY <1>1 DEF BacklogInv, CountInv, TimelyInv, QuietInv, LwIP_Periodic_Handle
  <1>5. QED  BY <1>2, <1>3, <1>4

\* The carries change the form of both times, not their instants.
LEMMA TimeCountingIInv == IInv /\ TimeCounting => IInv'
PROOF
  <1> SUFFICES ASSUME IInv, TimeCounting PROVE IInv'  OBVIOUS
  <1> USE Typed DEF IInv
  <1> DEFINE m == Datagram.msk
             l == Datagram.local
  <1>1. /\ NormalOr60(m) /\ NormalOr60(l) /\ OneHourBehind(m, l)
    BY DEF TimesInv
  <1>2. /\ Time_counting(m) \in TIME /\ Normal(Time_counting(m))
        /\ Time_counting(l) \in TIME /\ Normal(Time_counting(l))
    BY <1>1, CarryNormalises
  <1>4. Datagram' \in PAYLOAD /\ Datagram'.msk = Time_counting(m)
           /\ Datagram'.local = Time_counting(l)
    <2>1. Datagram \in PAYLOAD  BY DEF TypeOK
    <2>2. QED  BY <1>2, <2>1, TimeCountingDatagram
  <1>5. Counted' = Counted
    <2>1. m.year > 0 /\ m.year < 65535
      BY <1>1, YearInRange DEF CountInv, Counted
    <2>2. Elapsed(BootTime, Time_counting(m)) = Elapsed(BootTime, m)
      BY <1>1, <2>1, BootTimeFields, CarryKeepsInstant
    <2>3. QED  BY <1>4, <2>2 DEF Counted
  <1>6. Pending' = Pending  BY DEF Pending, TimeCounting
  <1>7. TypeOK'  BY <1>4 DEF TypeOK, Labels, TimeCounting, ghost
  <1>8. TimesInv'
    <2>1. OneHourBehind(Time_counting(m), Time_counting(l))  BY <1>1, CarryKeepsHour
    <2>2. NormalOr60(Time_counting(m)) /\ NormalOr60(Time_counting(l))
      BY <1>2 DEF Normal, NormalOr60
    <2>3. QED  BY <1>2, <1>4, <2>1, <2>2 DEF TimesInv
  <1>9. BacklogInv' /\ CountInv' /\ TimelyInv' /\ QuietInv'
    BY <1>5, <1>6 DEF BacklogInv, CountInv, TimelyInv, QuietInv, TimeCounting, ghost
  <1>10. QED  BY <1>7, <1>8, <1>9

\* The first GetSecond().
LEMMA CheckIInv == IInv /\ Check => IInv'
PROOF
  <1> SUFFICES ASSUME IInv, Check PROVE IInv'  OBVIOUS
  <1> USE Typed DEF IInv
  <1>1. Pending' = Pending /\ Counted' = Counted  BY DEF Pending, Counted, Check
  <1>2. TypeOK'  BY DEF TypeOK, Labels, Check, ghost
  <1>3. TimesInv'  BY DEF TimesInv, Check
  <1>4. BacklogInv' /\ CountInv' /\ TimelyInv' /\ QuietInv'
    BY <1>1 DEF BacklogInv, CountInv, TimelyInv, QuietInv, Check, ghost
  <1>5. QED  BY <1>2, <1>3, <1>4

\* A second is counted: at least one was pending, and none is any more.
LEMMA LatchIInv == IInv /\ Latch => IInv'
PROOF
  <1> SUFFICES ASSUME IInv, Latch PROVE IInv'  OBVIOUS
  <1> USE Typed DEF IInv
  <1> DEFINE m == Datagram.msk
             l == Datagram.local
  <1>1. Normal(m) /\ Normal(l) /\ OneHourBehind(m, l)  BY DEF TimesInv, Latch
  <1>2. AddSecond(m) \in TIME /\ AddSecond(l) \in TIME
        /\ NormalOr60(AddSecond(m)) /\ NormalOr60(AddSecond(l))
    BY <1>1, AddSecondFields
  <1>3. PICK d \in NextDatagrams(Datagram) :
           /\ Datagram' = d /\ DATA' = DATA_construct(d)
           /\ led' = SetBiLED(AttributeColor(d.validity, d.efficency))
    BY DEF Latch
  <1>4. d \in PAYLOAD /\ d.msk = AddSecond(m) /\ d.local = AddSecond(l)
    BY <1>2, NextDatagramFields DEF TypeOK
  <1>5. DATA' \in [0..25 -> Byte]  BY <1>3, <1>4, DataType
  <1>6. led' \in [red: BOOLEAN, green: BOOLEAN]  BY <1>3, LedType
  <1>7. TypeOK'
    BY <1>3, <1>4, <1>5, <1>6 DEF TypeOK, Labels, Latch, LatchTicks
  <1>8. Pending' = 0
    <2>1. ticks' = ticks_two /\ ticks_two' = ticks_two  BY DEF Latch, LatchTicks
    <2>2. Minus32(ticks_two, ticks_two) = 0  BY Minus32Value DEF TypeOK
    <2>3. QED  BY <2>1, <2>2 DEF Pending
  <1>9. Counted' = Counted + 1
    <2>1. Elapsed(BootTime, AddSecond(m)) = Elapsed(BootTime, m) + 1
      BY <1>1, BootTimeFields, AddSecondElapsed
    <2>2. QED  BY <1>3, <1>4, <2>1 DEF Counted
  <1>10. TimesInv'
    <2>1. OneHourBehind(AddSecond(m), AddSecond(l))  BY <1>1, AddSecondKeepsHour
    <2>2. QED  BY <1>2, <1>3, <1>4, <2>1 DEF TimesInv, Latch
  <1>11. BacklogInv' /\ QuietInv'  BY <1>8 DEF BacklogInv, QuietInv, Latch
  <1>12. CountInv'
    <2>1. Pending >= 1  BY DEF BacklogInv, Latch
    <2>2. QED  BY <1>8, <1>9, <2>1 DEF CountInv, Latch
  <1>13. TimelyInv'
    <2>1. Pending >= 1  BY DEF BacklogInv, Latch
    <2>2. QED  BY <1>8, <1>9, <2>1 DEF TimelyInv, CountInv, Latch
  <1>14. QED  BY <1>7, <1>10, <1>11, <1>12, <1>13

\* The three outcomes of UDPSend leave the clock alone.
LEMMA SendIInv == IInv /\ (UDPSend \/ UDPSendNoPbuf \/ PrintBlocked) => IInv'
PROOF
  <1> SUFFICES ASSUME IInv, UDPSend \/ UDPSendNoPbuf \/ PrintBlocked PROVE IInv'
    OBVIOUS
  <1> USE Typed DEF IInv
  <1>1. /\ UNCHANGED <<ticks_two, ticks, Datagram, DATA, TCPTimer, ARPTimer,
                       unfed, laps, pps, tcpAge, arpAge, quiet>>
        /\ pc = "Send" /\ pc' \in {"Reload", "Stuck"}
        /\ wire' \in {wire, DATA}
        /\ led' \in {led, LedAfterSend}
    BY DEF UDPSend, UDPSendNoPbuf, PrintBlocked, ghost
  <1>2. Pending' = Pending /\ Counted' = Counted  BY <1>1 DEF Pending, Counted
  <1>3. TypeOK'
    <2>1. wire' \in [0..25 -> Byte]  BY <1>1 DEF TypeOK
    <2>2. led' \in [red: BOOLEAN, green: BOOLEAN]  BY <1>1, LedType DEF TypeOK, LedAfterSend
    <2>3. QED  BY <1>1, <2>1, <2>2 DEF TypeOK, Labels
  <1>4. TimesInv'  BY <1>1 DEF TimesInv
  <1>5. BacklogInv' /\ CountInv' /\ TimelyInv' /\ QuietInv'
    BY <1>1, <1>2 DEF BacklogInv, CountInv, TimelyInv, QuietInv
  <1>6. QED  BY <1>3, <1>4, <1>5

\* The end of a turn.
LEMMA ReloadIInv == IInv /\ IWDG_ReloadCounter => IInv'
PROOF
  <1> SUFFICES ASSUME IInv, IWDG_ReloadCounter PROVE IInv'  OBVIOUS
  <1> USE Typed DEF IInv
  <1>1. Pending' = Pending /\ Counted' = Counted
    BY DEF Pending, Counted, IWDG_ReloadCounter
  <1>2. NoDatagram \in [0..25 -> Byte]  BY SMT DEF NoDatagram, Byte
  <1>3. laps' \in 0..2 /\ laps' = IF laps = 0 THEN 1 ELSE 2
    BY DEF IWDG_ReloadCounter, Lower2
  <1>4. TypeOK'
    BY <1>2, <1>3 DEF TypeOK, Labels, IWDG_ReloadCounter
  <1>5. TimesInv'  BY DEF TimesInv, IWDG_ReloadCounter
  <1>6. BacklogInv' /\ CountInv' /\ QuietInv'
    BY <1>1 DEF BacklogInv, CountInv, QuietInv, IWDG_ReloadCounter
  <1>7. TimelyInv'
    <2> SUFFICES ASSUME Timely
                 PROVE  /\ Counted + Pending = pps
                        /\ Pending <= 1
                        /\ laps' = 2 => Pending = 0
      BY <1>1 DEF TimelyInv, IWDG_ReloadCounter
    <2>1. laps # 0 => Pending = 0  BY DEF TimelyInv, IWDG_ReloadCounter
    <2>2. QED  BY <1>3, <2>1 DEF TimelyInv
  <1>8. QED  BY <1>4, <1>5, <1>6, <1>7

\* A reset restores the initial state, so the induction starts again.
LEMMA WatchdogResetIInv == IInv /\ WatchdogReset => IInv'
PROOF
  <1> SUFFICES ASSUME WatchdogReset PROVE IInv'  OBVIOUS
  <1>1. Init'  BY DEF Init, WatchdogReset
  <1>2. Init' => IInv'  BY InitIInv, PTL
  <1>3. QED  BY <1>1, <1>2

\* Every step keeps the invariant.
LEMMA NextIInv == IInv /\ [Next]_vars => IInv'
PROOF
  <1> SUFFICES ASSUME IInv, [Next]_vars PROVE IInv'  OBVIOUS
  <1>1. CASE PpsInterrupt  BY <1>1, PpsInterruptIInv
  <1>2. CASE LwIP_Pkt_Handle  BY <1>2, LwIP_Pkt_HandleIInv
  <1>3. CASE LwIP_Periodic_Handle  BY <1>3, LwIP_Periodic_HandleIInv
  <1>4. CASE TimeCounting  BY <1>4, TimeCountingIInv
  <1>5. CASE Check  BY <1>5, CheckIInv
  <1>6. CASE Latch  BY <1>6, LatchIInv
  <1>7. CASE UDPSend \/ UDPSendNoPbuf \/ PrintBlocked  BY <1>7, SendIInv
  <1>8. CASE IWDG_ReloadCounter  BY <1>8, ReloadIInv
  <1>9. CASE WatchdogReset  BY <1>9, WatchdogResetIInv
  <1>10. CASE HungSecond  BY <1>10, HungSecondIInv
  <1>11. CASE UNCHANGED vars
    BY <1>11
    DEF IInv, TypeOK, TimesInv, BacklogInv, CountInv, TimelyInv, QuietInv, Pending, Counted,
        vars, code, ghost
  <1>12. QED
    BY <1>1, <1>2, <1>3, <1>4, <1>5, <1>6, <1>7, <1>8, <1>9, <1>10, <1>11
    DEF Next, LoopStep

-----------------------------------------------------------------------------
(* The theorems.                                                           *)

\* The invariant holds in every state.
LEMMA Invariance == Spec => []IInv
PROOF BY InitIInv, NextIInv, PTL DEF Spec

\* The types of the code's variables are kept by every step: no counter, byte
\* or word leaves its C type, the checksum and the 26 bytes included.
THEOREM TypeCorrect == Spec => []TypeOK
PROOF
  <1>1. IInv => TypeOK  BY DEF IInv
  <1>2. QED  BY <1>1, Invariance, PTL

\* Local time stays one hour behind Moscow time at every step of the loop.
THEOREM LocalTimeCorrect == Spec => []LocalOneHourBehind
PROOF
  <1>1. IInv => LocalOneHourBehind  BY DEF IInv, TimesInv, LocalOneHourBehind
  <1>2. QED  BY <1>1, Invariance, PTL

\* The watchdog bounds the seconds that one turn can swallow.
THEOREM BacklogCorrect == Spec => []BacklogBounded
PROOF
  <1>1. IInv => BacklogBounded
    BY Typed DEF IInv, BacklogInv, BacklogBounded
  <1>2. QED  BY <1>1, Invariance, PTL

\* Wherever a turn of the loop hangs (Main.c:107, Main.c:313, ethernetif.c:459) and
\* however slow the ones before were, the device builds a datagram or restarts
\* within two watchdog timeouts, for every timeout.
THEOREM SilenceBounded == Spec => []QuietBounded
PROOF
  <1>1. IInv => QuietBounded
    BY Typed DEF IInv, QuietInv, QuietBounded
  <1>2. QED  BY <1>1, Invariance, PTL

\* The clock never shows a second that has not happened.
THEOREM ClockNeverAhead == Spec => []NeverAhead
PROOF
  <1>1. IInv => NeverAhead  BY DEF IInv, CountInv, NeverAhead
  <1>2. QED  BY <1>1, Invariance, PTL

\* Two turns of the loop per second are enough for the clock to be exact.
THEOREM ClockExact == Spec => []NoSecondLost
PROOF
  <1>1. IInv => NoSecondLost  BY DEF IInv, TimelyInv, NoSecondLost
  <1>2. QED  BY <1>1, Invariance, PTL

\* ... and for every datagram to leave within the second it announces.
THEOREM DatagramsOnTime == Spec => []DatagramOnTime
PROOF
  <1>1. IInv => DatagramOnTime
    BY Typed DEF IInv, TimelyInv, CountInv, DatagramOnTime
  <1>2. QED  BY <1>1, Invariance, PTL

-----------------------------------------------------------------------------
(* What a receiver sees.                                                   *)

\* The checksum does not depend on its own byte.
LEMMA SumOfImage ==
    ASSUME NEW f, NEW h, \A i \in 0..29 : f[i] = h[i]
    PROVE  XorAll(f, 30) = XorAll(h, 30)
PROOF
  <1>1. 30 - 1 = 29
    OBVIOUS
  <1>2. \A k : {i \in 0..(30 - 1) : (f[i] \div k) % 2 = 1} = {i \in 0..(30 - 1) : (h[i] \div k) % 2 = 1}
    BY <1>1, Zenon
  <1> QED  BY <1>2, Zenon DEF XorAll

\* Number and checksum of the datagram Counting_seconds builds.
LEMMA NextDatagramSum ==
    ASSUME NEW d \in PAYLOAD, AddSecond(d.msk) \in TIME, AddSecond(d.local) \in TIME,
           NEW e \in NextDatagrams(d)
    PROVE  e.number = U8(d.number + 1) /\ e.check_sum = Get_check_sum(e)
PROOF
  <1>1. PICK pins \in Inputs : e = Summed(Advanced(d, pins))
    BY Zenon DEF NextDatagrams
  <1>2. pins[1] \in 0..1 /\ pins[2] \in 0..1  BY InputsAssumption
  <1>3. U8(d.number + 1) \in Byte  BY PayloadFields, SMT DEF Byte, U8
  <1> DEFINE c == [d EXCEPT !.number = U8(@ + 1), !.msk = AddSecond(@),
                            !.local = AddSecond(@)]
             a == Asking(c, pins)
  <1>4. a = Advanced(d, pins)  BY Zenon DEF Advanced
  <1>5. c \in PAYLOAD  BY <1>3, Zenon DEF PAYLOAD
  <1>6. c.number = U8(d.number + 1)  BY SMT DEF PAYLOAD
  <1> HIDE DEF c
  <1>7. a \in PAYLOAD  BY <1>2, <1>5, Zenon DEF Asking, PAYLOAD
  <1>8. a.number = U8(d.number + 1)  BY <1>5, <1>6, SMT DEF Asking, PAYLOAD
  <1> HIDE DEF a
  <1> DEFINE s == Summed(a)
  <1>9. Get_check_sum(a) \in Byte  BY CheckSumType
  <1>10. s \in PAYLOAD  BY <1>7, <1>9, Zenon DEF Summed, PAYLOAD
  <1>11. /\ s.check_sum = Get_check_sum(a) /\ s.number = a.number
         /\ s.identificator = a.identificator /\ s.useful_info = a.useful_info
         /\ s.timering = a.timering /\ s.timering_sign = a.timering_sign
         /\ s.reserve_first = a.reserve_first /\ s.msk = a.msk
         /\ s.reserve_second = a.reserve_second /\ s.local = a.local
         /\ s.reserve_third = a.reserve_third /\ s.validity = a.validity
    BY <1>7, SMT DEF Summed, PAYLOAD
  <1>12. Get_check_sum(s) = Get_check_sum(a)
    <2> HIDE DEF s
    <2>1. \A i \in 0..29 : Image(s)[i] = Image(a)[i]
      <3> DEFINE f == Image(s)
                 h == Image(a)
      <3>1. /\ f[0] = h[0] /\ f[1] = h[1] /\ f[2] = h[2] /\ f[3] = h[3] /\ f[4] = h[4]
            /\ f[5] = h[5] /\ f[6] = h[6] /\ f[7] = h[7] /\ f[8] = h[8] /\ f[9] = h[9]
            /\ f[10] = h[10] /\ f[11] = h[11] /\ f[12] = h[12] /\ f[13] = h[13] /\ f[14] = h[14]
            /\ f[15] = h[15] /\ f[16] = h[16] /\ f[17] = h[17] /\ f[18] = h[18] /\ f[19] = h[19]
            /\ f[20] = h[20] /\ f[21] = h[21] /\ f[22] = h[22] /\ f[23] = h[23] /\ f[24] = h[24]
            /\ f[25] = h[25] /\ f[26] = h[26] /\ f[27] = h[27] /\ f[28] = h[28] /\ f[29] = h[29]
        BY <1>7, <1>10, <1>11, ImageBytes
      <3> HIDE DEF f, h
      <3>2. \A i \in 0..29 : f[i] = h[i]  BY <3>1, SMT
      <3> QED  BY <3>2 DEF f, h
    <2>2. XorAll(Image(s), 30) = XorAll(Image(a), 30)
      BY <2>1, SumOfImage, Zenon
    <2>3. 32 - 2 = 30  OBVIOUS
    <2> QED  BY <2>2, <2>3, Zenon DEF Get_check_sum, SizeofPayload
  <1>13. e = s  BY <1>1, <1>4, Zenon
  <1> HIDE DEF s
  <1> QED  BY <1>8, <1>11, <1>12, <1>13, Zenon

\* What a receiver can rely on in 26 bytes.
Readable(w) ==
    /\ ChecksumValid(w)
    /\ OneHourBehind(WireTime(w, 8), WireTime(w, 16))
    /\ w[0] = Elapsed(BootTime, WireTime(w, 8)) % 256

\* The datagram's number follows the clock, also over its own wrap, and DATA
\* is complete when it is sent.
SentInv ==
    /\ Datagram.number = Counted % 256
    /\ pc = "Send" => Readable(DATA)
    /\ wire # NoDatagram => Readable(wire)

\* The number after one more second.
LEMMA NextNumber ==
    ASSUME NEW n \in Nat
    PROVE  U8((n % 256) + 1) = (n + 1) % 256
PROOF BY SMT DEF U8

\* The first datagram has number 0.
LEMMA InitSentInv == Init => SentInv
PROOF
  <1> SUFFICES ASSUME Init PROVE SentInv  OBVIOUS
  <1>1. Datagram = Datagram_parameters_initialisation /\ pc # "Send" /\ wire = NoDatagram
    BY DEF Init, Booted
  <1>2. Counted = 0
    BY <1>1, BootDatagram, BootedCount DEF Counted
  <1>3. Datagram.number = 0
    BY <1>1, SMT DEF Datagram_parameters_initialisation
  <1>4. 0 % 256 = 0
    OBVIOUS
  <1> QED  BY <1>1, <1>2, <1>3, <1>4, Zenon DEF SentInv

\* The datagram of a counted second.
LEMMA LatchSentInv == IInv /\ SentInv /\ Latch => SentInv'
PROOF
  <1> SUFFICES ASSUME IInv, SentInv, Latch PROVE SentInv'  OBVIOUS
  <1>1. Datagram \in PAYLOAD /\ Datagram.msk \in TIME /\ Datagram.local \in TIME
    BY Typed, Zenon DEF IInv, TypeOK
  <1>2. /\ Normal(Datagram.msk) /\ Normal(Datagram.local)
        /\ OneHourBehind(Datagram.msk, Datagram.local)
    BY Zenon DEF IInv, TimesInv, Latch
  <1>3. AddSecond(Datagram.msk) \in TIME /\ AddSecond(Datagram.local) \in TIME
    BY <1>1, <1>2, AddSecondFields
  <1>4. PICK d \in NextDatagrams(Datagram) : Datagram' = d /\ DATA' = DATA_construct(d)
    BY Zenon DEF Latch
  <1>5. d \in PAYLOAD /\ d.msk = AddSecond(Datagram.msk) /\ d.local = AddSecond(Datagram.local)
    BY <1>1, <1>3, NextDatagramFields, Zenon
  <1>6. d.number = U8(Datagram.number + 1) /\ d.check_sum = Get_check_sum(d)
    BY <1>1, <1>3, NextDatagramSum, Zenon
  <1>7. Elapsed(BootTime, d.msk) = Counted + 1 /\ Counted \in Nat
    <2>1. Elapsed(BootTime, AddSecond(Datagram.msk)) = Elapsed(BootTime, Datagram.msk) + 1
      BY <1>1, <1>2, BootTimeFields, AddSecondElapsed
    <2> QED  BY <1>5, <2>1, Zenon DEF Counted, IInv, CountInv
  <1>8. d.number = (Counted + 1) % 256
    <2>1. Datagram.number = Counted % 256  BY Zenon DEF SentInv
    <2> QED  BY <1>6, <1>7, <2>1, NextNumber, Zenon
  <1>9. OneHourBehind(d.msk, d.local)
    BY <1>1, <1>2, <1>5, AddSecondKeepsHour, Zenon
  <1>10. Readable(DATA_construct(d))
    <2>1. ChecksumValid(DATA_construct(d))  BY <1>5, <1>6, SummedIsValid, Zenon
    <2>2. WireTime(DATA_construct(d), 8) = d.msk /\ WireTime(DATA_construct(d), 16) = d.local
      BY <1>5, WireTimes, Zenon
    <2>3. DATA_construct(d)[0] = d.number  BY <1>5, WireBytes
    <2> QED  BY <1>7, <1>8, <1>9, <2>1, <2>2, <2>3, Zenon DEF Readable
  <1>11. Counted' = Counted + 1  BY <1>4, <1>7, Zenon DEF Counted
  <1>12. wire' = wire  BY Zenon DEF Latch
  <1> QED  BY <1>4, <1>8, <1>10, <1>11, <1>12, Zenon DEF SentInv

\* Time_counting changes neither the number nor the instant.
LEMMA TimeCountingSentInv == IInv /\ SentInv /\ TimeCounting => SentInv'
PROOF
  <1> SUFFICES ASSUME IInv, SentInv, TimeCounting PROVE SentInv'  OBVIOUS
  <1>1. Datagram \in PAYLOAD /\ Datagram.msk \in TIME /\ Datagram.local \in TIME
    BY Typed, Zenon DEF IInv, TypeOK
  <1>2. NormalOr60(Datagram.msk) /\ NormalOr60(Datagram.local)
    BY Zenon DEF IInv, TimesInv
  <1>3. Time_counting(Datagram.msk) \in TIME /\ Time_counting(Datagram.local) \in TIME
    BY <1>1, <1>2, CarryNormalises
  <1>4. Datagram'.msk = Time_counting(Datagram.msk)
    BY <1>1, <1>3, TimeCountingDatagram, Zenon
  <1>5. Datagram'.number = Datagram.number
    <2>1. Datagram' = [Datagram EXCEPT !.msk = Time_counting(@), !.local = Time_counting(@)]
      BY Zenon DEF TimeCounting
    <2> QED  BY <1>1, <2>1, SMT DEF PAYLOAD
  <1>6. Counted' = Counted
    <2>1. Datagram.msk.year > 0 /\ Datagram.msk.year < 65535
      BY <1>1, <1>2, YearInRange, Typed DEF IInv, CountInv, Counted
    <2>2. Elapsed(BootTime, Time_counting(Datagram.msk)) = Elapsed(BootTime, Datagram.msk)
      BY <1>1, <1>2, <2>1, BootTimeFields, CarryKeepsInstant
    <2> QED  BY <1>4, <2>2 DEF Counted
  <1>7. pc' # "Send" /\ wire' = wire
    BY DEF TimeCounting
  <1> QED  BY <1>5, <1>6, <1>7, Zenon DEF SentInv

\* Every step keeps it.
LEMMA NextSentInv == IInv /\ SentInv /\ [Next]_vars => SentInv'
PROOF
  <1> SUFFICES ASSUME IInv, SentInv, [Next]_vars PROVE SentInv'  OBVIOUS
  <1>1. CASE Latch  BY <1>1, LatchSentInv
  <1>2. CASE TimeCounting  BY <1>2, TimeCountingSentInv
  <1>3. CASE UDPSend \/ UDPSendNoPbuf \/ PrintBlocked
    <2>1. /\ pc = "Send" /\ pc' \in {"Reload", "Stuck"} /\ wire' \in {wire, DATA}
          /\ Datagram' = Datagram
      BY <1>3, Zenon DEF UDPSend, UDPSendNoPbuf, PrintBlocked
    <2>2. pc' # "Send" /\ Counted' = Counted
      BY <2>1 DEF Counted
    <2> QED  BY <2>1, <2>2, Zenon DEF SentInv
  <1>4. CASE PpsInterrupt \/ HungSecond \/ LwIP_Pkt_Handle \/ LwIP_Periodic_Handle \/ Check
    <2>1. UNCHANGED <<Datagram, DATA, wire>> /\ (pc' = "Send" => pc = "Send")
      BY <1>4 DEF PpsInterrupt, HungSecond, code, LwIP_Pkt_Handle, LwIP_Periodic_Handle,
                  Check
    <2>2. Counted' = Counted
      BY <2>1 DEF Counted
    <2> QED  BY <2>1, <2>2, Zenon DEF SentInv
  <1>5. CASE IWDG_ReloadCounter
    <2>1. Datagram' = Datagram /\ wire' = NoDatagram /\ pc' # "Send"
      BY <1>5 DEF IWDG_ReloadCounter
    <2>2. Counted' = Counted
      BY <2>1 DEF Counted
    <2> QED  BY <2>1, <2>2, Zenon DEF SentInv
  <1>6. CASE WatchdogReset
    <2>1. Init'  BY <1>6 DEF Init, WatchdogReset
    <2>2. Init' => SentInv'  BY InitSentInv, PTL
    <2> QED  BY <2>1, <2>2
  <1>7. CASE UNCHANGED vars
    <2>1. UNCHANGED <<Datagram, DATA, wire, pc>>
      BY <1>7, Zenon DEF vars, code
    <2>2. Counted' = Counted
      BY <2>1 DEF Counted
    <2> QED  BY <2>1, <2>2, Zenon DEF SentInv
  <1> QED  BY <1>1, <1>2, <1>3, <1>4, <1>5, <1>6, <1>7 DEF Next, LoopStep

\* A receiver can trust every datagram on its own (Main.c:571-594): checksum, times
\* and number agree, after any number of seconds and resets.
THEOREM DatagramsReadable == Spec => []WireConsistent
PROOF
  <1>1. SentInv => WireConsistent
    BY Zenon DEF SentInv, Readable, WireConsistent
  <1> QED  BY <1>1, InitSentInv, NextSentInv, Invariance, PTL DEF Spec

-----------------------------------------------------------------------------
(* lwIP's periodic timers.                                                 *)

\* A timer last run at `timer', age interrupts ago: the ticks counted since,
\* which LwIP_Periodic_Handle sees, fall behind by what is pending only, and
\* it has acted on them before the next one is counted.
Kept(timer, age, period) ==
    /\ age <= Minus32(ticks, timer) + Pending
    /\ Minus32(ticks, timer) <= period
    /\ pc \in {"TimeCounting", "Check", "Latch"} => Minus32(ticks, timer) < period

PeriodInv ==
    Timely =>
        /\ Kept(TCPTimer, tcpAge, TCP_PERIOD)
        /\ Kept(ARPTimer, arpAge, ARP_TMR_INTERVAL)

\* What one step does to one timer.
Runs(timer, age, period, x, y) ==
    \/ PpsInterrupt /\ x = timer /\ y = age + 1
    \/ /\ LwIP_Periodic_Handle
       /\ IF Due(ticks, timer, period) THEN x = ticks /\ y = 0 ELSE x = timer /\ y = age
    \/ /\ \/ LwIP_Pkt_Handle \/ TimeCounting \/ Check \/ Latch \/ UDPSend \/ UDPSendNoPbuf
          \/ PrintBlocked \/ IWDG_ReloadCounter \/ HungSecond
       /\ x = timer /\ y = age
    \/ WatchdogReset /\ x = 0 /\ y = 0

\* Differences of counters add up until they lap each other.
LEMMA MinusAdds ==
    ASSUME NEW a \in 0..(TickModulus - 1), NEW b \in 0..(TickModulus - 1),
           NEW c \in 0..(TickModulus - 1),
           Minus32(a, b) + Minus32(b, c) < TickModulus
    PROVE  Minus32(a, c) = Minus32(a, b) + Minus32(b, c)
PROOF
  <1>1. /\ Minus32(a, b) = IF a >= b THEN a - b ELSE a - b + TickModulus
        /\ Minus32(b, c) = IF b >= c THEN b - c ELSE b - c + TickModulus
        /\ Minus32(a, c) = IF a >= c THEN a - c ELSE a - c + TickModulus
    BY Minus32Value
  <1> QED  BY <1>1, ModulusAssumption

\* Every step keeps either timer to its period.
LEMMA StepKept ==
    ASSUME IInv, Timely, NEW period \in Nat \ {0}, period + 1 < TickModulus,
           NEW timer \in 0..(TickModulus - 1), NEW age \in Nat,
           Kept(timer, age, period), NEW x, NEW y, Runs(timer, age, period, x, y)
    PROVE  Kept(x, y, period)'
PROOF
  <1>1. /\ ticks \in 0..(TickModulus - 1) /\ ticks_two \in 0..(TickModulus - 1)
        /\ 0 \in 0..(TickModulus - 1) /\ TickModulus \in Nat /\ Pending \in Nat
    BY Typed, ModulusAssumption DEF IInv, TypeOK
  <1>2. Minus32(ticks, timer) \in Nat /\ Minus32(ticks, ticks) = 0 /\ Minus32(0, 0) = 0
    <2>1. Minus32(ticks, timer) \in 0..(TickModulus - 1)  BY <1>1, Minus32Value
    <2>2. Minus32(ticks, ticks) = 0  BY <1>1, Minus32Value
    <2>3. Minus32(0, 0) = 0  BY <1>1, Minus32Value
    <2> QED  BY <1>1, <2>1, <2>2, <2>3
  <1>3. Pending <= 1
    BY DEF IInv, TimelyInv
  <1>4. /\ age <= Minus32(ticks, timer) + Pending
        /\ Minus32(ticks, timer) <= period
        /\ pc \in {"TimeCounting", "Check", "Latch"} => Minus32(ticks, timer) < period
    BY DEF Kept
  <1>5. CASE PpsInterrupt /\ x = timer /\ y = age + 1
    <2>1. UNCHANGED <<ticks, pc>>
      BY <1>5, Zenon DEF PpsInterrupt
    <2>2. Pending' = Pending + 1
      <3>1. Pending + 1 < TickModulus
        BY <1>1, <1>5, Typed, WatchdogAssumption DEF IInv, BacklogInv, PpsInterrupt
      <3>2. Minus32(PpsCount(ticks_two), ticks) = Pending + 1
        BY <1>1, <3>1, PpsCountPending, Zenon DEF Pending
      <3> QED  BY <1>5, <3>2, Zenon DEF PpsInterrupt, Pending
    <2>3. y <= Minus32(ticks, timer) + Pending'
      BY <1>1, <1>2, <1>4, <1>5, <2>2
    <2> QED  BY <1>4, <1>5, <2>1, <2>3, Zenon DEF Kept
  <1>6. CASE LwIP_Periodic_Handle /\ Due(ticks, timer, period) /\ x = ticks /\ y = 0
    <2>1. UNCHANGED <<ticks, ticks_two>>
      BY <1>6, Zenon DEF LwIP_Periodic_Handle
    <2>2. 0 <= 0 + Pending' /\ 0 <= period /\ 0 < period
      BY <1>1, <2>1 DEF Pending
    <2> QED  BY <1>2, <1>6, <2>1, <2>2, Zenon DEF Kept
  <1>7. CASE LwIP_Periodic_Handle /\ ~Due(ticks, timer, period) /\ x = timer /\ y = age
    <2>1. UNCHANGED <<ticks, ticks_two>>
      BY <1>7, Zenon DEF LwIP_Periodic_Handle
    <2>2. Minus32(ticks, timer) < period
      BY <1>2, <1>7 DEF Due
    <2> QED  BY <1>4, <1>7, <2>1, <2>2, Zenon DEF Kept, Pending
  <1>8. CASE Latch /\ x = timer /\ y = age
    <2>1. pc = "Latch" /\ pc' = "Send" /\ ticks' = ticks_two /\ ticks_two' = ticks_two
      BY <1>8, Zenon DEF Latch, LatchTicks
    <2>2. Pending = 1
      BY <1>1, <1>3, <2>1 DEF IInv, BacklogInv
    <2>3. Minus32(ticks, timer) < period
      BY <1>4, <2>1
    <2>4. Minus32(ticks_two, timer) = 1 + Minus32(ticks, timer)
      <3>1. Minus32(ticks_two, ticks) = 1
        BY <2>2 DEF Pending
      <3>2. Minus32(ticks_two, ticks) + Minus32(ticks, timer) < TickModulus
        BY <1>1, <1>2, <2>3, <3>1
      <3>3. Minus32(ticks_two, timer) = Minus32(ticks_two, ticks) + Minus32(ticks, timer)
        BY <1>1, <3>2, MinusAdds
      <3> QED  BY <3>1, <3>3, Zenon
    <2>5. Pending' = 0
      BY <1>1, <2>1, Minus32Value DEF Pending
    <2>6. Minus32(ticks_two, timer) <= period /\ age <= Minus32(ticks_two, timer) + 0
      BY <1>2, <1>4, <2>2, <2>3, <2>4
    <2>7. pc' \notin {"TimeCounting", "Check", "Latch"}
      BY <2>1
    <2> QED  BY <1>8, <2>1, <2>5, <2>6, <2>7, Zenon DEF Kept
  <1>9. CASE /\ \/ LwIP_Pkt_Handle \/ TimeCounting \/ Check \/ UDPSend \/ UDPSendNoPbuf
                \/ PrintBlocked \/ IWDG_ReloadCounter \/ HungSecond
             /\ x = timer /\ y = age
    <2>1. /\ UNCHANGED <<ticks, ticks_two>>
          /\ pc' \in {"TimeCounting", "Check", "Latch"} => pc \in {"TimeCounting", "Check", "Latch"}
      BY <1>9 DEF LwIP_Pkt_Handle, TimeCounting, Check, UDPSend, UDPSendNoPbuf, PrintBlocked,
                  IWDG_ReloadCounter, HungSecond, code
    <2> QED  BY <1>4, <1>9, <2>1, Zenon DEF Kept, Pending
  <1>10. CASE WatchdogReset /\ x = 0 /\ y = 0
    <2>1. ticks' = 0 /\ ticks_two' = 0
      BY <1>10, Zenon DEF WatchdogReset, Booted
    <2>2. 0 <= 0 + 0 /\ 0 <= period /\ 0 < period
      OBVIOUS
    <2> QED  BY <1>2, <1>10, <2>1, <2>2, Zenon DEF Kept, Pending
  <1> QED  BY <1>5, <1>6, <1>7, <1>8, <1>9, <1>10, Zenon DEF Runs

\* Both timers of LwIP_Periodic_Handle.
LEMMA NextPeriodInv == IInv /\ PeriodInv /\ [Next]_vars => PeriodInv'
PROOF
  <1> SUFFICES ASSUME IInv, PeriodInv, Timely, [Next]_vars
               PROVE  Kept(TCPTimer, tcpAge, TCP_PERIOD)' /\ Kept(ARPTimer, arpAge, ARP_TMR_INTERVAL)'
    BY Zenon DEF PeriodInv
  <1>1. /\ TCP_PERIOD \in Nat \ {0} /\ TCP_PERIOD + 1 < TickModulus
        /\ ARP_TMR_INTERVAL \in Nat \ {0} /\ ARP_TMR_INTERVAL + 1 < TickModulus
    BY PeriodAssumption
  <1>2. /\ Kept(TCPTimer, tcpAge, TCP_PERIOD) /\ Kept(ARPTimer, arpAge, ARP_TMR_INTERVAL)
        /\ TCPTimer \in 0..(TickModulus - 1) /\ tcpAge \in Nat
        /\ ARPTimer \in 0..(TickModulus - 1) /\ arpAge \in Nat
    BY Zenon DEF PeriodInv, IInv, TypeOK
  <1>3. CASE UNCHANGED vars
    <2>1. UNCHANGED <<ticks, ticks_two, pc, TCPTimer, tcpAge, ARPTimer, arpAge>>
      BY <1>3, Zenon DEF vars, code, ghost
    <2> QED  BY <1>2, <2>1, Zenon DEF Kept, Pending
  <1>4. CASE Next
    <2>1. /\ Runs(TCPTimer, tcpAge, TCP_PERIOD, TCPTimer', tcpAge')
          /\ Runs(ARPTimer, arpAge, ARP_TMR_INTERVAL, ARPTimer', arpAge')
      BY <1>4, Zenon DEF Next, LoopStep, Runs, PpsInterrupt, LwIP_Periodic_Handle, LwIP_Pkt_Handle,
            TimeCounting, Check, Latch, UDPSend, UDPSendNoPbuf, PrintBlocked,
            IWDG_ReloadCounter, HungSecond, WatchdogReset, Booted, code, ghost
    <2>2. PICK x, y : x = TCPTimer' /\ y = tcpAge'
      OBVIOUS
    <2>3. PICK u, v : u = ARPTimer' /\ v = arpAge'
      OBVIOUS
    <2>4. Kept(x, y, TCP_PERIOD)'
      <3>1. PICK a, b : a = TCPTimer /\ b = tcpAge  OBVIOUS
      <3>2. Runs(a, b, TCP_PERIOD, x, y)  BY <2>1, <2>2, <3>1, Zenon
      <3> QED  BY <1>1, <1>2, <3>1, <3>2, StepKept, Zenon
    <2>5. Kept(u, v, ARP_TMR_INTERVAL)'
      <3>1. PICK a, b : a = ARPTimer /\ b = arpAge  OBVIOUS
      <3>2. Runs(a, b, ARP_TMR_INTERVAL, u, v)  BY <2>1, <2>3, <3>1, Zenon
      <3> QED  BY <1>1, <1>2, <3>1, <3>2, StepKept, Zenon
    <2> QED  BY <2>2, <2>3, <2>4, <2>5, Zenon DEF Kept
  <1> QED  BY <1>3, <1>4

\* tcp_tmr() and etharp_tmr() of a Timely loop run at their period in ticks
\* (netconf.c:118-152), for every period shorter than the counter's range.
THEOREM TimersPeriodic == Spec => []PeriodicTimersRun
PROOF
  <1>1. Init => PeriodInv
    <2> SUFFICES ASSUME Init
                 PROVE  Kept(TCPTimer, tcpAge, TCP_PERIOD) /\ Kept(ARPTimer, arpAge, ARP_TMR_INTERVAL)
      BY Zenon DEF PeriodInv
    <2>1. /\ ticks = 0 /\ ticks_two = 0 /\ TCPTimer = 0 /\ ARPTimer = 0
          /\ tcpAge = 0 /\ arpAge = 0
      BY Zenon DEF Init, Booted
    <2>2. Minus32(0, 0) = 0
      <3>1. 0 \in 0..(TickModulus - 1)  BY ModulusAssumption
      <3> QED  BY <3>1, Minus32Value
    <2>3. 0 <= 0 + 0 /\ 0 <= TCP_PERIOD /\ 0 < TCP_PERIOD
          /\ 0 <= ARP_TMR_INTERVAL /\ 0 < ARP_TMR_INTERVAL
      BY PeriodAssumption
    <2> QED  BY <2>1, <2>2, <2>3, Zenon DEF Kept, Pending
  <1>2. IInv /\ PeriodInv => PeriodicTimersRun
    <2> SUFFICES ASSUME IInv, PeriodInv, Timely
                 PROVE  tcpAge <= TCP_PERIOD + 1 /\ arpAge <= ARP_TMR_INTERVAL + 1
      BY Zenon DEF PeriodicTimersRun
    <2>1. Pending \in Nat /\ Pending <= 1 /\ tcpAge \in Nat /\ arpAge \in Nat
      BY Typed DEF IInv, TimelyInv, TypeOK
    <2>2. Minus32(ticks, TCPTimer) \in Nat /\ Minus32(ticks, ARPTimer) \in Nat
      <3>1. /\ ticks \in 0..(TickModulus - 1) /\ TCPTimer \in 0..(TickModulus - 1)
            /\ ARPTimer \in 0..(TickModulus - 1)
        BY Zenon DEF IInv, TypeOK
      <3>2. /\ Minus32(ticks, TCPTimer) \in 0..(TickModulus - 1)
            /\ Minus32(ticks, ARPTimer) \in 0..(TickModulus - 1)
        BY <3>1, Minus32Value, Zenon
      <3> QED  BY <3>2, ModulusAssumption
    <2>3. /\ tcpAge <= Minus32(ticks, TCPTimer) + Pending /\ Minus32(ticks, TCPTimer) <= TCP_PERIOD
          /\ arpAge <= Minus32(ticks, ARPTimer) + Pending
          /\ Minus32(ticks, ARPTimer) <= ARP_TMR_INTERVAL
      BY Zenon DEF PeriodInv, Kept
    <2> QED  BY <2>1, <2>2, <2>3, PeriodAssumption
  <1> QED  BY <1>1, <1>2, NextPeriodInv, Invariance, PTL DEF Spec
=============================================================================
