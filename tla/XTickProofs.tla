----------------------------- MODULE XTickProofs -----------------------------
(***************************************************************************)
(* GetRawXTick loses no overflow of the timer and returns two halves of    *)
(* one instant, for every size of the counters and every speed of the      *)
(* processor that StepAssumption allows; its loop makes two turns at most; *)
(* the getters join the halves exactly; DelayMs ends in time.              *)
(*                                                                         *)
(* NoWrapLost is not inductive: it fails if the timer overflows while      *)
(* CNT_ZERO is still up.  PromptInv says why it cannot: the flag came up   *)
(* at cnt = 0, and from there to the interrupt there are at most six       *)
(* steps, whatever the place at which it came up.                          *)
(***************************************************************************)
EXTENDS XTick, TLAPS

\* The part of TypeOK the argument rests on.
TypeInv ==
    /\ cnt \in 0..(CntSize - 1) /\ zero \in BOOLEAN /\ irq \in BOOLEAN
    /\ m_dwInternalTicks \in 0..(WordSize - 1) /\ wraps \in 0..(WordSize - 1)
    /\ pc \in Labels
    /\ idle \in 0..StepClocks

\* The interrupt is masked exactly while GetRawXTick reads, and stays masked
\* into the next turn of its loop only with the flag up.
MaskInv ==
    /\ pc \in {"Idle", "Nop", "Disable", "Return"} => irq
    /\ pc \in {"Low", "High", "Over"} => ~irq

\* Steps made since the flag can have come up, in units of StepClocks.
Age ==
    IF pc = "Low" THEN StepClocks
    ELSE IF pc = "High" THEN 2 * StepClocks
    ELSE IF pc = "Over" THEN 3 * StepClocks
    ELSE IF pc = "Enable" THEN 4 * StepClocks
    ELSE IF pc = "Nop" THEN 5 * StepClocks
    ELSE 0

PromptInv == zero => cnt <= Age + idle

\* What the halves read so far are worth while the flag is down.
ReadInv ==
    /\ pc = "High" /\ ~zero => at = <<m_dwInternalTicks, lowbits>>
    /\ pc = "Over" /\ ~zero => at = <<highbits, lowbits>>
    /\ pc = "Return" => at = <<highbits, lowbits>>

IInv == TypeInv /\ MaskInv /\ PromptInv /\ NoWrapLost /\ ReadInv

\* The linear part of the assumptions, all that is needed below.
LEMMA Sizes ==
    /\ CntSize \in Nat \ {0} /\ WordSize \in Nat \ {0}
    /\ StepClocks \in Nat \ {0} /\ CntSize > 12 * StepClocks
PROOF
  <1>1. CntSize \in Nat /\ WordSize \in Nat \ {0}  BY Zenon, SizesAssumption
  <1>2. QED  BY <1>1, StepAssumption

\* The next value of a counter modulo k.
LEMMA Succ ==
    ASSUME NEW n \in Nat, NEW k \in Nat \ {0}, n < k
    PROVE  /\ (n + 1) % k \in 0..(k - 1)
           /\ (n + 1) % k = IF n + 1 = k THEN 0 ELSE n + 1
           /\ n % k = n
  OBVIOUS

\* The timer starts with nothing counted and nothing due.
LEMMA InitIInv == Init => IInv
PROOF
  <1> SUFFICES ASSUME Init PROVE IInv  OBVIOUS
  <1>1. TypeInv
    <2>1. zero \in BOOLEAN /\ irq \in BOOLEAN  BY Zenon DEF Init
    <2>2. 0 \in 0..(CntSize - 1) /\ 0 \in 0..(WordSize - 1) /\ 0 \in 0..StepClocks
      BY Sizes
    <2>3. pc \in Labels  BY DEF Init, Labels
    <2>4. QED  BY <2>1, <2>2, <2>3, Zenon DEF TypeInv, Init
  <1>2. MaskInv /\ PromptInv /\ ReadInv  BY DEF MaskInv, PromptInv, ReadInv, Init
  <1>3. NoWrapLost  BY DEF NoWrapLost, Init
  <1>4. QED  BY <1>1, <1>2, <1>3 DEF IInv

\* A clock of the timer: it cannot overflow while the flag is up.
LEMMA CountIInv == IInv /\ Count => IInv'
PROOF
  <1> SUFFICES ASSUME IInv, Count PROVE IInv'  OBVIOUS
  <1> USE Sizes DEF IInv
  <1>1. /\ cnt' \in 0..(CntSize - 1)
        /\ cnt' = IF cnt + 1 = CntSize THEN 0 ELSE cnt + 1
    <2>1. cnt \in Nat /\ cnt < CntSize  BY DEF TypeInv
    <2>2. cnt' = (cnt + 1) % CntSize  BY DEF Count
    <2>3. QED  BY <2>1, <2>2, Succ
  <1>2. wraps' \in 0..(WordSize - 1)  BY Succ DEF TypeInv, Count
  <1>3. ASSUME zero PROVE cnt + 1 < CntSize
    <2>1. Busy  BY <1>3 DEF Busy, MaskInv
    <2>2. idle \in Nat /\ idle + 1 <= StepClocks  BY <2>1 DEF Count, TypeInv
    <2>3. Age \in Nat /\ Age <= 5 * StepClocks  BY DEF Age
    <2>4. cnt <= Age + idle  BY <1>3 DEF PromptInv
    <2>5. cnt \in Nat  BY DEF TypeInv
    <2>6. QED  BY <2>2, <2>3, <2>4, <2>5
  <1>4. zero' = (zero \/ cnt' = 0) /\ pc' = pc /\ irq' = irq  BY DEF Count
  <1>5. TypeInv'
    <2>1. idle' \in 0..StepClocks  BY DEF TypeInv, Count
    <2>2. zero' \in BOOLEAN  BY <1>4
    <2>3. QED  BY <1>1, <1>2, <2>1, <2>2 DEF TypeInv, Count
  <1>6. MaskInv'  BY <1>4 DEF MaskInv
  <1>7. PromptInv'
    <2>1. Age' = Age /\ Age \in Nat  BY <1>4 DEF Age
    <2>2. idle \in Nat /\ idle' \in Nat /\ cnt \in Nat  BY <1>5 DEF TypeInv
    <2>3. CASE cnt' = 0
      <3>1. ASSUME NEW a \in Nat, NEW i \in Nat PROVE 0 <= a + i  OBVIOUS
      <3>2. cnt' <= Age' + idle'  BY <2>1, <2>2, <2>3, <3>1, Zenon
      <3>3. QED  BY <3>2 DEF PromptInv
    <2>4. CASE cnt' # 0 /\ zero
      <3>1. Busy  BY <2>4 DEF Busy, MaskInv
      <3>2. idle' = idle + 1  BY <3>1 DEF Count
      <3>3. cnt' = cnt + 1  BY <1>1, <2>4
      <3>4. cnt <= Age + idle  BY <2>4 DEF PromptInv
      <3>5. cnt' <= Age' + idle'  BY <2>1, <2>2, <3>2, <3>3, <3>4
      <3>6. QED  BY <3>5 DEF PromptInv
    <2>5. CASE cnt' # 0 /\ ~zero  BY <1>4, <2>5 DEF PromptInv
    <2>6. QED  BY <2>3, <2>4, <2>5
  <1>8. NoWrapLost'
    <2>1. CASE cnt' = 0
      <3>1. cnt + 1 = CntSize  BY <1>1, <2>1 DEF TypeInv
      <3>2. ~zero  BY <1>3, <3>1 DEF TypeInv
      <3>3. zero'  BY <1>4, <2>1
      <3>4. wraps = m_dwInternalTicks  BY <3>2 DEF NoWrapLost
      <3>5. wraps' = (m_dwInternalTicks + 1) % WordSize  BY <2>1, <3>4 DEF Count
      <3>6. m_dwInternalTicks' = m_dwInternalTicks  BY DEF Count
      <3>7. QED  BY <3>3, <3>5, <3>6, Zenon DEF NoWrapLost
    <2>2. CASE cnt' # 0
      BY <1>4, <2>2, Zenon DEF NoWrapLost, Count
    <2>3. QED  BY <2>1, <2>2
  <1>9. ReadInv'  BY <1>4 DEF ReadInv, Count, reading
  <1>10. QED  BY <1>5, <1>6, <1>7, <1>8, <1>9

\* The interrupt counts the overflow that the flag stood for.
LEMMA InterruptIInv == IInv /\ TIMER1_IRQHandler => IInv'
PROOF
  <1> SUFFICES ASSUME IInv, TIMER1_IRQHandler PROVE IInv'  OBVIOUS
  <1> USE Sizes DEF IInv
  <1>1. m_dwInternalTicks' = (m_dwInternalTicks + 1) % WordSize
    BY DEF TIMER1_IRQHandler, InternalTicks
  <1>2. m_dwInternalTicks' \in 0..(WordSize - 1)  BY <1>1, Succ DEF TypeInv
  <1>3. TypeInv'
    <2>1. 0 \in 0..StepClocks  OBVIOUS
    <2>2. QED  BY <1>2, <2>1, Zenon DEF TypeInv, TIMER1_IRQHandler
  <1>4. MaskInv' /\ PromptInv'  BY Zenon DEF MaskInv, PromptInv, TIMER1_IRQHandler
  <1>5. NoWrapLost'
    <2>1. wraps = m_dwInternalTicks'  BY <1>1 DEF NoWrapLost, TIMER1_IRQHandler
    <2>2. wraps' = wraps /\ ~zero'  BY DEF TIMER1_IRQHandler
    <2>3. QED  BY <2>1, <2>2 DEF NoWrapLost
  <1>6. ReadInv'
    BY DEF ReadInv, MaskInv, TIMER1_IRQHandler, reading
  <1>7. QED  BY <1>3, <1>4, <1>5, <1>6

\* The steps of the program leave the timer alone and count no overflow.
LEMMA CodeIInv ==
    ASSUME IInv,
           \/ Enable \/ Nop \/ Disable \/ ReadLow \/ ReadHigh \/ TestOver \/ Return
           \/ CallGetXTick \/ CallDelayMs
    PROVE  IInv'
PROOF
  <1> USE Sizes DEF IInv
  <1>1. UNCHANGED <<timer, m_dwInternalTicks>> /\ idle' = 0
    BY DEF Enable, Nop, Disable, ReadLow, ReadHigh, TestOver, Return,
           CallGetXTick, CallDelayMs
  <1>2. cnt' = cnt /\ zero' = zero /\ wraps' = wraps
        /\ m_dwInternalTicks' = m_dwInternalTicks
    BY <1>1 DEF timer
  <1>3. pc' \in Labels /\ irq' \in BOOLEAN
    BY DEF TypeInv, Labels, Enable, Nop, Disable, ReadLow, ReadHigh, TestOver, Return,
           Leave, CallGetXTick, CallDelayMs
  <1>4. TypeInv'  BY <1>1, <1>2, <1>3 DEF TypeInv
  <1>5. MaskInv'
    BY DEF MaskInv, Enable, Nop, Disable, ReadLow, ReadHigh, TestOver, Return,
           Leave, CallGetXTick, CallDelayMs
  <1>6. PromptInv'
    BY <1>1, <1>2 DEF TypeInv, MaskInv, PromptInv, Age, NoInterrupt, Enable, Nop,
           Disable, ReadLow, ReadHigh, TestOver, Return, Leave, CallGetXTick, CallDelayMs
  <1>7. NoWrapLost'  BY <1>2 DEF NoWrapLost
  <1>8. ReadInv'
    <2>1. ~zero => wraps = m_dwInternalTicks  BY DEF NoWrapLost
    <2>2. QED
      BY <1>2, <2>1 DEF ReadInv, Enable, Nop, Disable, ReadLow, ReadHigh, TestOver,
           Return, Leave, CallGetXTick, CallDelayMs, reading
  <1>9. QED  BY <1>4, <1>5, <1>6, <1>7, <1>8

\* Every step keeps the invariant.
LEMMA NextIInv == IInv /\ [Next]_vars => IInv'
PROOF
  <1> SUFFICES ASSUME IInv, [Next]_vars PROVE IInv'  OBVIOUS
  <1>1. CASE UNCHANGED vars
    <2>1. /\ UNCHANGED <<cnt, zero, wraps, irq, m_dwInternalTicks, pc>>
          /\ UNCHANGED <<lowbits, highbits, at, idle>>
      BY <1>1 DEF vars, timer, reading
    <2>2. QED
      BY <2>1 DEF IInv, TypeInv, MaskInv, PromptInv, Age, NoWrapLost, ReadInv
  <1>2. CASE Next
    BY <1>2, CountIInv, InterruptIInv, CodeIInv DEF Next, Code
  <1>3. QED  BY <1>1, <1>2

\* No overflow of TIMER1 is lost while GetRawXTick masks its interrupt.
THEOREM WrapsCounted == Spec => []NoWrapLost
PROOF
  <1>1. IInv => NoWrapLost  BY DEF IInv
  <1>2. QED  BY <1>1, InitIInv, NextIInv, PTL DEF Spec

\* The halves GetRawXTick returns belong to one instant.
THEOREM ReadingsConsistent == Spec => []ReadingConsistent
PROOF
  <1>1. IInv => ReadingConsistent  BY DEF IInv, ReadInv, ReadingConsistent
  <1>2. QED  BY <1>1, InitIInv, NextIInv, PTL DEF Spec

-----------------------------------------------------------------------------
(* The loop of GetRawXTick makes two turns at most.  The flag that makes it *)
(* start over came up at cnt = 0, so the second turn ends long before the   *)
(* next overflow.                                                           *)

\* The clocks that may have passed since the flag came up, at the places of
\* the second turn and without the present step.
RetryAge ==
    IF pc = "Nop" THEN 6 * StepClocks
    ELSE IF pc = "Disable" THEN 7 * StepClocks
    ELSE IF pc = "Low" THEN 8 * StepClocks
    ELSE IF pc = "High" THEN 9 * StepClocks
    ELSE 10 * StepClocks

RetryInv ==
    /\ tries \in 0..2
    /\ pc = "Enable" => tries = 0 \/ (tries = 1 /\ zero /\ ~irq)
    /\ pc \in {"Nop", "Disable", "Low", "High", "Over"} => tries >= 1
    /\ tries = 2 =>
         /\ pc \in {"Nop", "Disable", "Low", "High", "Over", "Return"}
         /\ pc \in {"Disable", "Low", "High", "Over"} => ~zero
         /\ pc # "Return" /\ ~zero => cnt <= RetryAge + idle

\* The timer does not come round in the second turn.
LEMMA CountRetry == IInv /\ RetryInv /\ Count => RetryInv'
PROOF
  <1> SUFFICES ASSUME IInv, RetryInv, Count PROVE RetryInv'  OBVIOUS
  <1>1. UNCHANGED <<irq, pc, tries>> /\ cnt' = (cnt + 1) % CntSize
        /\ zero' = (zero \/ cnt' = 0)
    BY Zenon DEF Count
  <1>2. cnt \in Nat /\ cnt < CntSize /\ idle \in Nat /\ idle <= StepClocks
    BY Sizes DEF IInv, TypeInv
  <1>3. ASSUME tries = 2, pc # "Return", ~zero
        PROVE  cnt + 1 < CntSize /\ ~zero' /\ cnt' <= RetryAge' + idle'
    <2>1. idle < StepClocks /\ idle' = idle + 1
      BY <1>3 DEF Count, Busy, RetryInv
    <2>2. RetryAge \in Nat /\ RetryAge <= 10 * StepClocks /\ RetryAge' = RetryAge
      BY <1>1, Sizes DEF RetryAge
    <2>3. cnt <= RetryAge + idle
      BY <1>3 DEF RetryInv
    <2>4. cnt + 1 < CntSize
      BY <1>2, <2>1, <2>2, <2>3, Sizes
    <2>5. cnt' = cnt + 1
      BY <1>1, <1>2, <2>4, Sizes, Succ
    <2>6. ~zero'
      <3>1. cnt' # 0  BY <1>2, <2>5
      <3> QED  BY <1>1, <1>3, <3>1, Zenon
    <2> QED  BY <1>2, <2>1, <2>2, <2>3, <2>4, <2>5, <2>6
  <1>4. zero => zero'
    BY <1>1
  <1> QED  BY <1>1, <1>3, <1>4 DEF RetryInv

\* Nor does the interrupt, nor a step of the program, start a third turn.
LEMMA StepRetry ==
    ASSUME IInv, RetryInv, Code \/ CallGetXTick \/ CallDelayMs
    PROVE  RetryInv'
PROOF
  <1>1. CASE TIMER1_IRQHandler
    <2>1. zero /\ irq /\ ~zero' /\ idle' = 0 /\ UNCHANGED <<cnt, irq, pc, tries>>
      BY <1>1, Zenon DEF TIMER1_IRQHandler
    <2>2. tries = 2 /\ pc = "Nop" => cnt <= 6 * StepClocks
      BY <2>1, Sizes DEF IInv, TypeInv, PromptInv, Age
    <2>3. tries = 2 => pc \in {"Nop", "Return"}
      BY <2>1 DEF RetryInv
    <2>4. 6 * StepClocks + 0 = 6 * StepClocks
      BY Sizes
    <2>5. tries = 2 /\ pc # "Return" => cnt <= RetryAge' + idle'
      BY <2>1, <2>2, <2>3, <2>4 DEF RetryAge
    <2> QED  BY <2>1, <2>3, <2>5 DEF RetryInv
  <1>2. CASE Enable
    <2>1. /\ pc = "Enable" /\ pc' = "Nop" /\ tries' = tries + 1
          /\ cnt' = cnt /\ zero' = zero
      BY <1>2, Zenon DEF Enable, timer
    <2> QED  BY <2>1 DEF RetryInv
  <1>3. CASE Nop
    <2>1. /\ pc = "Nop" /\ pc' = "Disable" /\ idle' = 0 /\ ~(zero /\ irq)
          /\ UNCHANGED <<cnt, zero, irq, tries>>
      BY <1>3, Zenon DEF Nop, timer, NoInterrupt
    <2>2. ~zero
      BY <2>1 DEF IInv, MaskInv
    <2>3. tries = 2 => cnt <= 7 * StepClocks
      BY <2>1, <2>2, Sizes DEF IInv, TypeInv, RetryInv, RetryAge
    <2>4. RetryAge' + idle' = 7 * StepClocks
      BY <2>1, Sizes DEF RetryAge
    <2> QED  BY <2>1, <2>2, <2>3, <2>4 DEF RetryInv
  <1>4. CASE Disable \/ ReadLow \/ ReadHigh
    <2>1. /\ \/ pc = "Disable" /\ pc' = "Low"
             \/ pc = "Low" /\ pc' = "High"
             \/ pc = "High" /\ pc' = "Over"
          /\ idle' = 0 /\ UNCHANGED <<cnt, zero, tries>>
      BY <1>4, Zenon DEF Disable, ReadLow, ReadHigh, timer
    <2>2. tries = 2 => ~zero /\ cnt <= RetryAge'
      BY <2>1, Sizes DEF IInv, TypeInv, RetryInv, RetryAge
    <2>3. RetryAge' + idle' = RetryAge'
      BY <2>1, Sizes DEF RetryAge
    <2> QED  BY <2>1, <2>2, <2>3 DEF RetryInv
  <1>5. CASE TestOver
    BY <1>5 DEF TestOver, RetryInv, IInv, MaskInv, timer
  <1>6. CASE Return \/ CallGetXTick \/ CallDelayMs
    <2>1. tries' = 0 /\ pc' \in {"Idle", "Enable"}
      BY <1>6, Zenon DEF Return, Leave, CallGetXTick, CallDelayMs
    <2> QED  BY <2>1 DEF RetryInv
  <1> QED  BY <1>1, <1>2, <1>3, <1>4, <1>5, <1>6 DEF Code

\* So it is in every state.
LEMMA RetryHolds == Spec => []RetryInv
PROOF
  <1>1. Init => RetryInv
    BY DEF Init, RetryInv
  <1>2. IInv /\ RetryInv /\ [Next]_vars => RetryInv'
    <2> SUFFICES ASSUME IInv, RetryInv, [Next]_vars PROVE RetryInv'  OBVIOUS
    <2>1. CASE Next
      BY <2>1, CountRetry, StepRetry DEF Next
    <2>2. CASE UNCHANGED vars
      BY <2>2 DEF vars, timer, RetryInv, RetryAge
    <2> QED  BY <2>1, <2>2
  <1> QED  BY <1>1, <1>2, InitIInv, NextIInv, PTL DEF Spec

\* An overflow makes GetRawXTick start over once at most (XTick.c:43-54),
\* for every size of the counter that leaves time for two turns.
THEOREM RetriesBounded == Spec => []AtMostOneRetry
PROOF
  <1>1. RetryInv => AtMostOneRetry
    BY DEF RetryInv, AtMostOneRetry
  <1> QED  BY <1>1, RetryHolds, PTL

-----------------------------------------------------------------------------
(* The two halves of a reading.                                            *)

\* Multiplication by a natural keeps the order.
LEMMA MulMono ==
    ASSUME NEW b \in Nat, NEW x \in Int, NEW y \in Int, x <= y
    PROVE  b * x <= b * y
OBVIOUS

\* Division with remainder.
LEMMA DivMod ==
    ASSUME NEW a \in Int, NEW b \in Nat \ {0}
    PROVE  a = b * (a \div b) + (a % b) /\ a % b \in Nat /\ a % b < b /\ a \div b \in Int
PROOF
  <1>1. a % b \in Nat /\ a % b < b  BY SMT
  <1>2. a \div b \in Int  BY SMT
  <1>3. a = b * (a \div b) + (a % b)  BY SMT
  <1> QED  BY <1>1, <1>2, <1>3, Zenon

\* q and r are a quotient and a remainder of a by b.
Divided(a, b, q, r) == b \in Nat \ {0} /\ q \in Int /\ r \in Nat /\ r < b /\ a = b * q + r

\* Quotient and remainder are the only ones.
LEMMA DivUnique ==
    ASSUME NEW a, NEW b, NEW q, NEW r, Divided(a, b, q, r)
    PROVE  a \div b = q /\ a % b = r
PROOF
  <1> USE DEF Divided
  <1> DEFINE p == a \div b
             s == a % b
  <1>0. a \in Int
    OBVIOUS
  <1>1. b * q + r = b * p + s /\ s \in Nat /\ s < b /\ p \in Int
    <2>1. a = b * p + s /\ s \in Nat /\ s < b /\ p \in Int
      BY <1>0, DivMod, Zenon
    <2> HIDE DEF p, s
    <2> QED  BY <2>1
  <1> HIDE DEF p, s
  <1>2. ~(p >= q + 1)
    <2> SUFFICES ASSUME p >= q + 1 PROVE FALSE  OBVIOUS
    <2>1. b * (q + 1) <= b * p  BY <1>1, MulMono
    <2> QED  BY <1>1, <2>1
  <1>3. ~(q >= p + 1)
    <2> SUFFICES ASSUME q >= p + 1 PROVE FALSE  OBVIOUS
    <2>1. b * (p + 1) <= b * q  BY <1>1, MulMono
    <2> QED  BY <1>1, <2>1
  <1>4. p = q  BY <1>1, <1>2, <1>3
  <1>5. s = r  BY <1>1, <1>4
  <1> QED  BY <1>4, <1>5 DEF p, s

\* A counter of m units of u clocks each, and a word of m times v units.
Sized(u, m, v, size, word) ==
    /\ u \in Nat \ {0} /\ m \in Nat \ {0} /\ v \in Nat \ {0}
    /\ size = u * m /\ word = m * v

\* The halves of a word, the lower one a counter's, meet without overlap:
\* they make the time modulo the word.
LEMMA JoinHalves ==
    ASSUME NEW u, NEW m, NEW v, NEW size, NEW word, Sized(u, m, v, size, word),
           NEW high \in Nat, NEW low \in Nat, low < size
    PROVE  /\ (low \div u) + ((high * m) % word) = ((high * size + low) \div u) % word
           /\ (low \div u) + ((high * m) % word) \in Nat
           /\ (low \div u) + ((high * m) % word) < word
PROOF
  <1> USE DEF Sized
  <1>1. PICK d \in Int, e \in Nat : low = u * d + e /\ e < u /\ low \div u = d
    <2>1. low \in Int  OBVIOUS
    <2> QED  BY <2>1, DivMod, Zenon
  <1>2. PICK q \in Int, r \in Nat : high = v * q + r /\ r < v
    <2>1. high \in Int  OBVIOUS
    <2> QED  BY <2>1, DivMod, Zenon
  <1>3. d \in Nat /\ d < m
    <2>1. ~(d >= m)
      <3> SUFFICES ASSUME d >= m PROVE FALSE  OBVIOUS
      <3>1. u * m <= u * d  BY <1>1, MulMono
      <3> QED  BY <1>1, <3>1
    <2>2. ~(d <= -1)
      <3> SUFFICES ASSUME d <= -1 PROVE FALSE  OBVIOUS
      <3>1. u * d <= u * (-1)  BY <1>1, MulMono
      <3> QED  BY <1>1, <3>1
    <2> QED  BY <1>1, <2>1, <2>2
  <1>4. r * m \in Nat /\ m * (r + 1) <= word /\ m * (r + 1) = r * m + m
    <2>1. m * (r + 1) <= m * v  BY <1>2, MulMono
    <2> QED  BY <1>2, <2>1
  <1>5. word \in Nat \ {0} /\ r * m + d \in Nat /\ r * m + d < word /\ r * m < word
    BY <1>3, <1>4
  <1>6. high * m = word * q + r * m
    BY <1>2
  <1>7. (high * m) % word = r * m
    <2>1. Divided(high * m, word, q, r * m)
      BY <1>2, <1>4, <1>5, <1>6, Zenon DEF Divided
    <2> QED  BY <2>1, DivUnique, Zenon
  <1>8. high * size + low = u * (high * m + d) + e
    BY <1>1
  <1>9. (high * size + low) \div u = high * m + d
    <2>1. high * m + d \in Int  BY <1>1
    <2>2. Divided(high * size + low, u, high * m + d, e)
      BY <1>1, <1>8, <2>1, Zenon DEF Divided
    <2> QED  BY <2>2, DivUnique, Zenon
  <1>10. high * m + d = word * q + (r * m + d)
    BY <1>1, <1>2, <1>6
  <1>11. (high * m + d) % word = r * m + d
    <2>1. Divided(high * m + d, word, q, r * m + d)
      BY <1>2, <1>5, <1>10, Zenon DEF Divided
    <2> QED  BY <2>1, DivUnique, Zenon
  <1> QED  BY <1>1, <1>5, <1>7, <1>9, <1>11

\* The units of GetXTick and of GetXTickDiv1024.
LEMMA Units ==
    \E m \in Nat \ {0}, v \in Nat \ {0} :
        /\ CntSize = (TickSize * Div) * m /\ CntSize \div (TickSize * Div) = m
        /\ CntSize = TickSize * (Div * m) /\ CntSize \div TickSize = Div * m
        /\ WordSize = (Div * m) * v /\ WordSize = m * (Div * v)
PROOF
  <1>1. /\ TickSize \in Nat \ {0} /\ Div \in Nat \ {0} /\ WordSize \in Nat \ {0}
        /\ CntSize \in Nat \ {0} /\ CntSize % (TickSize * Div) = 0
        /\ WordSize % (CntSize \div TickSize) = 0
    BY SizesAssumption, Sizes, Zenon
  <1> DEFINE u == TickSize * Div
  <1>2. u \in Nat \ {0}
    BY <1>1
  <1>3. PICK m \in Int : CntSize = u * m /\ CntSize \div u = m
    <2> HIDE DEF u
    <2>1. CntSize = u * (CntSize \div u) + (CntSize % u) /\ CntSize \div u \in Int
      BY <1>1, <1>2, DivMod
    <2>2. CntSize % u = 0
      BY <1>1, Zenon DEF u
    <2>3. CntSize = u * (CntSize \div u)
      <3> DEFINE x == CntSize \div u
      <3>1. CntSize = u * x + 0 /\ x \in Int  BY <2>1, <2>2, Zenon
      <3> HIDE DEF x
      <3>2. CntSize = u * x  BY <1>2, <3>1
      <3> QED  BY <3>2 DEF x
    <2> QED  BY <2>1, <2>3, Zenon
  <1>4. m \in Nat \ {0}
    <2>1. ~(m <= 0)
      <3> SUFFICES ASSUME m <= 0 PROVE FALSE  OBVIOUS
      <3>1. u * m <= u * 0  BY <1>2, <1>3, MulMono
      <3> QED  BY <1>1, <1>2, <1>3, <3>1
    <2> QED  BY <1>3, <2>1
  <1>5. Div * m \in Nat \ {0} /\ CntSize = TickSize * (Div * m) + 0 /\ Div * m \in Int
    BY <1>1, <1>3, <1>4
  <1>6. CntSize \div TickSize = Div * m
    <2>1. Divided(CntSize, TickSize, Div * m, 0)
      BY <1>1, <1>5 DEF Divided
    <2> QED  BY <2>1, DivUnique, Zenon
  <1> DEFINE n == Div * m
  <1>7. n \in Nat \ {0} /\ WordSize % n = 0
    BY <1>1, <1>5, <1>6, Zenon
  <1>8. PICK v \in Int : WordSize = n * v
    <2> HIDE DEF n
    <2> QED  BY <1>1, <1>7, DivMod
  <1>9. v \in Nat \ {0}
    <2> HIDE DEF n
    <2>1. ~(v <= 0)
      <3> SUFFICES ASSUME v <= 0 PROVE FALSE  OBVIOUS
      <3>1. n * v <= n * 0  BY <1>7, <1>8, MulMono
      <3> QED  BY <1>1, <1>7, <1>8, <3>1
    <2> QED  BY <1>8, <2>1
  <1>10. WordSize = m * (Div * v)
    BY <1>1, <1>4, <1>8, <1>9
  <1>11. CntSize = TickSize * (Div * m)
    BY <1>1, <1>4, <1>5
  <1> QED  BY <1>3, <1>4, <1>6, <1>8, <1>9, <1>10, <1>11, Zenon

\* What GetXTick and GetXTickDiv1024 make of two halves.
LEMMA Getters ==
    ASSUME NEW high \in Nat, NEW low \in Nat, low < CntSize
    PROVE  /\ GetXTick(high, low) = TrueTick(high, low, TickSize)
           /\ GetXTick(high, low) \in Nat /\ GetXTick(high, low) < WordSize
           /\ GetXTickDiv1024(high, low) = TrueTick(high, low, TickSize * Div)
PROOF
  <1>1. PICK m \in Nat \ {0}, v \in Nat \ {0} :
        /\ CntSize = (TickSize * Div) * m /\ CntSize \div (TickSize * Div) = m
        /\ CntSize = TickSize * (Div * m) /\ CntSize \div TickSize = Div * m
        /\ WordSize = (Div * m) * v /\ WordSize = m * (Div * v)
    BY Units, Zenon
  <1>2. /\ TickSize \in Nat \ {0} /\ TickSize * Div \in Nat \ {0}
        /\ Div * m \in Nat \ {0} /\ Div * v \in Nat \ {0}
    <2>1. TickSize \in Nat \ {0} /\ Div \in Nat \ {0}
      BY SizesAssumption, Zenon
    <2> QED  BY <1>1, <2>1
  <1>3. /\ GetXTick(high, low) = (low \div TickSize) + ((high * (Div * m)) % WordSize)
        /\ GetXTickDiv1024(high, low) = (low \div (TickSize * Div)) + ((high * m) % WordSize)
    BY <1>1, Zenon DEF GetXTick, GetXTickDiv1024
  <1>4. /\ (low \div TickSize) + ((high * (Div * m)) % WordSize)
              = ((high * CntSize + low) \div TickSize) % WordSize
        /\ (low \div TickSize) + ((high * (Div * m)) % WordSize) \in Nat
        /\ (low \div TickSize) + ((high * (Div * m)) % WordSize) < WordSize
    <2>1. Sized(TickSize, Div * m, v, CntSize, WordSize)
      BY <1>1, <1>2, Zenon DEF Sized
    <2> QED  BY <2>1, JoinHalves, Zenon
  <1>5. (low \div (TickSize * Div)) + ((high * m) % WordSize)
              = ((high * CntSize + low) \div (TickSize * Div)) % WordSize
    <2>1. Sized(TickSize * Div, m, Div * v, CntSize, WordSize)
      BY <1>1, <1>2, Zenon DEF Sized
    <2>2. PICK u : u = TickSize * Div
      OBVIOUS
    <2>3. Sized(u, m, Div * v, CntSize, WordSize)
      BY <2>1, <2>2, Zenon
    <2>4. /\ (low \div u) + ((high * m) % WordSize) = ((high * CntSize + low) \div u) % WordSize
          /\ (low \div u) + ((high * m) % WordSize) \in Nat
          /\ (low \div u) + ((high * m) % WordSize) < WordSize
      BY <2>3, JoinHalves, Zenon
    <2> QED  BY <2>2, <2>4, Zenon
  <1> QED  BY <1>3, <1>4, <1>5, Zenon DEF TrueTick

-----------------------------------------------------------------------------
(* The rest of the type invariant.                                         *)

TypeRest ==
    /\ caller \in Callers
    /\ lowbits \in 0..(CntSize - 1) /\ highbits \in 0..(WordSize - 1)
    /\ at \in (0..(WordSize - 1)) \X (0..(CntSize - 1))
    /\ ticks \in 0..(WordSize - 1) /\ target \in 0..(WordSize - 1)
    /\ tries \in Nat /\ spent \in Nat

\* Both parts make the type invariant.
LEMMA TypeSplit == TypeInv /\ TypeRest <=> TypeOK
PROOF BY Zenon DEF TypeInv, TypeRest, TypeOK

\* The least number is in every range.
LEMMA Zeros ==
    /\ 0 \in 0..(CntSize - 1) /\ 0 \in 0..(WordSize - 1) /\ 0 \in Nat
    /\ <<0, 0>> \in (0..(WordSize - 1)) \X (0..(CntSize - 1))
PROOF
  <1>1. 0 \in 0..(CntSize - 1) /\ 0 \in 0..(WordSize - 1) /\ 0 \in Nat
    BY Sizes
  <1> QED  BY <1>1

\* Every step keeps the rest of the type: what DelayMs keeps is a GetXTick
\* value, which fits its word.
LEMMA RestNext ==
    ASSUME TypeInv, TypeRest, [Next]_vars
    PROVE  TypeRest'
PROOF
  <1>1. CASE Count
    <2>1. spent' \in Nat
      BY <1>1 DEF Count, TypeRest
    <2>2. UNCHANGED <<caller, lowbits, highbits, at, ticks, target, tries>>
      BY <1>1, Zenon DEF Count, reading
    <2> QED  BY <2>1, <2>2, Zenon DEF TypeRest
  <1>2. CASE TIMER1_IRQHandler \/ Nop \/ Disable \/ TestOver
    <2>1. UNCHANGED <<caller, lowbits, highbits, at, ticks, target, tries, spent>>
      BY <1>2, Zenon DEF TIMER1_IRQHandler, Nop, Disable, TestOver, reading, delay
    <2> QED  BY <2>1, Zenon DEF TypeRest
  <1>3. CASE Enable
    <2>1. UNCHANGED <<caller, lowbits, highbits, at, ticks, target, spent>> /\ tries' = tries + 1
      BY <1>3, Zenon DEF Enable, reading, delay
    <2>2. tries' \in Nat
      BY <2>1 DEF TypeRest
    <2> QED  BY <2>1, <2>2, Zenon DEF TypeRest
  <1>4. CASE ReadLow
    <2>1. /\ lowbits' = cnt /\ at' = <<wraps, cnt>> /\ spent' \in {spent, 0}
          /\ UNCHANGED <<caller, highbits, ticks, target, tries>>
      BY <1>4, Zenon DEF ReadLow
    <2>2. at' \in (0..(WordSize - 1)) \X (0..(CntSize - 1)) /\ cnt \in 0..(CntSize - 1)
      BY <2>1, Zenon DEF TypeInv
    <2> QED  BY <2>1, <2>2, Zeros, Zenon DEF TypeRest
  <1>5. CASE ReadHigh
    <2>1. highbits' = m_dwInternalTicks
          /\ UNCHANGED <<caller, lowbits, at, ticks, target, tries, spent>>
      BY <1>5, Zenon DEF ReadHigh, delay
    <2> QED  BY <2>1, Zenon DEF TypeRest, TypeInv
  <1>6. CASE Return
    <2>1. GetXTick(highbits, lowbits) \in 0..(WordSize - 1)
      <3>1. highbits \in Nat /\ lowbits \in Nat /\ lowbits < CntSize /\ WordSize \in Nat
        BY Sizes DEF TypeRest
      <3>2. GetXTick(highbits, lowbits) \in Nat /\ GetXTick(highbits, lowbits) < WordSize
        BY <3>1, Getters, Zenon
      <3> QED  BY <3>1, <3>2
    <2>2. /\ lowbits' = 0 /\ highbits' = 0 /\ at' = <<0, 0>> /\ tries' = 0
          /\ ticks' \in {0, ticks, GetXTick(highbits, lowbits)} /\ target' \in {0, target}
          /\ spent' \in {0, spent} /\ caller' \in {"none", "DelayPoll", caller}
      BY <1>6, Zenon DEF Return, Leave, delay
    <2>3. "none" \in Callers /\ "DelayPoll" \in Callers
      BY Zenon DEF Callers
    <2> QED  BY <2>1, <2>2, <2>3, Zeros, Zenon DEF TypeRest
  <1>7. CASE CallGetXTick
    <2>1. caller' = "GetXTick" /\ tries' = 0
          /\ UNCHANGED <<lowbits, highbits, at, ticks, target, spent>>
      BY <1>7, Zenon DEF CallGetXTick, reading, delay
    <2> QED  BY <2>1, Zeros, Zenon DEF TypeRest, Callers
  <1>8. CASE CallDelayMs
    <2>1. caller' = "DelayFirst" /\ tries' = 0
          /\ UNCHANGED <<lowbits, highbits, at, ticks, spent>>
      BY <1>8, Zenon DEF CallDelayMs, reading
    <2>2. target' \in 0..(WordSize - 1)
      <3>1. PICK ms \in Delays : target' = (TicksPerMs * ms) % WordSize
        BY <1>8, Zenon DEF CallDelayMs
      <3>2. TicksPerMs \in Nat /\ ms \in Nat
        BY DelaysAssumption
      <3>3. TicksPerMs * ms \in Int
        BY <3>2
      <3> DEFINE x == TicksPerMs * ms
      <3>4. x % WordSize \in Nat /\ x % WordSize < WordSize
        BY <3>3, Sizes, DivMod, Zenon
      <3> HIDE DEF x
      <3>5. x % WordSize \in 0..(WordSize - 1)
        BY <3>4, Sizes
      <3> QED  BY <3>1, <3>5, Zenon DEF x
    <2> QED  BY <2>1, <2>2, Zeros, Zenon DEF TypeRest, Callers
  <1>9. CASE UNCHANGED vars
    BY <1>9, Zenon DEF vars, reading, delay, TypeRest
  <1> QED  BY <1>1, <1>2, <1>3, <1>4, <1>5, <1>6, <1>7, <1>8, <1>9, Zenon DEF Next, Code

\* Both invariants hold in every state.
LEMMA Typed == Spec => [](IInv /\ TypeRest)
PROOF
  <1>1. Init => TypeRest
    BY Zeros, Zenon DEF Init, TypeRest, Callers
  <1>2. IInv /\ TypeRest /\ [Next]_vars => TypeRest'
    BY RestNext, Zenon DEF IInv
  <1> QED  BY <1>1, <1>2, InitIInv, NextIInv, PTL DEF Spec

\* Every counter and every value that DelayMs keeps fits its word, for every
\* size of counters (XTick.c).
THEOREM XTickTyped == Spec => []TypeOK
PROOF
  <1>1. IInv /\ TypeRest => TypeOK
    BY TypeSplit, Zenon DEF IInv
  <1> QED  BY <1>1, Typed, PTL

\* GetXTick and GetXTickDiv1024 return the time of the instant at which CNT
\* was read, modulo their word: the shifts of XTick.c:58-85 lose
\* nothing else, for every split of the word.
THEOREM GettersExact == Spec => []XTickExact
PROOF
  <1>1. IInv /\ TypeRest => XTickExact
    <2> SUFFICES ASSUME IInv, TypeRest, pc = "Return"
                 PROVE  /\ GetXTick(highbits, lowbits) = TrueTick(at[1], at[2], TickSize)
                        /\ GetXTickDiv1024(highbits, lowbits)
                              = TrueTick(at[1], at[2], TickSize * Div)
      BY Zenon DEF XTickExact
    <2>1. at[1] = highbits /\ at[2] = lowbits
      BY DEF IInv, ReadInv
    <2>2. highbits \in Nat /\ lowbits \in Nat /\ lowbits < CntSize
      BY Sizes DEF TypeRest
    <2> QED  BY <2>1, <2>2, Getters, Zenon
  <1> QED  BY <1>1, Typed, PTL

-----------------------------------------------------------------------------
(* DelayMs.  Its account in clocks, `spent', is tied to the timer by the   *)
(* instant f of the first reading: the present instant is f + spent but    *)
(* for whole rounds, so the difference of two GetXTick values is that of   *)
(* two instants less than a round apart.  That the round is never          *)
(* completed unnoticed needs a bound on the time from one reading to the   *)
(* next: PollAge, by the place in GetRawXTick, and one interrupt more.     *)

\* The clocks after which GetXTick comes round.
Round == WordSize * TickSize

\* The instants a and x differ by whole rounds.
Same(a, x) == \E n \in Int : a = x + n * Round

\* The sizes as numbers.
LEMMA Ticks == TickSize \in Nat \ {0} /\ WordSize \in Nat \ {0} /\ Round \in Nat \ {0}
PROOF
  <1>1. TickSize \in Nat \ {0} /\ WordSize \in Nat \ {0}
    BY SizesAssumption, Zenon
  <1> QED  BY <1>1 DEF Round

\* GetXTick's value is the same at such instants.
LEMMA SameTick ==
    ASSUME NEW a \in Int, NEW x \in Int, Same(a, x)
    PROVE  (a \div TickSize) % WordSize = (x \div TickSize) % WordSize
PROOF
  <1>1. PICK n \in Int : a = x + n * Round
    BY Zenon DEF Same
  <1>2. PICK q \in Int, r \in Nat : x = TickSize * q + r /\ r < TickSize /\ x \div TickSize = q
    BY Ticks, DivMod, Zenon
  <1>3. PICK p \in Int, s \in Nat : q = WordSize * p + s /\ s < WordSize /\ q % WordSize = s
    BY <1>2, Ticks, DivMod, Zenon
  <1>4. a = TickSize * (q + n * WordSize) + r /\ q + n * WordSize \in Int
    BY <1>1, <1>2, Ticks DEF Round
  <1>5. a \div TickSize = q + n * WordSize
    <2>1. Divided(a, TickSize, q + n * WordSize, r)
      BY <1>2, <1>4, Ticks, Zenon DEF Divided
    <2> QED  BY <2>1, DivUnique, Zenon
  <1>6. q + n * WordSize = WordSize * (p + n) + s /\ p + n \in Int
    BY <1>1, <1>3, Ticks
  <1>7. (q + n * WordSize) % WordSize = s
    <2>1. Divided(q + n * WordSize, WordSize, p + n, s)
      BY <1>3, <1>6, Ticks, Zenon DEF Divided
    <2> QED  BY <2>1, DivUnique, Zenon
  <1> QED  BY <1>2, <1>3, <1>5, <1>7, Zenon

\* The difference of two GetXTick values x clocks apart, in 32-bit arithmetic,
\* is the number of units between them, one more or one less.
LEMMA Elapsed ==
    ASSUME NEW f \in Nat, NEW x \in Nat, x + TickSize <= Round
    PROVE  \E d \in Nat :
              /\ ((((f + x) \div TickSize) % WordSize) - ((f \div TickSize) % WordSize)) % WordSize = d
              /\ TickSize * d < x + TickSize /\ x < TickSize * (d + 1)
PROOF
  <1>1. PICK q \in Int, r \in Nat : f = TickSize * q + r /\ r < TickSize /\ f \div TickSize = q
    <2>1. f \in Int  OBVIOUS
    <2> QED  BY <2>1, Ticks, DivMod, Zenon
  <1>2. PICK q2 \in Int, r2 \in Nat :
           f + x = TickSize * q2 + r2 /\ r2 < TickSize /\ (f + x) \div TickSize = q2
    <2>1. f + x \in Int  OBVIOUS
    <2> QED  BY <2>1, Ticks, DivMod, Zenon
  <1>3. PICK p \in Int, s \in Nat : q = WordSize * p + s /\ s < WordSize /\ q % WordSize = s
    BY <1>1, Ticks, DivMod, Zenon
  <1>4. PICK p2 \in Int, s2 \in Nat : q2 = WordSize * p2 + s2 /\ s2 < WordSize /\ q2 % WordSize = s2
    BY <1>2, Ticks, DivMod, Zenon
  <1>5. PICK d \in Int : d = q2 - q
    BY <1>1, <1>2
  <1>6. TickSize * d = x + r - r2
    <2>1. TickSize * d = TickSize * q2 - TickSize * q
      BY <1>1, <1>2, <1>5, Ticks
    <2> QED  BY <1>1, <1>2, <2>1, Ticks
  <1>7. TickSize * d < x + TickSize /\ x < TickSize * d + TickSize
        /\ TickSize * (d + 1) = TickSize * d + TickSize /\ TickSize * d \in Int
    BY <1>1, <1>2, <1>5, <1>6, Ticks
  <1>8. d \in Nat
    <2>1. ~(d <= -1)
      <3> SUFFICES ASSUME d <= -1 PROVE FALSE  OBVIOUS
      <3>1. TickSize * d <= TickSize * (-1)  BY <1>5, Ticks, MulMono
      <3> QED  BY <1>7, <3>1, Ticks
    <2> QED  BY <1>5, <2>1
  <1>9. d < WordSize
    <2> SUFFICES ASSUME d >= WordSize PROVE FALSE  BY <1>8, Ticks
    <2>1. TickSize * WordSize <= TickSize * d  BY <1>5, Ticks, MulMono
    <2>2. Round = TickSize * WordSize  BY Ticks DEF Round
    <2> QED  BY <1>7, <2>1, <2>2, Ticks
  <1>10. s2 - s = WordSize * (p - p2) + d /\ p - p2 \in Int
    BY <1>3, <1>4, <1>5, Ticks
  <1>11. (s2 - s) % WordSize = d
    <2>1. Divided(s2 - s, WordSize, p - p2, d)
      BY <1>8, <1>9, <1>10, Ticks, Zenon DEF Divided
    <2> QED  BY <2>1, DivUnique, Zenon
  <1>12. ((((f + x) \div TickSize) % WordSize) - ((f \div TickSize) % WordSize)) % WordSize = d
    BY <1>1, <1>2, <1>3, <1>4, <1>11, Zenon
  <1> QED  BY <1>7, <1>8, <1>12, Zenon

\* Clocks from a reading of a DelayMs that goes on waiting to the present
\* place of its next reading, without the present step and interrupts.
PollAge ==
    IF pc = "Enable" THEN IF tries = 0 THEN 3 * StepClocks ELSE 9 * StepClocks
    ELSE IF pc = "Nop" THEN IF tries = 1 THEN 4 * StepClocks ELSE 10 * StepClocks
    ELSE IF pc = "Disable" THEN IF tries = 1 THEN 5 * StepClocks ELSE 12 * StepClocks
    ELSE IF pc = "Low" THEN IF tries = 1 THEN 6 * StepClocks ELSE 13 * StepClocks
    ELSE IF pc = "High" THEN IF tries = 1 THEN 7 * StepClocks ELSE 14 * StepClocks
    ELSE IF pc = "Over" THEN IF tries = 1 THEN 8 * StepClocks ELSE 15 * StepClocks
    ELSE 16 * StepClocks

\* Where the timer is, at most, when an interrupt was taken meanwhile.
Calm ==
    IF pc = "Enable" THEN 5 * StepClocks
    ELSE IF pc = "Nop" THEN 6 * StepClocks
    ELSE IF pc = "Disable" THEN 7 * StepClocks
    ELSE IF pc = "Low" THEN 8 * StepClocks
    ELSE IF pc = "High" THEN 9 * StepClocks
    ELSE IF pc = "Over" THEN 10 * StepClocks
    ELSE StepClocks

\* One interrupt takes the time of a step, and then there is no other for long.
Within(x) ==
    \/ x <= PollAge + idle
    \/ /\ x <= PollAge + StepClocks + idle /\ ~zero /\ cnt <= Calm + idle
       /\ tries = 2 => pc \in {"Nop", "Return"}

\* The same for the clocks since CNT was read, in the same reading.
LagAge ==
    IF pc = "High" THEN 0 ELSE IF pc = "Over" THEN StepClocks ELSE 2 * StepClocks
Lagged(x) ==
    \/ x <= LagAge + idle
    \/ pc = "Return" /\ x <= LagAge + StepClocks + idle /\ ~zero /\ cnt <= Calm + idle

\* CNT was read in this turn.
Read == pc \in {"High", "Over", "Return"}

\* The clocks since the start, but for whole turns of the overflow count.
Instant(w, c) == w * CntSize + c

\* f is the instant of the first reading.
Polling(f) ==
    /\ ticks = (f \div TickSize) % WordSize
    /\ Same(Instant(wraps, cnt), f + spent)
    /\ Within(spent - target * TickSize)
    /\ Read => \E x \in Nat :
          x <= spent /\ Same(Instant(at[1], at[2]), f + x) /\ Lagged(spent - x)

\* What holds while DelayMs runs, from the first reading on.
DelayInv ==
    /\ caller # "none" => pc # "Idle"
    /\ caller \in {"DelayFirst", "DelayPoll"} =>
          (target + 1) * TickSize + PollClocks <= Round
    /\ caller = "DelayFirst" /\ Read =>
          Same(Instant(wraps, cnt), Instant(at[1], at[2]) + spent) /\ Lagged(spent)
    /\ caller = "DelayPoll" => \E f \in Nat : Polling(f)

\* Instants are numbers, and a clock of the timer is the next one.
LEMMA Instants ==
    ASSUME NEW w \in Nat, NEW c \in Nat
    PROVE  Instant(w, c) \in Nat
PROOF BY Sizes DEF Instant

\* A clock later they still are, whether or not the timer's words come round.
LEMMA SameRound ==
    ASSUME NEW a \in Int, NEW x \in Int, Same(a, x)
    PROVE  Same(a + 1, x + 1) /\ Same(a + 1 - WordSize * CntSize, x + 1)
PROOF
  <1>1. PICK n \in Int : a = x + n * Round
    BY Zenon DEF Same
  <1>2. a + 1 = (x + 1) + n * Round
    BY <1>1, Ticks
  <1>3. PICK m \in Nat : CntSize = TickSize * m
    <2>1. PICK k \in Nat \ {0}, v \in Nat \ {0} : CntSize = TickSize * (Div * k)
      BY Units, Zenon
    <2>2. Div * k \in Nat
      <3>1. Div \in Nat  BY SizesAssumption, Zenon
      <3> QED  BY <3>1
    <2> QED  BY <2>1, <2>2, Zenon
  <1>4. WordSize * CntSize = m * Round
    BY <1>3, Ticks DEF Round
  <1>5. a + 1 - WordSize * CntSize = (x + 1) + (n - m) * Round /\ n - m \in Int
    BY <1>1, <1>2, <1>3, <1>4, Ticks
  <1> QED  BY <1>2, <1>5, Zenon DEF Same

\* What a clock of the timer does: the instant is the next one, and a step
\* that is under way takes a clock more.
LEMMA CountDelay ==
    ASSUME IInv, TypeRest, Count
    PROVE  /\ wraps' \in Nat /\ cnt' \in Nat
           /\ \/ Instant(wraps', cnt') = Instant(wraps, cnt) + 1
              \/ Instant(wraps', cnt') = Instant(wraps, cnt) + 1 - WordSize * CntSize
PROOF
  <1>1. cnt \in Nat /\ cnt < CntSize /\ wraps \in Nat /\ wraps < WordSize
    BY Sizes DEF IInv, TypeInv
  <1>2. cnt' = (cnt + 1) % CntSize /\ wraps' = (IF cnt' = 0 THEN (wraps + 1) % WordSize ELSE wraps)
    BY Zenon DEF Count
  <1>3. cnt' = IF cnt + 1 = CntSize THEN 0 ELSE cnt + 1
    BY <1>1, <1>2, Sizes, Succ
  <1>4. (wraps + 1) % WordSize = IF wraps + 1 = WordSize THEN 0 ELSE wraps + 1
    BY <1>1, Sizes, Succ
  <1>5. CASE cnt + 1 = CntSize
    <2>1. cnt' = 0 /\ cnt = CntSize - 1  BY <1>1, <1>3, <1>5, Sizes
    <2>2. wraps' = IF wraps + 1 = WordSize THEN 0 ELSE wraps + 1  BY <1>2, <1>4, <2>1
    <2>3. CASE wraps + 1 = WordSize
      <3>1. wraps' = 0 /\ wraps = WordSize - 1  BY <1>1, <2>2, <2>3
      <3>2. wraps * CntSize + cnt + 1 = WordSize * CntSize  BY <2>1, <3>1, Sizes
      <3> QED  BY <1>1, <2>1, <3>1, <3>2, Sizes DEF Instant
    <2>4. CASE wraps + 1 # WordSize
      <3>1. wraps' = wraps + 1  BY <2>2, <2>4
      <3> QED  BY <1>1, <2>1, <3>1, Sizes DEF Instant
    <2> QED  BY <2>3, <2>4
  <1>6. CASE cnt + 1 # CntSize
    <2>1. cnt' = cnt + 1 /\ wraps' = wraps  BY <1>1, <1>2, <1>3, <1>6
    <2> QED  BY <1>1, <2>1, Sizes DEF Instant
  <1> QED  BY <1>5, <1>6

\* The two measures after a clock.
LEMMA CountAges ==
    ASSUME IInv, Count, pc # "Idle", NEW x \in Int
    PROVE  (Within(x) => Within(x + 1)') /\ (Lagged(x) => Lagged(x + 1)')
PROOF
  <1>1. cnt \in Nat /\ cnt < CntSize /\ idle \in Nat /\ idle < StepClocks
    BY Sizes DEF IInv, TypeInv, Count, Busy
  <1>2. idle' = idle + 1 /\ UNCHANGED <<pc, tries>> /\ cnt' = (cnt + 1) % CntSize
        /\ zero' = (zero \/ cnt' = 0)
    BY Zenon DEF Count, Busy
  <1>3. /\ PollAge' = PollAge /\ Calm' = Calm /\ LagAge' = LagAge
        /\ PollAge \in Nat /\ LagAge \in Nat /\ Calm \in Nat /\ Calm <= 10 * StepClocks
    BY <1>2, Sizes DEF PollAge, Calm, LagAge
  <1>4. ~zero /\ cnt <= Calm + idle => ~zero' /\ cnt' <= Calm' + idle'
    <2> SUFFICES ASSUME ~zero, cnt <= Calm + idle PROVE ~zero' /\ cnt' <= Calm' + idle'
      OBVIOUS
    <2>1. cnt + 1 < CntSize  BY <1>1, <1>3, Sizes
    <2>2. cnt' = cnt + 1  BY <1>1, <1>2, <2>1, Sizes, Succ
    <2>3. cnt' # 0  BY <1>1, <2>2
    <2>4. ~zero'  BY <1>2, <2>3, Zenon
    <2> QED  BY <1>1, <1>2, <1>3, <2>2, <2>4
  <1>5. /\ x <= PollAge + idle => x + 1 <= PollAge' + idle'
        /\ x <= PollAge + StepClocks + idle => x + 1 <= PollAge' + StepClocks + idle'
        /\ x <= LagAge + idle => x + 1 <= LagAge' + idle'
        /\ x <= LagAge + StepClocks + idle => x + 1 <= LagAge' + StepClocks + idle'
    BY <1>1, <1>2, <1>3, Sizes
  <1> QED  BY <1>2, <1>4, <1>5, Zenon DEF Within, Lagged

\* The two measures after an interrupt.
LEMMA InterruptAges ==
    ASSUME IInv, RetryInv, TIMER1_IRQHandler, NEW x \in Int
    PROVE  (Within(x) => Within(x)') /\ (Read /\ Lagged(x) => Lagged(x)')
PROOF
  <1>1. zero /\ irq /\ ~zero' /\ idle' = 0 /\ UNCHANGED <<cnt, pc, tries>>
    BY Zenon DEF TIMER1_IRQHandler
  <1>2. cnt \in Nat /\ idle \in Nat /\ idle <= StepClocks
    BY Sizes DEF IInv, TypeInv
  <1>3. pc \notin {"Low", "High", "Over"} /\ (pc = "Enable" => tries = 0)
        /\ (tries = 2 => pc \in {"Nop", "Return"})
    BY <1>1 DEF IInv, MaskInv, RetryInv
  <1>4. PollAge' = PollAge /\ Calm' = Calm /\ LagAge' = LagAge /\ PollAge \in Nat
        /\ LagAge \in Nat /\ Calm \in Nat
    BY <1>1, Sizes DEF PollAge, Calm, LagAge
  <1>5. cnt <= Calm' + idle'
    <2>1. cnt <= Age + idle  BY <1>1 DEF IInv, PromptInv
    <2>2. Age + StepClocks <= Calm  BY <1>3, Sizes DEF Age, Calm
    <2>3. Age \in Nat  BY Sizes DEF Age
    <2> QED  BY <1>1, <1>2, <1>4, <2>1, <2>2, <2>3, Sizes
  <1>6. /\ x <= PollAge + idle => x <= PollAge' + StepClocks + idle'
        /\ x <= LagAge + idle => x <= LagAge' + StepClocks + idle'
    BY <1>1, <1>2, <1>4, Sizes
  <1>7. cnt' <= Calm' + idle' /\ (tries' = 2 => pc' \in {"Nop", "Return"})
    BY <1>1, <1>3, <1>5, Zenon
  <1>8. Within(x) => Within(x)'
    BY <1>1, <1>6, <1>7, Zenon DEF Within
  <1>9. Read /\ Lagged(x) => Lagged(x)'
    <2>1. Read => pc' = "Return"
      BY <1>1, <1>3, Zenon DEF Read
    <2> QED  BY <1>1, <1>6, <1>7, <2>1, Zenon DEF Lagged
  <1> QED  BY <1>8, <1>9

\* The two measures after a step of GetRawXTick.
LEMMA StepAges ==
    ASSUME IInv, RetryInv, Enable \/ Nop \/ Disable \/ ReadLow \/ ReadHigh \/ TestOver,
           NEW x \in Int
    PROVE  (Within(x) => Within(x)') /\ (Read /\ Read' /\ Lagged(x) => Lagged(x)')
PROOF
  <1>1. cnt \in Nat /\ idle \in Nat /\ idle <= StepClocks /\ idle' = 0 /\ cnt' = cnt
    <2>1. idle' = 0 /\ cnt' = cnt
      BY Zenon DEF Enable, Nop, Disable, ReadLow, ReadHigh, TestOver, timer
    <2> QED  BY <2>1, Sizes DEF IInv, TypeInv
  <1>2. zero' = zero
    BY Zenon DEF Enable, Nop, Disable, ReadLow, ReadHigh, TestOver, timer
  <1>3. \/ pc = "Enable" /\ pc' = "Nop" /\ tries' = tries + 1 /\ tries \in 0..1 /\ (tries = 1 => zero)
        \/ pc = "Nop" /\ pc' = "Disable" /\ tries' = tries /\ tries \in 1..2
        \/ pc = "Disable" /\ pc' = "Low" /\ tries' = tries /\ tries \in 1..2
        \/ pc = "Low" /\ pc' = "High" /\ tries' = tries /\ tries \in 1..2
        \/ pc = "High" /\ pc' = "Over" /\ tries' = tries /\ tries \in 1..2
        \/ pc = "Over" /\ pc' = "Enable" /\ tries' = tries /\ tries = 1 /\ zero
        \/ pc = "Over" /\ pc' = "Return" /\ tries' = tries /\ tries \in 1..2
    <2>1. CASE TestOver
      <3>1. pc = "Over" /\ tries' = tries /\ pc' = (IF zero THEN "Enable" ELSE "Return")
        BY <2>1, Zenon DEF TestOver
      <3>2. tries \in 1..2 /\ (zero => tries = 1)
        BY <3>1 DEF RetryInv
      <3> QED  BY <3>1, <3>2
    <2>2. CASE Enable
      BY <2>2 DEF Enable, RetryInv
    <2>3. CASE Nop \/ Disable \/ ReadLow \/ ReadHigh
      BY <2>3 DEF Nop, Disable, ReadLow, ReadHigh, RetryInv
    <2> QED  BY <2>1, <2>2, <2>3
  <1>4. x <= PollAge + idle => x <= PollAge' + idle'
    BY <1>1, <1>3, Sizes DEF PollAge
  <1>5. /\ x <= PollAge + StepClocks + idle /\ ~zero /\ cnt <= Calm + idle
        /\ (tries = 2 => pc \in {"Nop", "Return"})
        => Within(x)'
    <2> SUFFICES ASSUME x <= PollAge + StepClocks + idle, ~zero, cnt <= Calm + idle,
                        tries = 2 => pc \in {"Nop", "Return"}
                 PROVE  Within(x)'
      OBVIOUS
    <2>1. CASE tries' = 2
      <3>1. x <= PollAge' + idle'
        BY <1>1, <1>2, <1>3, <2>1, Sizes DEF PollAge
      <3> QED  BY <3>1 DEF Within
    <2>2. CASE tries' # 2
      <3>1. pc' = "Return" \/ cnt' <= Calm' + idle'
        BY <1>1, <1>3, Sizes DEF Calm
      <3>2. x <= PollAge' + StepClocks + idle' /\ (pc' = "Return" => x <= PollAge' + idle')
        BY <1>1, <1>2, <1>3, <2>2, Sizes DEF PollAge
      <3> QED  BY <1>2, <2>2, <3>1, <3>2 DEF Within
    <2> QED  BY <2>1, <2>2
  <1>6. Read /\ Read' /\ Lagged(x) => x <= LagAge' + idle'
    BY <1>1, <1>3, Sizes DEF Read, Lagged, LagAge
  <1> QED  BY <1>4, <1>5, <1>6, Zenon DEF Within, Lagged

\* While DelayMs waits, its time stays below the round of GetXTick.
LEMMA SpentBelow ==
    ASSUME IInv, TypeRest, (target + 1) * TickSize + PollClocks <= Round,
           Within(spent - target * TickSize)
    PROVE  /\ spent <= target * TickSize + PollClocks /\ spent + TickSize <= Round
           /\ target * TickSize \in Nat /\ target \in Nat /\ spent \in Nat
PROOF
  <1>1. idle \in Nat /\ idle <= StepClocks /\ target \in Nat /\ spent \in Nat
    BY Sizes, Ticks DEF IInv, TypeInv, TypeRest
  <1>2. PollAge \in Nat /\ PollAge <= 16 * StepClocks
    BY Sizes DEF PollAge
  <1>3. PICK y \in Nat : y = target * TickSize
    BY <1>1, Ticks
  <1>4. spent - y <= 18 * StepClocks
    BY <1>1, <1>2, <1>3, Sizes DEF Within
  <1>5. y + TickSize + 18 * StepClocks <= Round
    BY <1>1, <1>3, Ticks, Sizes DEF PollClocks
  <1> QED  BY <1>1, <1>3, <1>4, <1>5, Ticks, Sizes DEF PollClocks

\* After a clock of the timer.
LEMMA CountDelayInv ==
    ASSUME IInv, TypeRest, DelayInv, Count
    PROVE  DelayInv'
PROOF
  <1>1. /\ UNCHANGED <<pc, caller, at, ticks, target, tries>>
        /\ spent' = IF caller \in {"DelayFirst", "DelayPoll"} /\ spent <= SpentBound
                       THEN spent + 1 ELSE spent
    BY Zenon DEF Count, reading
  <1>2. /\ wraps \in Nat /\ cnt \in Nat /\ spent \in Nat /\ at[1] \in Nat /\ at[2] \in Nat
        /\ idle \in Nat /\ idle <= StepClocks /\ SpentBound = Round
    BY Sizes DEF IInv, TypeInv, TypeRest, SpentBound, Round
  <1>3. Instant(wraps, cnt) \in Nat /\ Instant(at[1], at[2]) \in Nat
    BY <1>2, Instants
  <1>4. ASSUME NEW x \in Int, Same(Instant(wraps, cnt), x)
        PROVE  Same(Instant(wraps', cnt'), x + 1)
    <2>1. PICK a \in Int : a = Instant(wraps, cnt)
      BY <1>3
    <2>2. Same(a + 1, x + 1) /\ Same(a + 1 - WordSize * CntSize, x + 1)
      BY <1>4, <2>1, SameRound, Zenon
    <2> QED  BY <2>1, <2>2, CountDelay, Zenon
  <1>5. ASSUME caller = "DelayFirst", Read
        PROVE  Same(Instant(wraps', cnt'), Instant(at[1], at[2]) + spent') /\ Lagged(spent)'
    <2>1. Same(Instant(wraps, cnt), Instant(at[1], at[2]) + spent) /\ Lagged(spent)
          /\ (target + 1) * TickSize + PollClocks <= Round /\ pc # "Idle"
      BY <1>5 DEF DelayInv
    <2>2. spent <= Round
      <3>1. spent <= 4 * StepClocks  BY <1>2, <2>1, Sizes DEF Lagged, LagAge
      <3>2. target \in Nat  BY Ticks DEF TypeRest
      <3>3. (target + 1) * TickSize \in Nat  BY <3>2, Ticks
      <3> QED  BY <1>2, <2>1, <3>1, <3>3, Ticks, Sizes DEF PollClocks
    <2>3. spent' = spent + 1  BY <1>1, <1>2, <1>5, <2>2
    <2>4. PICK y \in Nat : y = spent  BY <1>2
    <2>5. Lagged(y + 1)'  BY <2>1, <2>4, CountAges
    <2>6. Lagged(spent)'  BY <2>3, <2>4, <2>5, Zenon DEF Lagged
    <2>7. PICK b \in Int : b = Instant(at[1], at[2]) + spent  BY <1>2, <1>3
    <2>8. Same(Instant(wraps', cnt'), b + 1)  BY <1>4, <2>1, <2>7, Zenon
    <2>9. b + 1 = Instant(at[1], at[2]) + spent'  BY <1>2, <1>3, <2>3, <2>7
    <2> QED  BY <2>6, <2>8, <2>9, Zenon
  <1>6. ASSUME caller = "DelayPoll", NEW f \in Nat, Polling(f)
        PROVE  Polling(f)'
    <2>1. /\ Same(Instant(wraps, cnt), f + spent) /\ Within(spent - target * TickSize)
          /\ ticks = (f \div TickSize) % WordSize
          /\ (target + 1) * TickSize + PollClocks <= Round /\ pc # "Idle"
      BY <1>6 DEF DelayInv, Polling
    <2>2. spent + TickSize <= Round /\ target * TickSize \in Nat
      BY <2>1, SpentBelow
    <2>3. spent' = spent + 1  BY <1>1, <1>2, <1>6, <2>2, Ticks
    <2>4. PICK y \in Int : y = spent - target * TickSize  BY <1>2, <2>2
    <2>5. Within(y + 1)'  BY <2>1, <2>4, CountAges
    <2>6. spent' - target' * TickSize = y + 1  BY <1>1, <1>2, <2>2, <2>3, <2>4
    <2>7. Within(spent - target * TickSize)'  BY <2>5, <2>6, Zenon DEF Within
    <2>8. Same(Instant(wraps', cnt'), f + spent')
      <3>1. f + spent \in Int /\ f + spent' = (f + spent) + 1  BY <1>2, <2>3
      <3> QED  BY <1>4, <2>1, <3>1
    <2>9. ASSUME Read
          PROVE  \E x \in Nat : x <= spent' /\ Same(Instant(at[1], at[2]), f + x) /\ Lagged(spent - x)'
      <3>1. PICK x \in Nat : x <= spent /\ Same(Instant(at[1], at[2]), f + x) /\ Lagged(spent - x)
        BY <1>6, <2>9 DEF Polling
      <3>2. PICK z \in Int : z = spent - x  BY <1>2
      <3>3. Lagged(z + 1)'  BY <2>1, <3>1, <3>2, CountAges
      <3>4. spent' - x = z + 1 /\ x <= spent'  BY <1>2, <2>3, <3>1, <3>2
      <3>5. Lagged(spent - x)'  BY <3>3, <3>4, Zenon DEF Lagged
      <3> QED  BY <3>1, <3>4, <3>5
    <2> QED  BY <1>1, <2>1, <2>7, <2>8, <2>9, Zenon DEF Polling, Read
  <1> QED  BY <1>1, <1>5, <1>6, Zenon DEF DelayInv, Read

\* After an interrupt or a step of GetRawXTick: the timer stands still, and
\* ReadLow makes a new reading of this instant.
LEMMA StepDelayInv ==
    ASSUME IInv, TypeRest, RetryInv, DelayInv,
           \/ TIMER1_IRQHandler \/ Enable \/ Nop \/ Disable \/ ReadLow \/ ReadHigh \/ TestOver
    PROVE  DelayInv'
PROOF
  <1>1. /\ UNCHANGED <<cnt, wraps, caller, ticks, target>>
        /\ ReadLow \/ UNCHANGED <<at, spent>>
        /\ pc \in {"Idle", "Return"} => pc' = pc
    BY DEF TIMER1_IRQHandler, Enable, Nop, Disable, ReadLow, ReadHigh, TestOver, timer, delay,
           reading
  <1>2. wraps \in Nat /\ cnt \in Nat /\ spent \in Nat /\ target * TickSize \in Nat
    <2>1. wraps \in Nat /\ cnt \in Nat /\ spent \in Nat /\ target \in Nat
      BY Sizes DEF IInv, TypeInv, TypeRest
    <2> QED  BY <2>1, Ticks
  <1>3. ASSUME NEW x \in Int
        PROVE  (Within(x) => Within(x)') /\ (Read /\ Read' /\ Lagged(x) => Lagged(x)')
    BY InterruptAges, StepAges, Zenon
  <1>4. pc # "Idle" => pc' # "Idle"
    BY DEF TIMER1_IRQHandler, Enable, Nop, Disable, ReadLow, ReadHigh, TestOver
  <1>5. CASE ReadLow
    <2>1. /\ pc = "Low" /\ pc' = "High" /\ at' = <<wraps, cnt>> /\ idle' = 0
          /\ spent' = IF caller = "DelayPoll" THEN spent ELSE 0
      BY <1>5, Zenon DEF ReadLow
    <2>2. Lagged(0)'
      BY <2>1 DEF Lagged, LagAge
    <2>3. at'[1] = wraps /\ at'[2] = cnt
      BY <2>1
    <2>4. Instant(wraps, cnt) \in Nat
      BY <1>2, Instants
    <2>5. caller = "DelayFirst" =>
             Same(Instant(wraps', cnt'), Instant(at'[1], at'[2]) + spent') /\ Lagged(spent)'
      <3> SUFFICES ASSUME caller = "DelayFirst"
                   PROVE  Same(Instant(wraps', cnt'), Instant(at'[1], at'[2]) + spent') /\ Lagged(spent)'
        OBVIOUS
      <3>1. spent' = 0  BY <2>1
      <3>2. PICK a \in Nat : a = Instant(wraps, cnt)  BY <2>4
      <3>3. Same(a, a + 0)
        <4>1. a = (a + 0) + 0 * Round  BY Ticks
        <4> QED  BY <4>1 DEF Same
      <3>4. Same(Instant(wraps', cnt'), Instant(at'[1], at'[2]) + spent')
        BY <1>1, <2>3, <3>1, <3>2, <3>3, Zenon
      <3>5. Lagged(spent)'  BY <2>2, <3>1, Zenon DEF Lagged
      <3> QED  BY <3>4, <3>5
    <2>6. ASSUME caller = "DelayPoll", NEW f \in Nat, Polling(f)
          PROVE  Polling(f)'
      <3>1. spent' = spent  BY <2>1, <2>6
      <3>2. /\ ticks = (f \div TickSize) % WordSize /\ Same(Instant(wraps, cnt), f + spent)
            /\ Within(spent - target * TickSize)
        BY <2>6, Zenon DEF Polling
      <3>3. PICK y \in Int : y = spent - target * TickSize  BY <1>2
      <3>4. Within(y)'  BY <1>3, <3>2, <3>3, Zenon
      <3>5. Within(spent - target * TickSize)'  BY <1>1, <3>1, <3>3, <3>4, Zenon DEF Within
      <3>6. PICK x \in Nat : x = spent  BY <1>2
      <3>7. spent' - x = 0 /\ x <= spent'  BY <1>2, <3>1, <3>6
      <3>8. Lagged(spent - x)'  BY <2>2, <3>7, Zenon DEF Lagged
      <3>9. Same(Instant(at'[1], at'[2]), f + x)  BY <2>3, <3>2, <3>6, Zenon
      <3>10. \E z \in Nat : z <= spent' /\ Same(Instant(at'[1], at'[2]), f + z) /\ Lagged(spent - z)'
        BY <3>7, <3>8, <3>9, Zenon
      <3> QED  BY <1>1, <3>1, <3>2, <3>5, <3>10, Zenon DEF Polling
    <2> QED  BY <1>1, <1>4, <2>5, <2>6, Zenon DEF DelayInv
  <1>6. CASE ~ReadLow
    <2>1. UNCHANGED <<at, spent>>
      BY <1>1, <1>6, Zenon
    <2>2. Read' => Read
      BY <1>6 DEF Read, TIMER1_IRQHandler, Enable, Nop, Disable, ReadHigh, TestOver
    <2>3. ASSUME NEW x \in Nat, x <= spent, Read', Lagged(spent - x)
          PROVE  Lagged(spent - x)'
      <3>1. PICK z \in Int : z = spent - x  BY <1>2
      <3>2. Lagged(z)'  BY <1>3, <2>2, <2>3, <3>1, Zenon
      <3> QED  BY <2>1, <3>1, <3>2, Zenon DEF Lagged
    <2>4. Read' /\ Lagged(spent) => Lagged(spent)'
      <3>1. PICK z \in Int : z = spent  BY <1>2
      <3>2. Read' /\ Lagged(z) => Lagged(z)'  BY <1>3, <2>2, Zenon
      <3> QED  BY <2>1, <3>1, <3>2, Zenon DEF Lagged
    <2>5. ASSUME NEW f \in Nat, Polling(f)
          PROVE  Polling(f)'
      <3>1. /\ ticks = (f \div TickSize) % WordSize /\ Same(Instant(wraps, cnt), f + spent)
            /\ Within(spent - target * TickSize)
            /\ Read => \E x \in Nat :
                 x <= spent /\ Same(Instant(at[1], at[2]), f + x) /\ Lagged(spent - x)
        BY <2>5, Zenon DEF Polling
      <3>2. PICK y \in Int : y = spent - target * TickSize  BY <1>2
      <3>3. Within(y)'  BY <1>3, <3>1, <3>2, Zenon
      <3>4. Within(spent - target * TickSize)'  BY <1>1, <2>1, <3>2, <3>3, Zenon DEF Within
      <3>5. Read' => \E x \in Nat :
               x <= spent' /\ Same(Instant(at'[1], at'[2]), f + x) /\ Lagged(spent - x)'
        BY <2>1, <2>2, <2>3, <3>1, Zenon
      <3> QED  BY <1>1, <2>1, <3>1, <3>4, <3>5, Zenon DEF Polling
    <2> QED  BY <1>1, <1>4, <2>1, <2>2, <2>4, <2>5, Zenon DEF DelayInv
  <1> QED  BY <1>5, <1>6

\* What GetXTick returns is the instant's time in units, and lies in its word.
LEMMA ReturnTime ==
    ASSUME IInv, TypeRest, pc = "Return"
    PROVE  /\ GetXTick(highbits, lowbits) = (Instant(at[1], at[2]) \div TickSize) % WordSize
           /\ Instant(at[1], at[2]) \in Nat
PROOF
  <1>1. at[1] = highbits /\ at[2] = lowbits
    BY DEF IInv, ReadInv
  <1>2. highbits \in Nat /\ lowbits \in Nat /\ lowbits < CntSize
    BY Sizes DEF TypeRest
  <1>3. GetXTick(highbits, lowbits) = TrueTick(highbits, lowbits, TickSize)
    BY <1>2, Getters, Zenon
  <1> QED  BY <1>1, <1>2, <1>3, Instants, Zenon DEF TrueTick, Instant

\* DelayMs goes on waiting only after a reading made before the time is up,
\* and stops only after one made at most a unit before.
LEMMA Decision ==
    ASSUME IInv, TypeRest, pc = "Return", NEW f \in Nat, NEW x \in Nat,
           (target + 1) * TickSize + PollClocks <= Round, Polling(f),
           x <= spent, Same(Instant(at[1], at[2]), f + x)
    PROVE  IF StillWaiting(GetXTick(highbits, lowbits))
              THEN x < target * TickSize
              ELSE target > 0 => x > (target - 1) * TickSize
PROOF
  <1>1. /\ spent + TickSize <= Round /\ target * TickSize \in Nat /\ target \in Nat
        /\ spent \in Nat
    BY SpentBelow, Zenon DEF Polling
  <1>2. x + TickSize <= Round
    BY <1>1, Ticks
  <1>3. PICK d \in Nat :
           /\ ((((f + x) \div TickSize) % WordSize) - ((f \div TickSize) % WordSize)) % WordSize = d
           /\ TickSize * d < x + TickSize /\ x < TickSize * (d + 1)
    BY <1>2, Elapsed, Zenon
  <1>4. GetXTick(highbits, lowbits) = ((f + x) \div TickSize) % WordSize
    <2>1. f + x \in Int /\ Instant(at[1], at[2]) \in Int
      BY ReturnTime
    <2>2. (Instant(at[1], at[2]) \div TickSize) % WordSize = ((f + x) \div TickSize) % WordSize
      BY <2>1, SameTick, Zenon
    <2> QED  BY <2>2, ReturnTime, Zenon
  <1>5. StillWaiting(GetXTick(highbits, lowbits)) <=> d < target
    BY <1>3, <1>4, Zenon DEF StillWaiting, Polling
  <1>6. CASE d < target
    <2>1. d + 1 <= target  BY <1>1, <1>6
    <2>2. TickSize * (d + 1) <= TickSize * target  BY <1>1, <2>1, Ticks, MulMono
    <2>3. TickSize * target = target * TickSize /\ TickSize * (d + 1) \in Nat
      BY <1>1, Ticks
    <2>4. x < target * TickSize  BY <1>1, <1>3, <2>2, <2>3
    <2> QED  BY <1>5, <1>6, <2>4, Zenon
  <1>7. CASE ~(d < target)
    <2>1. target <= d  BY <1>1, <1>7
    <2>2. TickSize * target <= TickSize * d  BY <1>1, <2>1, Ticks, MulMono
    <2>3. TickSize * target = (target - 1) * TickSize + TickSize /\ TickSize * d \in Nat
          /\ (target - 1) * TickSize \in Int
      BY <1>1, Ticks
    <2>4. x > (target - 1) * TickSize  BY <1>3, <2>2, <2>3, Ticks
    <2> QED  BY <1>5, <1>7, <2>4, Zenon
  <1> QED  BY <1>6, <1>7

\* The next reading of a DelayMs starts where the last one ended.
LEMMA NextPoll ==
    ASSUME IInv, TypeRest, pc = "Return", pc' = "Enable", tries' = 0, idle' = 0,
           UNCHANGED <<cnt, zero>>, NEW x \in Int, Lagged(x), NEW y \in Int, y <= x
    PROVE  Within(y)'
PROOF
  <1>1. cnt \in Nat /\ idle \in Nat /\ idle <= StepClocks
    BY Sizes DEF IInv, TypeInv
  <1>2. PollAge' = 3 * StepClocks /\ Calm' = 5 * StepClocks /\ LagAge = 2 * StepClocks
        /\ Calm = StepClocks
    BY Sizes DEF PollAge, Calm, LagAge
  <1>3. x <= LagAge + idle => y <= PollAge' + idle'
    BY <1>1, <1>2, Sizes
  <1>4. x <= LagAge + StepClocks + idle /\ cnt <= Calm + idle =>
           y <= PollAge' + StepClocks + idle' /\ cnt' <= Calm' + idle'
    BY <1>1, <1>2, Sizes
  <1>5. tries' # 2
    OBVIOUS
  <1> QED  BY <1>3, <1>4, <1>5, Zenon DEF Lagged, Within

\* After the return to the caller.
LEMMA ReturnDelayInv ==
    ASSUME IInv, TypeRest, DelayInv, Return
    PROVE  DelayInv'
PROOF
  <1>1. /\ pc = "Return" /\ tries' = 0 /\ idle' = 0
        /\ UNCHANGED <<cnt, zero, wraps>> /\ Read
    BY Zenon DEF Return, timer, Read
  <1>2. /\ wraps \in Nat /\ cnt \in Nat /\ spent \in Nat /\ target \in Nat
        /\ target * TickSize \in Nat
    <2>1. wraps \in Nat /\ cnt \in Nat /\ spent \in Nat /\ target \in Nat
      BY Sizes DEF IInv, TypeInv, TypeRest
    <2> QED  BY <2>1, Ticks
  <1>3. CASE Leave
    BY <1>3 DEF Leave, DelayInv
  <1>4. CASE caller = "DelayFirst" /\ caller' = "DelayPoll" /\ pc' = "Enable"
             /\ ticks' = GetXTick(highbits, lowbits) /\ UNCHANGED <<target, spent>>
    <2>1. PICK f \in Nat : f = Instant(at[1], at[2])
      BY <1>1, ReturnTime
    <2>2. /\ Same(Instant(wraps, cnt), f + spent) /\ Lagged(spent)
          /\ (target + 1) * TickSize + PollClocks <= Round
      BY <1>1, <1>4, <2>1, Zenon DEF DelayInv
    <2>3. PICK y \in Int : y = spent - target * TickSize  BY <1>2
    <2>4. PICK x \in Int : x = spent  BY <1>2
    <2>5. y <= x /\ Lagged(x)  BY <1>2, <2>2, <2>3, <2>4
    <2>6. Within(y)'  BY <1>1, <1>4, <2>5, NextPoll, Zenon
    <2>7. Within(spent - target * TickSize)'  BY <1>4, <2>3, <2>6, Zenon DEF Within
    <2>8. ticks' = (f \div TickSize) % WordSize
      BY <1>1, <1>4, <2>1, ReturnTime, Zenon
    <2>9. ~Read'
      BY <1>4 DEF Read
    <2>10. Polling(f)'
      BY <1>1, <1>4, <2>2, <2>7, <2>8, <2>9, Zenon DEF Polling
    <2>11. caller' # "DelayFirst" /\ pc' # "Idle"
      BY <1>4
    <2> QED  BY <1>4, <2>2, <2>10, <2>11, Zenon DEF DelayInv
  <1>5. CASE caller = "DelayPoll" /\ StillWaiting(GetXTick(highbits, lowbits))
             /\ pc' = "Enable" /\ UNCHANGED <<caller, ticks, target, spent>>
    <2>1. PICK f \in Nat : Polling(f)
      BY <1>5, Zenon DEF DelayInv
    <2>2. (target + 1) * TickSize + PollClocks <= Round
      BY <1>5, Zenon DEF DelayInv
    <2>3. PICK z \in Nat : z <= spent /\ Same(Instant(at[1], at[2]), f + z) /\ Lagged(spent - z)
      BY <1>1, <2>1, Zenon DEF Polling
    <2>4. z < target * TickSize
      BY <1>1, <1>5, <2>1, <2>2, <2>3, Decision, Zenon
    <2>5. PICK y \in Int : y = spent - target * TickSize  BY <1>2
    <2>6. PICK x \in Int : x = spent - z  BY <1>2, <2>3
    <2>7. y <= x  BY <1>2, <2>4, <2>5, <2>6
    <2>8. Lagged(x)  BY <2>3, <2>6, Zenon
    <2>9. Within(y)'  BY <1>1, <1>5, <2>7, <2>8, NextPoll, Zenon
    <2>10. Within(spent - target * TickSize)'  BY <1>5, <2>5, <2>9, Zenon DEF Within
    <2>11. ~Read' /\ caller' # "DelayFirst" /\ pc' # "Idle"
      BY <1>5 DEF Read
    <2>12. Polling(f)'
      BY <1>1, <1>5, <2>1, <2>10, <2>11, Zenon DEF Polling
    <2> QED  BY <1>5, <2>2, <2>11, <2>12, Zenon DEF DelayInv
  <1> QED  BY <1>3, <1>4, <1>5, Zenon DEF Return, delay

\* After a call: the time to wait fits the round (DelaysAssumption).
LEMMA CallDelayInv ==
    ASSUME CallGetXTick \/ CallDelayMs
    PROVE  DelayInv'
PROOF
  <1>1. pc' = "Enable" /\ caller' \in {"GetXTick", "DelayFirst"} /\ ~Read'
    BY DEF CallGetXTick, CallDelayMs, Read
  <1>2. CASE CallGetXTick
    BY <1>1, <1>2 DEF CallGetXTick, DelayInv
  <1>3. CASE CallDelayMs
    <2>1. PICK ms \in Delays : target' = (TicksPerMs * ms) % WordSize
      BY <1>3, Zenon DEF CallDelayMs
    <2>2. /\ TicksPerMs \in Nat /\ ms \in Nat
          /\ (TicksPerMs * ms + 1) * TickSize + PollClocks <= Round
      BY DelaysAssumption, Zenon DEF Round
    <2>3. PICK t \in Nat : t = TicksPerMs * ms
      BY <2>2
    <2>4. target' \in Nat /\ target' <= t
      <3>1. target' = t % WordSize  BY <2>1, <2>3, Zenon
      <3>2. PICK q \in Int, r \in Nat : t = WordSize * q + r /\ r < WordSize /\ t % WordSize = r
        <4>1. t \in Int  OBVIOUS
        <4> QED  BY <4>1, Ticks, DivMod, Zenon
      <3>3. ~(q <= -1)
        <4> SUFFICES ASSUME q <= -1 PROVE FALSE  OBVIOUS
        <4>1. WordSize * q <= WordSize * (-1)  BY Ticks, MulMono
        <4> QED  BY <3>2, <4>1, Ticks
      <3>4. WordSize * q >= 0
        <4>1. WordSize * 0 <= WordSize * q  BY <3>3, Ticks, MulMono
        <4> QED  BY <4>1, Ticks
      <3>5. r <= t  BY <3>2, <3>4, Ticks
      <3> QED  BY <3>1, <3>2, <3>5, Zenon
    <2>5. PICK s \in Nat : s = target'  BY <2>4
    <2>6. TickSize * (s + 1) <= TickSize * (t + 1)
      <3>1. s <= t  BY <2>4, <2>5, Zenon
      <3>2. s + 1 <= t + 1  BY <3>1
      <3> QED  BY <3>2, Ticks, MulMono
    <2>7. PollClocks \in Nat  BY Sizes DEF PollClocks
    <2>8. (s + 1) * TickSize + PollClocks <= (t + 1) * TickSize + PollClocks
      BY <2>6, <2>7, Ticks
    <2>9. (t + 1) * TickSize + PollClocks <= Round  BY <2>2, <2>3, Zenon
    <2>10. (s + 1) * TickSize + PollClocks <= Round
      <3>1. (s + 1) * TickSize \in Nat /\ (t + 1) * TickSize \in Nat  BY Ticks
      <3> QED  BY <2>7, <2>8, <2>9, <3>1, Ticks
    <2>11. (target' + 1) * TickSize + PollClocks <= Round  BY <2>5, <2>10, Zenon
    <2>12. caller' = "DelayFirst" /\ caller' # "DelayPoll" /\ pc' # "Idle"
      BY <1>1, <1>3 DEF CallDelayMs
    <2> QED  BY <1>1, <2>11, <2>12, Zenon DEF DelayInv
  <1> QED  BY <1>2, <1>3

\* Every step keeps the account of DelayMs.
LEMMA NextDelayInv ==
    ASSUME IInv, TypeRest, RetryInv, DelayInv, [Next]_vars
    PROVE  DelayInv'
PROOF
  <1>1. CASE Next
    BY <1>1, CountDelayInv, StepDelayInv, ReturnDelayInv, CallDelayInv, Zenon DEF Next, Code
  <1>2. CASE UNCHANGED vars
    <2>1. UNCHANGED <<cnt, zero, wraps, pc, at, caller, ticks, target, spent, idle, tries>>
      BY <1>2, Zenon DEF vars, timer, reading, delay
    <2>2. UNCHANGED <<PollAge, Calm, LagAge, Read>>
      BY <2>1, Zenon DEF PollAge, Calm, LagAge, Read
    <2>3. ASSUME NEW x PROVE (Within(x)' <=> Within(x)) /\ (Lagged(x)' <=> Lagged(x))
      BY <2>1, <2>2, Zenon DEF Within, Lagged
    <2>4. ASSUME NEW f \in Nat, Polling(f) PROVE Polling(f)'
      <3>1. PICK y : y = spent - target * TickSize  OBVIOUS
      <3>2. Within(y)'  BY <2>3, <2>4, <3>1, Zenon DEF Polling
      <3>3. Within(spent - target * TickSize)'  BY <2>1, <3>1, <3>2, Zenon DEF Within
      <3>4. ASSUME NEW x, Lagged(spent - x) PROVE Lagged(spent - x)'
        <4>1. PICK z : z = spent - x  OBVIOUS
        <4>2. Lagged(z)'  BY <2>3, <3>4, <4>1, Zenon
        <4> QED  BY <2>1, <4>1, <4>2, Zenon DEF Lagged
      <3> QED  BY <2>1, <2>2, <2>4, <3>3, <3>4, Zenon DEF Polling
    <2>5. Lagged(spent) => Lagged(spent)'
      <3>1. PICK z : z = spent  OBVIOUS
      <3>2. Lagged(z) => Lagged(z)'  BY <2>3, Zenon
      <3> QED  BY <2>1, <3>1, <3>2, Zenon DEF Lagged
    <2> QED  BY <2>1, <2>2, <2>4, <2>5, Zenon DEF DelayInv
  <1> QED  BY <1>1, <1>2

\* The step that ends a DelayMs ends it in time.
LEMMA DelayStep ==
    ASSUME IInv, TypeRest, DelayInv, [Next]_vars, caller = "DelayPoll", caller' = "none"
    PROVE  /\ target > 0 => spent > (target - 1) * TickSize
           /\ spent <= target * TickSize + PollClocks
PROOF
  <1>1. Return /\ ~StillWaiting(GetXTick(highbits, lowbits)) /\ pc = "Return"
    <2>1. ~UNCHANGED vars  BY DEF vars
    <2>2. Return
      BY <2>1 DEF Next, Code, Count, TIMER1_IRQHandler, Enable, Nop, Disable, ReadLow,
                  ReadHigh, TestOver, CallGetXTick, CallDelayMs
    <2> QED  BY <2>2 DEF Return, delay
  <1>2. PICK f \in Nat : Polling(f)
    BY Zenon DEF DelayInv
  <1>3. (target + 1) * TickSize + PollClocks <= Round
    BY Zenon DEF DelayInv
  <1>4. /\ spent <= target * TickSize + PollClocks /\ target * TickSize \in Nat
        /\ target \in Nat /\ spent \in Nat
    BY <1>2, <1>3, SpentBelow, Zenon DEF Polling
  <1>5. PICK x \in Nat : x <= spent /\ Same(Instant(at[1], at[2]), f + x)
    BY <1>1, <1>2, Zenon DEF Polling, Read
  <1>6. target > 0 => x > (target - 1) * TickSize
    BY <1>1, <1>2, <1>3, <1>5, Decision, Zenon
  <1>7. (target - 1) * TickSize \in Int
    BY <1>4, Ticks
  <1> QED  BY <1>4, <1>5, <1>6, <1>7

\* DelayMs returns neither more than one unit early nor later than one unit
\* and the reading under way (XTick.c:153-160), over any overflow of the
\* counters, for every size of them.
THEOREM DelaysPrecise == Spec => DelayPrecise
PROOF
  <1> DEFINE Ends == caller = "DelayPoll" /\ caller' = "none" =>
                        /\ target > 0 => spent > (target - 1) * TickSize
                        /\ spent <= target * TickSize + PollClocks
  <1>1. Init => DelayInv
    BY DEF Init, DelayInv
  <1>2. IInv /\ TypeRest /\ RetryInv /\ DelayInv /\ [Next]_vars => DelayInv'
    BY NextDelayInv
  <1>3. IInv /\ TypeRest /\ DelayInv /\ [Next]_vars => [Ends]_vars
    BY DelayStep
  <1>4. Spec => [](IInv /\ TypeRest) /\ []RetryInv
    BY Typed, RetryHolds, PTL
  <1>5. Spec => []DelayInv
    BY <1>1, <1>2, <1>4, PTL DEF Spec
  <1>6. Spec => [][Ends]_vars
    BY <1>3, <1>4, <1>5, PTL DEF Spec
  <1> QED  BY <1>6 DEF DelayPrecise
=============================================================================
