-------------------------------- MODULE XTick --------------------------------
(***************************************************************************)
(* The free-running time base of Application/XTick.c.  TIMER1 counts CPU   *)
(* clocks in 24 bits; each overflow sets CNT_ZERO, whose interrupt counts  *)
(* m_dwInternalTicks.  GetRawXTick joins the two halves without stopping   *)
(* the timer: it masks the interrupt, reads CNT, reads m_dwInternalTicks   *)
(* and starts over if CNT_ZERO came up meanwhile.  DelayMs and lwIP's      *)
(* sys_now (core/sys.c, replaced by this project) are built on it.         *)
(*                                                                         *)
(* The timer runs on between any two steps of the processor.  All counters *)
(* are the modular ones of the code, so the state space is finite as it    *)
(* stands; only the measure of a delay, `spent', is capped.                *)
(***************************************************************************)
EXTENDS Integers

CONSTANTS
    CntSize,      \* 2^24: TIMER_Period + 1
    TickSize,     \* 2^(24-TIMER_HIGH_BITS_CNT): CPU clocks in one GetXTick unit
    Div,          \* 1024: GetXTick units in one GetXTickDiv1024 unit
    WordSize,     \* 2^32
    TicksPerMs,   \* TICKS_PER_MILLISECOND
    Delays,       \* arguments of DelayMs
    StepClocks    \* most clocks the timer makes during one step below

\* Longest reading: two turns of GetRawXTick's six steps, with the interrupts,
\* the call and the return.
PollClocks == 18 * StepClocks

\* The measure `spent' stops here, above every DelayMs (DelaysAssumption).
SpentBound == WordSize * TickSize

\* All are powers of two: the two halves of a word meet and do not overlap.
ASSUME SizesAssumption ==
    /\ TickSize \in Nat \ {0} /\ Div \in Nat \ {0} /\ WordSize \in Nat \ {0}
    /\ CntSize \in Nat /\ CntSize % (TickSize * Div) = 0
    /\ WordSize % (CntSize \div TickSize) = 0
\* The hardware is fast: 2^24 clocks are 168 ms, a step is a few clocks.
ASSUME StepAssumption == StepClocks \in Nat \ {0} /\ CntSize > 12 * StepClocks
\* No delay comes so near to the whole range of GetXTick that one reading
\* could leap over what remains (main() calls DelayMs(50) only).
ASSUME DelaysAssumption ==
    /\ TicksPerMs \in Nat \ {0} /\ Delays \subseteq Nat
    /\ \A ms \in Delays :
          (TicksPerMs * ms + 1) * TickSize + PollClocks <= WordSize * TickSize

VARIABLES
    cnt,                \* XTICK_TIMER->CNT
    zero,               \* CNT_ZERO of XTICK_TIMER->STATUS
    irq,                \* TIMER1's interrupt is enabled in the NVIC
    m_dwInternalTicks,  \* overflows counted by the interrupt
    pc,                 \* the next step of GetRawXTick
    lowbits, highbits,  \* what GetRawXTick read
    caller,             \* who called it
    ticks, target,      \* DelayMs: the first GetXTick() and the ticks to wait
    wraps,              \* overflows of the timer
    idle,               \* clocks since the last step, while one is due
    at,                 \* <<wraps, cnt>> when CNT was last read
    tries,              \* turns of GetRawXTick's loop in this call
    spent               \* clocks since the first reading of a DelayMs

timer == <<cnt, zero, wraps>>
delay == <<ticks, target, spent>>
reading == <<lowbits, highbits, at>>
vars == <<timer, irq, m_dwInternalTicks, pc, reading, caller, delay, idle, tries>>

Labels == {"Idle", "Enable", "Nop", "Disable", "Low", "High", "Over", "Return"}
Callers == {"none", "GetXTick", "DelayFirst", "DelayPoll"}

\* InitXTick: the timer starts at 0 with its interrupt enabled.
Init ==
    /\ cnt = 0 /\ zero = FALSE /\ irq = TRUE /\ m_dwInternalTicks = 0
    /\ pc = "Idle" /\ lowbits = 0 /\ highbits = 0 /\ caller = "none"
    /\ ticks = 0 /\ target = 0
    /\ wraps = 0 /\ idle = 0 /\ at = <<0, 0>> /\ tries = 0 /\ spent = 0

-----------------------------------------------------------------------------
(* The timer and its interrupt.                                            *)

\* Something is under way that the processor does not leave unfinished.
Busy == pc # "Idle" \/ (zero /\ irq)

\* One clock of TIMER1.
Count ==
    /\ Busy => idle < StepClocks
    /\ cnt' = (cnt + 1) % CntSize
    /\ zero' = (zero \/ cnt' = 0)
    /\ wraps' = IF cnt' = 0 THEN (wraps + 1) % WordSize ELSE wraps
    /\ idle' = IF Busy THEN idle + 1 ELSE 0
    /\ spent' = IF caller \in {"DelayFirst", "DelayPoll"} /\ spent <= SpentBound
                   THEN spent + 1 ELSE spent
    /\ UNCHANGED <<irq, m_dwInternalTicks, pc, reading, caller, ticks, target, tries>>

\* Mutant: the counter stops at its top.
InternalTicksSaturating(n) == IF n + 1 = WordSize THEN n ELSE n + 1

\* m_dwInternalTicks++
InternalTicks(n) == (n + 1) % WordSize

\* TIMER1_IRQHandler.
TIMER1_IRQHandler ==
    /\ zero /\ irq
    /\ m_dwInternalTicks' = InternalTicks(m_dwInternalTicks)
    /\ zero' = FALSE
    /\ idle' = 0
    /\ UNCHANGED <<cnt, wraps, irq, pc, reading, caller, delay, tries>>

\* A pending interrupt is taken before the next step is made.  Only the
\* instruction that masks it may be faster, hence the two NOPs before it.
NoInterrupt == ~(zero /\ irq)

-----------------------------------------------------------------------------
(* GetRawXTick.                                                            *)

\* NVIC_EnableIRQ, at the top of the loop.
Enable ==
    /\ pc = "Enable" /\ NoInterrupt
    /\ irq' = TRUE
    /\ tries' = tries + 1
    /\ pc' = "Nop" /\ idle' = 0
    /\ UNCHANGED <<timer, m_dwInternalTicks, reading, caller, delay>>

\* Mutant: no time for the interrupt between two turns of the loop.
NopMasked ==
    /\ pc = "Nop"
    /\ pc' = "Disable" /\ idle' = 0
    /\ UNCHANGED <<timer, irq, m_dwInternalTicks, reading, caller, delay, tries>>

\* Two NOPs: time enough for the pending interrupt to be taken.
Nop ==
    /\ pc = "Nop" /\ NoInterrupt
    /\ pc' = "Disable" /\ idle' = 0
    /\ UNCHANGED <<timer, irq, m_dwInternalTicks, reading, caller, delay, tries>>

\* NVIC_DisableIRQ.
Disable ==
    /\ pc = "Disable"
    /\ irq' = FALSE
    /\ pc' = "Low" /\ idle' = 0
    /\ UNCHANGED <<timer, m_dwInternalTicks, reading, caller, delay, tries>>

\* *LowBits = GetHWTimerVal()
ReadLow ==
    /\ pc = "Low"
    /\ lowbits' = cnt
    /\ at' = <<wraps, cnt>>
    /\ spent' = IF caller = "DelayPoll" THEN spent ELSE 0
    /\ pc' = "High" /\ idle' = 0
    /\ UNCHANGED <<timer, irq, m_dwInternalTicks, highbits, caller, ticks, target, tries>>

\* *HighBits = m_dwInternalTicks
ReadHigh ==
    /\ pc = "High"
    /\ highbits' = m_dwInternalTicks
    /\ pc' = "Over" /\ idle' = 0
    /\ UNCHANGED <<timer, irq, m_dwInternalTicks, lowbits, at, caller, delay, tries>>

\* Mutant: the overflow flag is not looked at.
TestOverNot ==
    /\ pc = "Over"
    /\ pc' = "Return" /\ irq' = TRUE
    /\ idle' = 0
    /\ UNCHANGED <<timer, m_dwInternalTicks, reading, caller, delay, tries>>

\* Mutant: the interrupt is left masked at the end.
TestOverMasked ==
    /\ pc = "Over"
    /\ pc' = IF zero THEN "Enable" ELSE "Return"
    /\ idle' = 0
    /\ UNCHANGED <<timer, irq, m_dwInternalTicks, reading, caller, delay, tries>>

\* while( IsXTickTimerOver() ), and NVIC_EnableIRQ behind the loop.
TestOver ==
    /\ pc = "Over"
    /\ IF zero THEN pc' = "Enable" /\ UNCHANGED irq
               ELSE pc' = "Return" /\ irq' = TRUE
    /\ idle' = 0
    /\ UNCHANGED <<timer, m_dwInternalTicks, reading, caller, delay, tries>>

-----------------------------------------------------------------------------
(* The callers.                                                            *)

\* Mutant: the shift keeps the bits above the word.
GetXTickWide(high, low) == (low \div TickSize) + (high * (CntSize \div TickSize))

\* GetXTick: the high bits of CNT below, the overflow count above; what does
\* not fit into 32 bits is shifted out.
GetXTick(high, low) ==
    (low \div TickSize) + ((high * (CntSize \div TickSize)) % WordSize)

\* Mutant: the overflow count shifted as in GetXTick.
GetXTickDiv1024Unshifted(high, low) ==
    (low \div (TickSize * Div)) + ((high * (CntSize \div TickSize)) % WordSize)

\* GetXTickDiv1024: the same with ten bits less.
GetXTickDiv1024(high, low) ==
    (low \div (TickSize * Div)) + ((high * (CntSize \div (TickSize * Div))) % WordSize)

\* sys_now of lwip/src/core/sys.c.
sys_now(xtick) == xtick \div TicksPerMs

\* GetXTick(), GetXTickDiv1024() or sys_now() is called.
CallGetXTick ==
    /\ pc = "Idle" /\ NoInterrupt
    /\ caller' = "GetXTick"
    /\ pc' = "Enable" /\ idle' = 0 /\ tries' = 0
    /\ UNCHANGED <<timer, irq, m_dwInternalTicks, reading, delay>>

\* DelayMs(ms) is called and reads the time for the first time.
CallDelayMs ==
    /\ pc = "Idle" /\ NoInterrupt
    /\ \E ms \in Delays : target' = (TicksPerMs * ms) % WordSize
    /\ caller' = "DelayFirst"
    /\ pc' = "Enable" /\ idle' = 0 /\ tries' = 0
    /\ UNCHANGED <<timer, irq, m_dwInternalTicks, reading, ticks, spent>>

\* Mutant: deadlines compared as absolute times.
StillWaitingAbsolute(now) == now < ticks + target

\* ( GetXTick() - ticks ) < TICKS_PER_MILLISECOND * delay
StillWaiting(now) == (now - ticks) % WordSize < target

\* The caller returns in turn; its locals are gone.
Leave == pc' = "Idle" /\ caller' = "none" /\ ticks' = 0 /\ target' = 0 /\ spent' = 0

\* The result goes back to its caller.  Only DelayMs does more with it: the
\* first value is kept, later ones end the loop or start another reading.
Return ==
    /\ pc = "Return" /\ NoInterrupt
    /\ LET now == GetXTick(highbits, lowbits)
       IN  \/ caller = "GetXTick" /\ Leave
           \/ /\ caller = "DelayFirst"
              /\ caller' = "DelayPoll" /\ pc' = "Enable" /\ ticks' = now
              /\ UNCHANGED <<target, spent>>
           \/ /\ caller = "DelayPoll" /\ StillWaiting(now)
              /\ pc' = "Enable" /\ UNCHANGED <<caller, delay>>
           \/ caller = "DelayPoll" /\ ~StillWaiting(now) /\ Leave
    /\ lowbits' = 0 /\ highbits' = 0 /\ at' = <<0, 0>>
    /\ idle' = 0 /\ tries' = 0
    /\ UNCHANGED <<timer, irq, m_dwInternalTicks>>

-----------------------------------------------------------------------------

Code == \/ TIMER1_IRQHandler
        \/ Enable \/ Nop \/ Disable \/ ReadLow \/ ReadHigh \/ TestOver \/ Return

Next == Count \/ Code \/ CallGetXTick \/ CallDelayMs

\* The timer runs, the processor executes.  Nobody has to call anything.
Fairness == WF_vars(Count) /\ WF_vars(Code)

Spec == Init /\ [][Next]_vars
FairSpec == Spec /\ Fairness

-----------------------------------------------------------------------------
(* Properties.                                                             *)

TypeOK ==
    /\ cnt \in 0..(CntSize - 1) /\ zero \in BOOLEAN /\ irq \in BOOLEAN
    /\ m_dwInternalTicks \in 0..(WordSize - 1) /\ wraps \in 0..(WordSize - 1)
    /\ pc \in Labels /\ caller \in Callers
    /\ lowbits \in 0..(CntSize - 1) /\ highbits \in 0..(WordSize - 1)
    /\ at \in (0..(WordSize - 1)) \X (0..(CntSize - 1))
    /\ ticks \in 0..(WordSize - 1) /\ target \in 0..(WordSize - 1)
    /\ idle \in 0..StepClocks /\ tries \in Nat /\ spent \in Nat

\* No overflow of the timer is lost, although GetRawXTick masks its interrupt
\* and may do so for several turns: each is counted or still flagged
\* (XTick.c:44-52, 139-147).
NoWrapLost ==
    wraps = IF zero THEN (m_dwInternalTicks + 1) % WordSize ELSE m_dwInternalTicks

\* The two halves GetRawXTick returns belong to one instant, the one at which
\* CNT was read: the counter did not overflow between the two readings
\* unnoticed (XTick.c:49-52).
ReadingConsistent == pc = "Return" => at = <<highbits, lowbits>>

\* The clocks of instant <<w, c>> in units of u clocks, as a 32-bit number.
TrueTick(w, c, u) == ((w * CntSize + c) \div u) % WordSize

\* Both getters return the time of that instant modulo 2^32: the shifts lose
\* only whole multiples of 2^32 and the halves do not overlap.
XTickExact ==
    pc = "Return" =>
        /\ GetXTick(highbits, lowbits) = TrueTick(at[1], at[2], TickSize)
        /\ GetXTickDiv1024(highbits, lowbits) = TrueTick(at[1], at[2], TickSize * Div)

\* An overflow disturbs a reading once at most: GetRawXTick's loop is not
\* starved by the interrupt it waits for.
AtMostOneRetry == tries <= 2

\* DelayMs returns neither more than one unit early nor later than one unit
\* and the reading that was under way, over any overflow.
DelayPrecise ==
    [][caller = "DelayPoll" /\ caller' = "none" =>
          /\ target > 0 => spent > (target - 1) * TickSize
          /\ spent <= target * TickSize + PollClocks]_vars

\* DelayMs returns.
DelayReturns == caller = "DelayFirst" ~> caller = "none"

\* sys.h:442 "Don't care for wraparound, this is only used for time diffs":
\* then a sys_now() one millisecond after this one would be greater by one,
\* in 32-bit arithmetic, wherever the two fall.
SysNowDiffs ==
    pc = "Return" =>
        LET now == GetXTick(highbits, lowbits)
        IN  (sys_now((now + TicksPerMs) % WordSize) - sys_now(now)) % WordSize = 1
=============================================================================
