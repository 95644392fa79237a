------------------------------ MODULE MainLoop ------------------------------
(***************************************************************************)
(* The super-loop of main() (Application/Main.c) with everything that runs *)
(* beside it: the once-a-second interrupt of TIMER2 (PPS.c), which counts  *)
(* ticks_two behind the loop's back, lwIP's periodic timers (netconf.c),   *)
(* the two disturbance inputs, the UDP send and the independent watchdog.  *)
(*                                                                         *)
(* One turn of the loop is                                                 *)
(*   Pkt -> Periodic -> TimeCounting -> Check -> [Latch -> Send ->] Reload *)
(* The interrupt may fall between any two of these steps.  Check and Latch *)
(* are two steps because Counting_seconds reads GetSecond() twice.         *)
(*                                                                         *)
(* Time is counted in seconds: PpsInterrupt takes one, and so does         *)
(* HungSecond in a loop that hangs; no other step takes time.  Timely says *)
(* how fast the loop is (see PpsInterrupt).                                *)
(***************************************************************************)
EXTENDS Payload

CONSTANTS
    TickModulus,       \* 2^32: ticks_two, ticks and the timers are uint32_t
    TCP_PERIOD,        \* the constant compared with in LwIP_Periodic_Handle
    ARP_TMR_INTERVAL,  \* lwIP's constant, compared with there too
    WatchdogTicks,     \* seconds of the IWDG timeout: 2500 / 625 Hz
    Timely,            \* TRUE: two turns of the loop fit between interrupts
    Inputs,            \* levels of the pins PD2 (validity) and PD1 (efficency)
    MaxPps             \* bound: interrupts per boot that are explored

ASSUME ModulusAssumption == TickModulus \in Nat /\ TickModulus > 1
ASSUME WatchdogAssumption ==
    WatchdogTicks \in Nat /\ WatchdogTicks > 1 /\ TickModulus > 2 * WatchdogTicks
ASSUME PeriodAssumption ==
    /\ TCP_PERIOD \in Nat \ {0} /\ TCP_PERIOD + 1 < TickModulus
    /\ ARP_TMR_INTERVAL \in Nat \ {0} /\ ARP_TMR_INTERVAL + 1 < TickModulus
ASSUME TimelyAssumption == Timely \in BOOLEAN
ASSUME InputsAssumption == Inputs \subseteq (0..1) \X (0..1)
\* No more seconds than the 16-bit year has room for (63000 years).
ASSUME MaxPpsAssumption == MaxPps \in Nat /\ MaxPps \div 86400 < 23000000

VARIABLES
    ticks_two,   \* PPS.c: interrupts counted, what GetSecond() returns
    ticks,       \* Main.c: GetSecond() when the last second was counted
    Datagram,    \* Main.c: struct PAYLOAD
    DATA,        \* Main.c: the 26 bytes to send
    TCPTimer,    \* netconf.c: ticks at the last tcp_tmr()
    ARPTimer,    \* netconf.c: ticks at the last etharp_tmr()
    led,         \* BiLED.c: the two pins of the two-colour LED
    pc,          \* where the loop is
    wire,        \* the 26 bytes the driver took in this turn, or NoDatagram
    unfed,       \* seconds since the last IWDG_ReloadCounter()
    laps,        \* turns of the loop finished since the last interrupt, cut at 2
    pps,         \* interrupts since boot, not wrapped
    tcpAge,      \* interrupts since the last tcp_tmr()
    arpAge,      \* interrupts since the last etharp_tmr()
    quiet        \* seconds since a datagram was built or the device started

code == <<ticks_two, ticks, Datagram, DATA, TCPTimer, ARPTimer, led, pc>>
ghost == <<unfed, laps, pps, tcpAge, arpAge, quiet>>
vars == <<code, wire, ghost>>

\* What DATA[] holds before the first DATA_construct.  No datagram is all zeros
\* (identificator is 0xFF), so it also stands for "nothing sent yet".
NoDatagram == [i \in 0..25 |-> 0]

Labels == {"Pkt", "Periodic", "TimeCounting", "Check", "Latch", "Send", "Reload", "Stuck"}

\* uint32_t subtraction.
Minus32(a, b) == (a - b) % TickModulus

\* Interrupts the loop has not counted yet, as the code computes it.
Pending == Minus32(ticks_two, ticks)

Lower2(n) == IF n < 2 THEN n ELSE 2

\* SetBiLED: the two pins for each TBiLEDColor.
SetBiLED(Color) ==
    [red |-> Color \in {"LED_RED", "LED_YELLOW"},
     green |-> Color \in {"LED_GREEN", "LED_YELLOW"}]

\* The switch on (validity<<1)|efficency in Counting_seconds.
AttributeColor(validity, efficency) ==
    <<"LED_BLACK", "LED_RED", "LED_YELLOW", "LED_GREEN">>[2 * validity + efficency + 1]

\* What main() leaves behind when it enters while(1), after any reset.
Booted(t2, t, dgram, dat, tcp, arp, l) ==
    /\ t2 = 0 /\ t = 0
    /\ dgram = Datagram_parameters_initialisation
    /\ dat = NoDatagram
    /\ tcp = 0 /\ arp = 0
    /\ l = SetBiLED("LED_YELLOW")

Init ==
    /\ Booted(ticks_two, ticks, Datagram, DATA, TCPTimer, ARPTimer, led)
    /\ pc = "Pkt"
    /\ wire = NoDatagram
    /\ unfed = 0 /\ laps = 2 /\ pps = 0 /\ tcpAge = 0 /\ arpAge = 0 /\ quiet = 0

-----------------------------------------------------------------------------
(* The interrupt.                                                          *)

\* Mutant: the handler drops the count on the way to the wrap.
PpsCountSaturating(n) == IF n + 1 = TickModulus THEN n ELSE n + 1

\* ticks_two++ in TIMER2_IRQHandler.
PpsCount(n) == (n + 1) % TickModulus

\* TIMER2_IRQHandler.  It can run at any point of the loop, and in the polling
\* of fputc, but not so often that the watchdog would have bitten before; when
\* the loop is Timely, two of its turns have ended since the interrupt before.
PpsInterrupt ==
    /\ unfed < WatchdogTicks
    /\ Timely => laps = 2
    /\ pps < MaxPps
    /\ ticks_two' = PpsCount(ticks_two)
    /\ unfed' = unfed + 1
    /\ laps' = 0
    /\ pps' = pps + 1
    /\ tcpAge' = tcpAge + 1
    /\ arpAge' = arpAge + 1
    /\ quiet' = quiet + 1
    /\ UNCHANGED <<ticks, Datagram, DATA, TCPTimer, ARPTimer, led, pc, wire>>

-----------------------------------------------------------------------------
(* The loop.                                                               *)

\* LwIP_Pkt_Handle: a frame, if any, goes through lwIP.  When the pbuf pool
\* is empty ethernetif_input hands lwIP a null pbuf and may end in a fault.
LwIP_Pkt_Handle ==
    /\ pc = "Pkt"
    /\ pc' \in {"Periodic", "Stuck"}
    /\ UNCHANGED <<ticks_two, ticks, Datagram, DATA, TCPTimer, ARPTimer, led, wire, ghost>>

\* Mutant: timers compared as absolute times, which breaks at the wrap.
DueAbsolute(localtime, timer, period) == localtime >= timer + period

\* `localtime - Timer >= period`
Due(localtime, timer, period) == Minus32(localtime, timer) >= period

\* LwIP_Periodic_Handle(ticks).
LwIP_Periodic_Handle ==
    /\ pc = "Periodic"
    /\ IF Due(ticks, TCPTimer, TCP_PERIOD)
       THEN TCPTimer' = ticks /\ tcpAge' = 0
       ELSE UNCHANGED <<TCPTimer, tcpAge>>
    /\ IF Due(ticks, ARPTimer, ARP_TMR_INTERVAL)
       THEN ARPTimer' = ticks /\ arpAge' = 0
       ELSE UNCHANGED <<ARPTimer, arpAge>>
    /\ pc' = "TimeCounting"
    /\ UNCHANGED <<ticks_two, ticks, Datagram, DATA, led, wire, unfed, laps, pps, quiet>>

\* Mutant: local is carried from msk's struct instead of its own.
TimeCountingMskOnly ==
    /\ pc = "TimeCounting"
    /\ Datagram' = [Datagram EXCEPT !.msk = Time_counting(@)]
    /\ pc' = "Check"
    /\ UNCHANGED <<ticks_two, ticks, DATA, TCPTimer, ARPTimer, led, wire, ghost>>

\* Time_counting(&Datagram.msk); Time_counting(&Datagram.local).
TimeCounting ==
    /\ pc = "TimeCounting"
    /\ Datagram' = [Datagram EXCEPT !.msk = Time_counting(@),
                                    !.local = Time_counting(@)]
    /\ pc' = "Check"
    /\ UNCHANGED <<ticks_two, ticks, DATA, TCPTimer, ARPTimer, led, wire, ghost>>

\* Mutant: a second is taken only once another one is due.
CheckLate ==
    /\ pc = "Check"
    /\ pc' = IF Pending > 1 THEN "Latch" ELSE "Reload"
    /\ UNCHANGED <<ticks_two, ticks, Datagram, DATA, TCPTimer, ARPTimer, led, wire, ghost>>

\* Counting_seconds: if((GetSecond() - ticks) >= 1)
Check ==
    /\ pc = "Check"
    /\ pc' = IF Pending >= 1 THEN "Latch" ELSE "Reload"
    /\ UNCHANGED <<ticks_two, ticks, Datagram, DATA, TCPTimer, ARPTimer, led, wire, ghost>>

\* Asking(): the attributes are the levels of the two pins.
Asking(d, pins) == [d EXCEPT !.validity = pins[1], !.efficency = pins[2]]

\* number++, both second++ and Asking().
Advanced(d, pins) ==
    Asking([d EXCEPT !.number = U8(@ + 1),
                     !.msk = AddSecond(@), !.local = AddSecond(@)], pins)

\* Datagram.check_sum = Get_check_sum(Datagram, ...), after all the rest.
Summed(d) == [d EXCEPT !.check_sum = Get_check_sum(d)]

\* The datagrams Counting_seconds may build from d, one for each input.
NextDatagrams(d) ==
    {Summed(e) : e \in {Advanced(d, pins) : pins \in Inputs}}

\* Mutant: ticks stepped past the sample instead of set to it.
LatchOvershoot(second) == (second + 1) % TickModulus

\* Mutant: ticks advanced by the difference, in a wider type.
LatchUnwrapped(second) == ticks + Minus32(second, ticks)

\* ticks = GetSecond(): the counter as it is now, not as Check saw it.
LatchTicks(second) == second

\* Counting_seconds up to UDPSend.
Latch ==
    /\ pc = "Latch"
    /\ ticks' = LatchTicks(ticks_two)
    /\ \E d \in NextDatagrams(Datagram) :
          /\ Datagram' = d
          /\ DATA' = DATA_construct(d)
          /\ led' = SetBiLED(AttributeColor(d.validity, d.efficency))
    /\ pc' = "Send"
    /\ quiet' = 0
    /\ UNCHANGED <<ticks_two, TCPTimer, ARPTimer, wire, unfed, laps, pps, tcpAge, arpAge>>

\* Counting_seconds behind UDPSend: the LED goes dark, the rest is printing.
LedAfterSend == SetBiLED("LED_BLACK")

\* UDPSend(DATA, 26) and the rest of Counting_seconds.  pbuf_alloc succeeds
\* and udp_sendto_if either hands the bytes to the driver or reports an error
\* nobody looks at.
UDPSend ==
    /\ pc = "Send"
    /\ wire' \in {wire, DATA}
    /\ led' = LedAfterSend
    /\ pc' = "Reload"
    /\ UNCHANGED <<ticks_two, ticks, Datagram, DATA, TCPTimer, ARPTimer, ghost>>

\* UDPSend when pbuf_alloc returns NULL: only a message, then memcpy through
\* the null pointer.  The store faults, or goes nowhere and udp_sendto_if
\* refuses the null pbuf.
UDPSendNoPbuf ==
    /\ pc = "Send"
    /\ \/ pc' = "Stuck" /\ UNCHANGED led
       \/ pc' = "Reload" /\ led' = LedAfterSend
    /\ UNCHANGED <<ticks_two, ticks, Datagram, DATA, TCPTimer, ARPTimer, wire, ghost>>

\* The printf()s in and after UDPSend poll the UART with hardware flow
\* control (fputc): a peer that holds CTS stops the loop, before or after
\* the datagram left.
PrintBlocked ==
    /\ pc = "Send"
    /\ wire' \in {wire, DATA}
    /\ led' \in {led, LedAfterSend}
    /\ pc' = "Stuck"
    /\ UNCHANGED <<ticks_two, ticks, Datagram, DATA, TCPTimer, ARPTimer, ghost>>

\* IWDG_ReloadCounter() and back to the top of while(1).
IWDG_ReloadCounter ==
    /\ pc = "Reload"
    /\ unfed' = 0
    /\ laps' = Lower2(laps + 1)
    /\ wire' = NoDatagram
    /\ pc' = "Pkt"
    /\ UNCHANGED <<ticks_two, ticks, Datagram, DATA, TCPTimer, ARPTimer, led,
                   pps, tcpAge, arpAge, quiet>>

LoopStep ==
    \/ LwIP_Pkt_Handle \/ LwIP_Periodic_Handle \/ TimeCounting \/ Check \/ Latch
    \/ UDPSend \/ UDPSendNoPbuf \/ PrintBlocked \/ IWDG_ReloadCounter

-----------------------------------------------------------------------------
(* The watchdog.                                                           *)

\* Mutant: the polling loop feeds the watchdog.
HungSecondFed ==
    /\ pc = "Stuck"
    /\ unfed' = 0
    /\ quiet' = quiet + 1
    /\ UNCHANGED <<code, wire, laps, pps, tcpAge, arpAge>>

\* A second passes in a loop that hangs, in fputc or in the while(1) of a fault
\* handler, which keeps TIMER2's interrupt out.  Nothing reloads the watchdog.
HungSecond ==
    /\ pc = "Stuck"
    /\ unfed < WatchdogTicks
    /\ unfed' = unfed + 1
    /\ quiet' = quiet + 1
    /\ UNCHANGED <<code, wire, laps, pps, tcpAge, arpAge>>

\* 2500 counts of 625 Hz without a reload, which the whole seconds of unfed may
\* fall short of by one.
Bites == unfed >= WatchdogTicks - 1

\* The reset runs main() again from the start: all of RAM is initialised.
WatchdogReset ==
    /\ Bites
    /\ Booted(ticks_two', ticks', Datagram', DATA', TCPTimer', ARPTimer', led')
    /\ pc' = "Pkt"
    /\ wire' = NoDatagram
    /\ unfed' = 0 /\ laps' = 2 /\ pps' = 0 /\ tcpAge' = 0 /\ arpAge' = 0 /\ quiet' = 0

Next == PpsInterrupt \/ LoopStep \/ HungSecond \/ WatchdogReset

\* The processor never stops executing, time passes in a loop that hangs, and at
\* the end of its timeout the watchdog bites.  Nothing is assumed of the
\* interrupts, nor that a hang ends.
Fairness ==
    /\ WF_vars(LoopStep) /\ WF_vars(HungSecond)
    /\ WF_vars(unfed = WatchdogTicks /\ WatchdogReset)

Spec == Init /\ [][Next]_vars
FairSpec == Spec /\ Fairness

-----------------------------------------------------------------------------
(* Properties.                                                             *)

TypeOK ==
    /\ ticks_two \in 0..(TickModulus - 1) /\ ticks \in 0..(TickModulus - 1)
    /\ Datagram \in PAYLOAD
    /\ DATA \in [0..25 -> Byte] /\ wire \in [0..25 -> Byte]
    /\ TCPTimer \in 0..(TickModulus - 1) /\ ARPTimer \in 0..(TickModulus - 1)
    /\ led \in [red: BOOLEAN, green: BOOLEAN]
    /\ pc \in Labels
    /\ unfed \in 0..WatchdogTicks /\ laps \in 0..2 /\ pps \in 0..MaxPps
    /\ tcpAge \in Nat /\ arpAge \in Nat /\ quiet \in Nat

\* The two times of the datagram stay one hour apart for ever, although each
\* is carried on its own: an hour, day, month or year boundary is crossed by
\* one of them long before the other (Main.c:654-655, 573-574).
LocalOneHourBehind == OneHourBehind(Datagram.msk, Datagram.local)

\* Seconds that Datagram.msk has been advanced since boot.
Counted == Elapsed(BootTime, Datagram.msk)

\* The clock never runs ahead of the interrupts: what is counted and what is
\* still pending were both delivered (Main.c:569-573).
NeverAhead == Counted + Pending <= pps

\* A Timely loop counts every interrupt exactly once, across the wrap of the
\* tick counter: none is lost to the second GetSecond() of Main.c:571.
NoSecondLost == Timely => Counted + Pending = pps

\* A Timely loop sends the datagram of the current second: between building
\* and sending it no further second has passed.
DatagramOnTime == Timely /\ pc = "Send" => Counted = pps

\* Interrupts that one turn may swallow, and only one of which it counts: the
\* watchdog bounds them by two timeouts, one on each side of a reload.
BacklogBounded == Pending <= 2 * WatchdogTicks

\* A receiver can trust each datagram on its own: the checksum matches, its
\* two times are one hour apart, and its number is the seconds since the boot
\* time modulo 256.
WireConsistent ==
    wire # NoDatagram =>
        /\ ChecksumValid(wire)
        /\ OneHourBehind(WireTime(wire, 8), WireTime(wire, 16))
        /\ wire[0] = Elapsed(BootTime, WireTime(wire, 8)) % 256

\* tcp_tmr() and etharp_tmr() of a Timely loop run at their period in ticks,
\* give or take the one not yet counted, and also across the wrap.
PeriodicTimersRun ==
    Timely => tcpAge <= TCP_PERIOD + 1 /\ arpAge <= ARP_TMR_INTERVAL + 1

\* netconf.c:121 "TCP periodic process every 250 ms": then no second would
\* pass without a tcp_tmr().
TcpTimerEvery250ms == tcpAge <= 1

\* An interrupt is counted, or the device restarts: the loop does not leave a
\* second pending for ever.
PendingServed == Pending # 0 ~> Pending = 0

\* However the turns stall, and wherever one hangs (a null pbuf in ethernetif_input
\* or UDPSend, a blocked UART), a datagram is built or the device restarts within
\* two watchdog timeouts: the hung turn may follow one that used a timeout up.
QuietBounded == quiet <= 2 * WatchdogTicks
=============================================================================
