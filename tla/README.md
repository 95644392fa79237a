# Verification of the 1 Hz generator for the 1986VE1T

The firmware counts seconds with a timer interrupt, keeps a calendar, and once
a second broadcasts a 26-byte UDP datagram with Moscow and local time and two
input levels; an HTTP page is served beside it by lwIP. There is no operating
system: one loop in `main()`, two timer interrupts and the Ethernet MAC are all
that runs concurrently. This directory holds TLA+ models of the parts the
project wrote itself and of the parts of lwIP that keep state for it (the ARP
table, TCP, the HTTP server), TLC configurations for them and TLAPS proofs.

## Inventory

| Part | State | Operations | Interacts with |
|---|---|---|---|
| Calendar (`Main.c`) | `struct TIME` twice | `Time_counting`, `second++`, local time correction | super-loop |
| Datagram (`Main.c`) | `Datagram`, `DATA[26]` | `Get_check_sum`, `DATA_construct`, `Datagram_parameters_initialisation`, `Asking` | super-loop, wire |
| Super-loop (`Main.c`) | `ticks`, LED, watchdog | `main`, `Counting_seconds`, `UDPSend`, `IWDG_ReloadCounter` | everything |
| PPS tick (`PPS.c`) | `ticks_two` | `TIMER2_IRQHandler`, `GetSecond` | shared counter read twice by `Counting_seconds` |
| lwIP timers (`netconf.c`) | `TCPTimer`, `ARPTimer` | `LwIP_Pkt_Handle`, `LwIP_Periodic_Handle`, `LwIP_Init` | called by the loop with `ticks` |
| LED (`BiLED.c`) | two pins | `SetBiLED` | super-loop, EEPROM reader |
| XTick (`XTick.c`, `core/sys.c`) | TIMER1, `m_dwInternalTicks` | `GetRawXTick`, `GetXTick`, `GetXTickDiv1024`, `DelayMs`, `sys_now` | interrupt against reader |
| Ethernet driver (`ethernetif.c`) | two rings, four pointers | `EthWriteFrame`, `EthReadFrame`, `low_level_output`, `low_level_input`, `ethernetif_input` | MAC against driver |
| EEPROM reader (`eeprom_new.c`) | pins, `MACdevice`, `MAC_addr` | `eeprom_new_init`, `SendByte`, `ReadByteSPI`, `eeprom_read` | start-up, 25AA02E48 |
| Start-up (`Main.c`, `netconf.c`, `MDR1986VE1T_IT.c`) | watchdog, `hwaddr` | the init block of `main`, `LwIP_Init`, `low_level_init`, fault handlers | watchdog, UART |
| ARP table (`etharp.c`) | `arp_table`, `etharp_cached_entry`, packets waiting | `etharp_output`, `etharp_query`, `etharp_input`, `etharp_tmr` | shares pbufs with UDP and TCP, `LwIP_Periodic_Handle` |
| TCP (`tcp.c`, `tcp_in.c`, `tcp_out.c`) | pcbs, `unsent`, `unacked`, timers | `tcp_input`, `tcp_output`, `tcp_close`, `tcp_fasttmr`, `tcp_slowtmr` | calls back into httpd, which calls TCP again |
| HTTP server (`httpd.c`) | `http_state` per connection, its request's pbufs | `http_accept`, `http_recv`, `http_sent`, `http_poll`, `http_err` | TCP |
| rest of lwIP, vendor libraries | | | environment |

The hard behaviours: the interrupt falls between any two steps of the loop, and
`GetSecond()` is read twice; turns of the loop may take seconds (`printf` polls
a UART with flow control); the only recovery is the watchdog, which loses all
state; counters wrap; the timer overflows while its two halves are read; the
MAC works on the rings while the driver does; pointers that are equal mean
"empty" even when the ring is full; a reset of the controller leaves the EEPROM
in the middle of a transfer; a full ARP table gives entries up with packets on
them; a TCP connection may end inside almost any callback, and frames are lost,
repeated and late.

What makes the parts correct: every second is counted once and sent in time as
long as the loop keeps up, and never twice if it does not; the calendar is the
Gregorian one; the two times stay an hour apart; a receiver can check each
datagram; the time base is exact at every overflow; the rings are queues of
whole frames; the device always comes back, with the address that is in its
chip; a packet goes to the host it is for; no pbuf, pcb or `http_state` is lost
or used after it was freed; a page that ends in order is whole. `PROJECT.json` lists the hazards by
source line with the properties that cover them.

## Modules

| Module | Models |
|---|---|
| `Calendar` | the carries and the correction as operators, beside a reference Gregorian calendar with a closed form for day numbers |
| `MCCalendar` | one `struct TIME` stepped over all day boundaries of chosen years |
| `Payload` | `struct PAYLOAD`, its memory image, the checksum, the wire bytes |
| `MainLoop` | the loop, the PPS interrupt, the lwIP timers, the LED, the watchdog |
| `MCMainLoop` | input sets for the configurations |
| `XTick` | the lock-free time base and its callers |
| `FrameQueue` | what a direction of the Ethernet driver owes: an unbounded FIFO of whole frames |
| `EthTx`, `EthRx` | the two rings, each implementing `FrameQueue` |
| `StartUp`, `MCStartUp` | from reset to the loop: the init block, the EEPROM reader clock by clock, the watchdog |
| `Etharp`, `MCEtharp` | the ARP table and the reference counts of the packets it holds |
| `Httpd` | one connection of the HTTP server on TCP, from SYN to the release of the pcb |
| `CalendarProofs`, `MainLoopProofs`, `XTickProofs`, `EthTxProofs`, `EthRxProofs`, `StartUpProofs`, `EtharpProofs`, `HttpdProofs` | theorems, each about the module it is named after |

Every definition that stands for code is in the "map" of `PROJECT.json` with its
lines. Definitions whose comment begins with "Mutant:" are deliberately wrong
variants, used to show that each property notices a plausible mistake.

### MainLoop

One turn is `LwIP_Pkt_Handle`, `LwIP_Periodic_Handle`, `TimeCounting`, `Check`,
then `Latch` and a send action if a second is due, then `IWDG_ReloadCounter`.
`Check` and `Latch` are separate because the code reads `GetSecond()` in each
(Main.c:569 and 571). `Latch` does everything up to `UDPSend`: the second
reading, number and seconds, `Asking`, checksum, wire bytes, LED. The send has
three outcomes: `UDPSend` (handed over or refused by lwIP), `UDPSendNoPbuf` (no
pbuf: `memcpy` through a null pointer faults or is harmless, depending on what
is mapped at address 0), `PrintBlocked` (the UART's peer holds CTS). `Stuck`
stands for a fault handler's or `fputc`'s endless loop, in which time goes on:
with the interrupt (`PpsInterrupt`, polling `fputc`) or without it (`HungSecond`,
a fault handler). `WatchdogReset` runs `main()` again: all of RAM is set up anew,
the time of day included. It may come from the last whole second of the timeout
on, anywhere in a turn, whether the turn hangs or only takes long.

Time is counted in PPS interrupts. `Timely = TRUE` restricts the interrupt to
come after at least two turns of the loop, which is what the hardware does when
a turn takes milliseconds; `Timely = FALSE` lets any number of interrupts fall
into a turn, up to what the watchdog tolerates. Variables after `wire` are
history: seconds since the last reload and since the last datagram was built
(`quiet`), interrupts since boot and since each lwIP timer.

A thing worth knowing, visible in `NormalOr60`: the seconds are incremented
after `Time_counting` has run, so at each full minute the datagram is sent with
second 60 of the old minute; the carry is made a turn later.

### XTick

Each instruction of `GetRawXTick` is an action, and the timer may count between
any two. `StepClocks` bounds the clocks per step; `StepAssumption` says that the
24-bit timer is more than twelve steps long (in fact millions). A pending
interrupt is taken before the next step, except that masking it may be faster;
this is what the two NOPs are for. The counters are modular, so they need no
bound; only `spent`, which measures a delay and is not part of the code, stops
at `SpentBound`, above the longest delay that `DelaysAssumption` allows.

### EthTx, EthRx

Words of the ring carry a frame's name and position, so that a mixed-up, cut or
overwritten frame is visible. Each driver call has three steps: reading the
pointers, copying, moving its own pointer; the MAC acts in between. The MAC is
external: it sends from `X_Head` while the pointers differ, and it receives
when a frame leaves at least one word free. The refinement mapping reads the
frames out of the ring as the other side would (`Queue`).

A transmit ring that is filled to the last word looks empty, and all that is in
it is lost (run `eth_tx_exact_fill`); the proofs show that no other step loses a
frame. The receive ring has no such step, as the MAC leaves a word free.

### StartUp

The init block runs in the order of `main()`; a step ends where the UART's peer
may hold a `printf`, which in the EEPROM reader is after each bit. The address
is read twice in a boot: into `MACdevice`, and again by `low_level_init` into
`MAC_addr`, the one that goes out in frames (`hwaddr`). The reader's `ret` is
never initialised (eeprom_new.c:78): `Address` gives it any value of `Garbage`,
and after seven shifts its lowest bit has been added to the byte's top bit.
`MacIsEui` says exactly how much of the address can be trusted:
all but the top bit of each byte. Two things follow that the model shows and no
property asserts: the two copies of one boot may differ, and so may two boots;
and a blank chip can pass the check for a bad address, or a chip with the address
7F-7F-... fail it (`GoodEui` excludes such addresses from `GetsToLoop`).

`Watchdog` resets the controller and not the chip, whose bit counter goes on
where it was until `CS` rises: `OnlyReads` says that the chip never sees an
instruction other than a read in spite of this, because `eeprom_new_init` raises
`CS` before the first clock. The exception handlers of `MDR1986VE1T_IT.c` are
`while(1)`; they end like `MacError`, by the watchdog.

### Etharp

A call of `etharp_output` with what its caller does to the pbuf afterwards is one
action (`SendDatagram` frees it, `SendSegment` keeps it until `Acknowledged`,
`Resend` is refused while the table holds it). `ref` is `pbuf->ref`. Hosts may
change their hardware address (`MacsOf`), answer, announce themselves, or stay
silent. `Remote` hosts go through the gateway. `last`, `requested` and `out` are
history: the address last heard from a host, timer ticks since the last unicast
or broadcast repeat of a request for it, and the frames of the last step.

The driver receives all packets (`ETH_Receive_All_Packets`, ethernetif.c:137), so
ARP traffic of others updates entries that exist; only packets addressed to the
device create entries. The datagrams go to 255.255.255.255 and need no entry; the
table serves HTTP and ping. `etharp_tmr` runs every 1000 seconds here (see the
run `tcp_timer_period`), so `ARP_MAXPENDING`, 5 ticks, means that a packet to a
silent host may hold its pbuf for 80 minutes. `etharp_query` is only reached
without a stable entry and with a packet, so its other branches are dead code,
and `etharp_cleanup_netif` is never called. Datagrams and segments
are `PBUF_RAM` (a segment with the page's `PBUF_ROM` behind it), an ICMP echo reply
is the pool pbuf of its request; none of them is `PBUF_NEEDS_COPY`, so `etharp_query` never clones one. A reply is freed by its
sender like a datagram, and `SendDatagram` stands for it too.

`Lan` is every unicast address that a host on the wire may announce. The code makes
an entry for a sender outside the netmask as well (etharp.c:432-439); nobody sends
to it directly, so that in the table it is a host of `Lan` that is not in `Peers`.

### Httpd

A step of the server is a segment with everything `tcp_input` does for it, or a
timer tick: the super-loop calls nothing in between. Functions of the code are
operators from server state to server state, with the same nesting of callbacks:
`tcp_input` calls `tcp_process`, then `http_sent`, `http_recv` and once more
`http_recv` for a FIN, each of which may close the connection. `mem` is how many
units of memory the step finds; 0 makes `tcp_write` and `tcp_close` fail. `why`
is history: the reasons that have ended the connection, on the server's side or
the client's.

The client's window (`wnd`: it is not zero) is part of each segment and chosen
freely. `tcp_output` starts the persist timer when nothing is in flight and the
first segment does not fit; the timer sends probes into a closed window
(`tcp_zero_window_probe`, with the next unit or nothing of it) and lets the part
that fits go into one that is open; `persist_probe` is set back by every segment
(`tcp_process`) and ends the connection at `TCP_MAXRTX`.

Abstractions: data is counted in units; `tcp_output` sends any number of the
unsent units (congestion window, the rest of an open window, Nagle and failing
`ip_output` decide in the code); an old segment, whose window the code ignores,
acts like a new one that repeats the present window; a probe's single byte is a
whole unit or none of it, as the segment is short or long; sequence numbers do not
wrap; a retransmission timer may run out at any tick,
which includes a segment that is busy in the ARP table; only one connection is
followed, the others appear as memory and pbufs that are missing, and in
`tcp_alloc`, which takes pcbs away (never by priority: all have the same).

What the model shows beside its properties, each reachable in the run:

* A segment that acknowledges and carries data can leak a pbuf: `http_sent`
  writes the last of the page and closes, `tcp_close` finds the window not fully
  open, resets, and `tcp_input` leaves through `aborted` (tcp_in.c:475, 565)
  without freeing `recv_data`. `PbufsReturned` checks that this is the only leak.
  The pool has 12 pbufs; once they are gone `low_level_input` returns NULL for
  every frame, and `ethernetif_input` passes it on (`NullPbuf`).
* A request that comes with its FIN in one segment, for a page that fits the send
  buffer, is answered with a RST: at the close inside `http_recv` the FIN's unit
  still narrows the window, although the application took all data ("Not all data
  received by application", tcp.c:354).
* A client that closes its side before the page has been written gets a
  truncated page with an orderly FIN (`http_recv` with a null pbuf); so does one
  whose acknowledgements stop for `HTTPD_MAX_RETRIES` polls. `EndMeansWhole`
  lists these cases as the only ones.
* Data that arrives after the server has closed resets the connection while the
  answer is in flight (tcp_in.c:487): only a client that sends more than its
  request is affected (`ResetExplained`).
* A client that closes its window and answers the probes keeps a pcb for ever: each
  answer sets `persist_probe` back (tcp_in.c:848), so the limit at tcp.c:1238 is not
  reached; `http_poll` gives up and frees the `http_state`, but its FIN waits behind
  the unsent data, and FIN_WAIT_1 has no timeout. `ConnectionEnds` names this client
  as its only exception (`Answered`); without the exception TLC finds the behaviour.
* When such a client acknowledges the unit that a probe carried, and that was all,
  the persist timer goes on with an empty send buffer, which the assertion at
  tcp.c:1237 excludes. Assertions are compiled out here (`LWIP_PLATFORM_ASSERT` in
  `arch/cc.h`), and `tcp_zero_window_probe` then returns at once. The assertion
  before it (no data in flight) holds.
* The age that ends TIME_WAIT counts from the last segment before `tcp_close`,
  since `TF_RXCLOSED` stops `tcp_process` from renewing it.

## Runs

| Run | Shows | Bounds |
|---|---|---|
| `calendar` | `StaysNormal`, `AdvancesOneSecond` | each day of 2022-2024, 2028, 2099, 2100, 2400; from :58 and :59 of the minutes and hours next to a carry, 4 seconds on. Covers every pair of month and leap rule |
| `main_loop_timely` | type, one hour apart, no second lost, datagram on time, wire consistent, timers run | `TickModulus` 16 so that the tick counter wraps 16 times; 260 seconds so that `number` wraps and the year changes for `local`, hours change for both; all input levels |
| `main_loop_stalls` | never ahead, backlog bounded, silence bounded by two timeouts, pending served | watchdog of 4 seconds as in the code, 9 interrupts: more than two timeouts |
| `xtick` | no overflow lost, halves consistent, getters exact, one retry, delay precise and ending | 16-clock timer, 4-clock ticks, 4-bit words: all overflows of the timer, of the 32-bit value and of the overflow counter |
| `eth_tx` | refines `FrameQueue` | ring of 11 words, frames of 3 and 6 words: the frame starts at every word and is cut at every place, ring nearly full included |
| `eth_rx` | refines `FrameQueue` | ring of 9 words, lengths 8, 9, 15 |
| `start_up` | address is the EUI-48 but for top bits, chip only read, loop reached, bad address restarts | a block of the chip's last 3 bytes instead of 6; a good address, the two blank ones, and one that differs from a blank one in a top bit only; garbage with either lowest bit and with carries; any number of resets, at any clock |
| `etharp` | one entry per host, references exact, right host, requests spaced, nobody waits for ever | table of 2 entries for 3 hosts on the network and one beyond the gateway, packets to one of either kind, 2 pbufs, ages up to 3: every way of recycling an entry happens |
| `httpd` | `http_state` owned, FIN means whole page, resets explained, pbufs returned, connections end unless the client answers probes for ever | send buffer of 2 units and files of 2 and 3, one that is missing and a request that is no GET: a page that fills the buffer and one that does not fit; request of 3 units, its first line of 2, in any segmentation, one unit too many, request queue of 1; 2 retransmissions, probes, polls and pool pbufs, enough for each limit to be met and for leaks to empty the pool. The limit on a request's length is as long as the request here, so that only the limit on its pbufs refuses one; the proofs hold for every such limit |
| `tcp_timer_period` | violation | the code's own 250 and 1000 |
| `sys_now_wrap` | violation | as `xtick` |
| `eth_tx_exact_fill` | violation | frame sizes that can add up to the ring |

The three violations are disagreements between the code and its comments:
`LwIP_Periodic_Handle` is given seconds and compares milliseconds;
`sys_now()` divides a wrapping counter, so differences across its wrap are
wrong; a transmit ring filled to the last word is taken for empty. `eth_tx`
passes because its frame sizes share a divisor that the ring's size does not
have, which is also the device's situation while it sends nothing but its own
datagrams (19 words in a ring of 1024).

Fairness: in `MainLoop` the processor executes the loop, time passes in one that
hangs, and the watchdog bites at the end of its timeout; nothing is assumed of the
interrupts or the outcome of a send. `QuietBounded` needs none of it.
In `XTick` the timer counts and the processor executes; nobody needs to call.
In `EthTx` the driver finishes its call and the MAC sends (link up); in `EthRx`
the main loop polls for ever. In `StartUp` the program runs unless it is held,
and the watchdog, once enabled, fires; the UART's peer owes nothing, so
`GetsToLoop` assumes that it stops holding at some time. In `Etharp` only
`etharp_tmr` is fair: `LwIP_Periodic_Handle` calls it for ever. In `Httpd` the
two TCP timers are, with the memory to do their work and with retransmission
and persist timers that run out; again and again such a tick also gets something
into a window that is not closed (`Sends`), since the persist timer splits the
segment that does not fit. Nothing is assumed of client and network: the client
may keep its window closed.

## Proofs

The theorems hold for every value of the constants that the named assumptions of
the modules allow; `PROJECT.json` lists them with the properties they state.
Each follows one argument: an inductive invariant, one lemma per action that
keeps it, and the property from it.

`MainLoopProofs` has the invariant `IInv`, which adds to `TypeOK`:

* `TimesInv`: both times are calendar instants (second 60 allowed until
  `Time_counting` has run), one hour apart;
* `BacklogInv`: pending interrupts are at most those of this turn plus, before
  the latch, one watchdog timeout of the previous turn. It also keeps the
  modular difference from wrapping;
* `CountInv`: counted plus pending seconds do not exceed the interrupts;
* `TimelyInv`: a timely loop owes at most one second, and none once two turns
  have ended since the interrupt;
* `QuietInv`: the seconds without a datagram are the pending ones until the loop
  hangs, and from then on those plus what the watchdog has counted.

From it follow `TypeOK`, `LocalOneHourBehind`, `BacklogBounded`, `QuietBounded`,
`NeverAhead`, `NoSecondLost` and `DatagramOnTime`. `DatagramsReadable` (`WireConsistent`) needs
in addition that the checksum of a datagram is what a receiver computes from the
bytes: image and wire are different layouts of the same bytes, the image has
padding, and for each bit the parity of the bytes that have it is the same in
both. `TimersPeriodic` needs `PeriodInv`: the modular difference between `ticks`
and a timer is its true age while the loop keeps up, so a wrap of the counter
neither skips nor doubles a period. `MaxPpsAssumption` keeps the 16-bit year from
overflowing (63000 years).

`CalendarProofs` holds what the loop rests on: the carries yield a calendar
instant, keep the instant that was shown, keep the hour between the two times,
and one increment advances it by one second - for every date, by cases on months
and on the leap rule, with the closed form of day numbers. Its last part proves
the two properties of the run `calendar` for all years: `YearsInRange` leaves out
the year 0, which is none, and the last few before the 16-bit year wraps; the
invariant `CountedOn` is a normal instant whose year has not come near that wrap.

`XTickProofs` starts from `PromptInv`: while the overflow flag is up, the timer
has counted at most the steps since the flag can have come up, so it cannot
overflow again (`NoWrapLost`, `ReadingConsistent`). `RetryInv` extends this to the
second round of the loop in `GetRawXTick`, which therefore ends (`AtMostOneRetry`).
`TypeRest` completes the type invariant. `GettersExact` is arithmetic: two halves,
each divided and cut to a word, are the quotient of the whole. This holds only if
a word is a multiple of the ticks per overflow, which `SizesAssumption` says (2^32
and 2^18 in the device, `TIMER_HIGH_BITS_CNT` in `XTick.h`). `DelayInv` follows a delay by the instant of its first
reading, by the clocks spent since, and by how old the present reading can be; all
equalities are modulo the range of the counters, and `DelaysAssumption` keeps one
reading from leaping over the end of the delay (`DelayPrecise`).

`EthTxProofs` and `EthRxProofs` have the same idea. Seen from the pointer that the
writer moves, the used words are a chain of frames: there is a set of distances at
which frames start, from each one the length word leads to the next, and the last
one ends at the pointer. The writer may put words where the chain is not (`Room`,
which is stale but on the safe side, since the other pointer only moves on); moving
its pointer prepends a link; moving the other one takes the first link away. Hence
every frame that is read out is whole (`TypeOK` of both modules says so of what has
been sent and what has been read), and no more frames are sent than were answered
with `ERR_OK`. `Chained` speaks of any set of numbers and cannot be evaluated by
TLC; the runs check its consequence.

On the chains rests the refinement of `FrameQueue`. `Ahead` is the part of `Queue`
from a link on. That it does not change when the other side writes where the chain
is not, and grows by one frame at its far end when the writer moves its pointer,
is shown by going along the chain: if there were a link where the two differ there
would be a least one (`Least`, from the well-founded order of the naturals), and it
is the frame of that link or the rest of the chain that differs (`ChainInduction`).
So a step of the writer's pointer is `Put`, one of the reader's is `Get`, and every
other step leaves the queue alone. In `EthTx` the one exception is a pointer that
meets the other (`FillsRing`): but for it the ring is a queue, for every size and all
lengths (`QueueUnlessFull`, which was checked with TLC on rings that frames can fill
before it was proved). Where no
sum of frames is the ring's size (`NoExactFill`; `OwnDatagramsNoExactFill` shows it
for datagrams of 19 words in 1024) the exception cannot occur, and the driver is a
queue (`WholeOnceInOrder`). That hypothesis fails as soon as ARP and HTTP frames,
whose lengths vary, share the ring; for the device in full service the statement is
`QueueUnlessFull`, with the run `eth_tx_exact_fill` for what it leaves out. In `EthRx` this needs no such condition; there, what
`EthReadFrame` has copied must be the frame at the head until it is released
(`ReadOut`), though the MAC goes on receiving. The queue ends where `EthReadFrame`
returns: a frame that then finds no pbuf is dropped by `low_level_input`, which is
`NullPbuf` of `Httpd`. `FQ!Safe` is `FQ!Spec` without its
fairness: `ImplementsFrameQueue` is that and the promise that frames do leave.

`StartUpProofs` relates program and chip clock by clock. `Sends`: the chip has
counted the clocks that the program made, and what it holds with what is left to
send is the instruction and the address, doubled once a clock. `Receives`: the low
bits of `ret` are the top bits of the chip's byte, whatever `ret` held before.
`Pins` says that the chip listens during a reading and is deselected before one;
after a reset it may be anywhere until `eeprom_new_init` has raised `CS`.
From these, `OnlyReads` and, through `Reads` and `Stores`, `MacIsEui`.

`EtharpProofs` keeps nine facts together: `TypeOK`, `OneEntryPerHost`; a packet
waits on one entry at most, which is pending, of its next hop, on the network
(`OneHolder`, `HolderPends`, `RightQueue`, `OnLan`); its counter is what owner and
table hold (`RefsCounted`); a stable entry has the address announced last
(`Fresh`); and the time since the last repeated request follows from state and age
of an entry (`Spaced`). `RefsExact`, `RightHost` and the action property
`RequestsSpaced` follow.

`HttpdProofs` has the invariant `Inv` of the server's five parts (pcb, http_state,
pool, wire, reasons), each conjunct for a reason:

* `Own`: callbacks and http_state are there together, on an open connection that
  has not been closed or marked for closing (`HsOwned`);
* `Order`, `Buffer`, `Bounds`: the queues lie in order within what was written,
  and a FIN that was sent is the last unit (`TypeOK`);
* `Whole`: units written and units left make up the file; after a close without a
  named reason all of it is written (`EndMeansWhole`);
* `Reasons`: a connection that lost its callbacks had its whole request, or one of
  the reasons that `ResetExplained` allows; "listening" is the only reason while
  nothing happened;
* the pool holds at least the pbufs of the request (`PbufsReturned`).

Callbacks nest: `tcp_input` calls `http_sent`, `http_recv` and again `http_recv` on
one segment, and each may close or abort. In between the connection may be in
CLOSE-WAIT with callbacks, or have data that is not taken. So the parts above (`Mid`)
are what every function takes and returns, and `Steady` - callbacks mean
ESTABLISHED and nothing unread - is regained at the end of a step only. `Inv`
was checked with TLC on the instance of `Httpd.cfg` before it was proved.

Only model-checked, since the prover has no rules for fairness: the liveness
properties (`PendingServed`, `DelayReturns`, `GetsToLoop`,
`MacErrorRestarts`, `NoneWaitsForEver`, `ConnectionEnds`) and the fairness half of
`ImplementsFrameQueue` in both directions, that an accepted frame leaves the ring.
All other properties of the passing runs are theorems, and so is the safety half of
these refinements, under `NoExactFill` for the transmit ring.

## Not modelled

* IP, UDP, ICMP, the memory managers and the unused parts of lwIP (sockets,
  netconn, PPP, SNMP, IPv6, the applications other than httpd). Most of it is not
  compiled into this firmware: `lwipopts.h` selects a raw-API stack without an
  operating system. What is compiled and not modelled keeps no state between two
  calls that a property here would speak of.
* The repository also holds a second lwIP (1.3.2), the vendor's register headers
  and libraries for all its processors, and examples for other boards: about
  300000 lines, of which this firmware uses a few thousand. The map covers the
  application's own files and the stateful part of the stack; a larger share of
  the repository would mean modelling code that does not run.
* `Eth_TrafficTX.c`, `net.c` and `eeprom_25AA02E48.c` (not called), DHCP (not
  compiled), register set-up of timers, ports and UART.
* The length of the PPS period: its prescaler is `CPU_CLOCK_VALUE/10000`, and the
  vendor's header says the timer divides by one more than that, which would make
  each second 100 ppm long. The lost update of `ETH_STAT` (ethernetif.c:262) has
  no effect, as nobody reads its count.
* In TCP: congestion control, the size of a window that is not zero, wrap-around of sequence numbers,
  options; out-of-order queueing is not compiled.

## Plan

Done: all modules above; for each of them the proofs of its invariants and action
properties; the safety of both refinements of `FrameQueue`. What would come next
is code that a later version of the firmware may call (DHCP, `Eth_TrafficTX.c`).
