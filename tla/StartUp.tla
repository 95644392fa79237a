------------------------------- MODULE StartUp -------------------------------
(***************************************************************************)
(* From reset to the super-loop: the init block of main() (Main.c), the    *)
(* watchdog, and the bit-banged reader of the 25AA02E48 (eeprom_new.c),    *)
(* which runs twice in a boot: main() reads MACdevice, and the driver's    *)
(* low_level_init (ethernetif.c) reads MAC_addr, the address that is used. *)
(*                                                                         *)
(* The reader prints every bit on a UART with hardware flow control, so it *)
(* may stop between any two clocks until the watchdog resets the           *)
(* controller.  The chip is not reset with it.                             *)
(*                                                                         *)
(* ReadByteSPI accumulates into an uninitialised variable: Garbage is what *)
(* that variable may hold.                                                 *)
(***************************************************************************)
EXTENDS Integers

CONSTANTS
    EUI_48_SIZE,        \* bytes of the EUI block
    EUI_48_START_ADDR,  \* its address in the chip
    EUIs,               \* what the chip may hold there: functions to bytes
    Garbage             \* what the uninitialised ret may hold

Byte == 0..255
Word == 0..(2^16 - 1)
Index == 0..(EUI_48_SIZE - 1)

ASSUME SizeAssumption ==
    /\ EUI_48_SIZE \in Nat \ {0}
    /\ EUI_48_START_ADDR \in Nat /\ EUI_48_START_ADDR + EUI_48_SIZE <= 256
ASSUME EUIsAssumption == EUIs \subseteq [Index -> Byte]
ASSUME GarbageAssumption == Garbage \subseteq Byte /\ Garbage # {}

VARIABLES
    pc,          \* where the controller is
    reader,      \* who called eeprom_read: "main" or "low_level_init"
    i,           \* eeprom_read: byte of the block
    k,           \* SendByte, ReadByteSPI: clock within the byte
    byte, ret,   \* SendByte: bits to send; ReadByteSPI: bits received
    MACdevice,   \* Main.c
    MAC_addr,    \* ethernetif.c
    hwaddr,      \* the netif's address, which goes out in every frame
    led,         \* colour last set by SetBiLED
    wdt,         \* the watchdog is enabled
    held,        \* the UART's peer holds CTS: fputc does not return
    CS, HOLD,    \* pins of port C
    chip,        \* the 25AA02E48: clocks since it was selected, bits shifted in
    fuse         \* its EUI block; never changes

cpu == <<pc, reader, i, k, byte, ret, MACdevice, MAC_addr, hwaddr, led>>
vars == <<cpu, wdt, held, CS, HOLD, chip, fuse>>

NoMac == [j \in Index |-> 0]
Deselected == [n |-> 0, shift |-> 0]
read_instruction == 3

\* Places where the controller prints, and may be held.
Printing == {"Hold", "Select", "Instruction", "Address", "Data", "Deselect", "Judge",
             "LwIP_Init", "Finish", "Loop"}
Labels == {"Reset", "InitWatchDog", "InitUART", "eeprom_new_init", "MacError"} \cup Printing

\* Mutant: one blank byte makes the block a bad one.
BadEuiAnyByte(eui) == \E j \in Index : eui[j] \in {0, 255}

\* BAD_EUII
BadEui(eui) == eui \in {[j \in Index |-> 255], [j \in Index |-> 0]}

Init ==
    /\ pc = "Reset" /\ reader = "main" /\ i = 0 /\ k = 0 /\ byte = 0 /\ ret = 0
    /\ MACdevice = NoMac /\ MAC_addr = NoMac /\ hwaddr = NoMac
    /\ led = "LED_BLACK" /\ wdt = FALSE /\ held = FALSE
    /\ CS = 0 /\ HOLD = 0 /\ chip = Deselected
    /\ fuse \in EUIs

-----------------------------------------------------------------------------
(* The chip (external): with CS low and HOLD high it shifts a bit in on    *)
(* each clock; after instruction and address it shifts out the block.      *)

Listening == CS = 0 /\ HOLD = 1

Clocked(bit) ==
    IF Listening
    THEN [n |-> chip.n + 1,
          shift |-> IF chip.n < 16 THEN 2 * chip.shift + bit ELSE chip.shift]
    ELSE chip

\* The byte of the chip at address a; outside the block it is blank.
Cell(a) ==
    IF a - EUI_48_START_ADDR \in Index THEN fuse[a - EUI_48_START_ADDR] ELSE 255

\* The level on MISO: a bit of the byte that is shifted out, or nothing driven.
Miso ==
    IF Listening /\ chip.n >= 16 /\ chip.shift \div 256 = read_instruction
    THEN {(Cell((chip.shift + (chip.n - 16) \div 8) % 256) \div 2^(7 - (chip.n % 8))) % 2}
    ELSE {0, 1}

-----------------------------------------------------------------------------
(* The init block of main().                                               *)

\* A step of the program from one place to another.
Goto(from, to) == pc = from /\ ~held /\ pc' = to

\* SystemInit, ClockConfigure, InitBiLED, SetBiLED.
Boot ==
    /\ Goto("Reset", "InitWatchDog")
    /\ led' = "LED_YELLOW"
    /\ UNCHANGED <<reader, i, k, byte, ret, MACdevice, MAC_addr, hwaddr,
                   wdt, held, CS, HOLD, chip, fuse>>

\* Mutant: the watchdog is set up and not enabled.
InitWatchDogDisabled == Goto("InitWatchDog", "InitUART") /\ UNCHANGED
    <<reader, i, k, byte, ret, MACdevice, MAC_addr, hwaddr, led, wdt, held, CS, HOLD, chip, fuse>>

\* InitWatchDog: from here on somebody has to reload the counter.
InitWatchDog ==
    /\ Goto("InitWatchDog", "InitUART")
    /\ wdt' = TRUE
    /\ UNCHANGED <<reader, i, k, byte, ret, MACdevice, MAC_addr, hwaddr, led,
                   held, CS, HOLD, chip, fuse>>

\* InitXTick, InputDisturbancePortInit, DelayMs, InitUART.
InitUART ==
    /\ Goto("InitUART", "eeprom_new_init")
    /\ UNCHANGED <<reader, i, k, byte, ret, MACdevice, MAC_addr, hwaddr, led,
                   wdt, held, CS, HOLD, chip, fuse>>

\* Mutant: only the directions of the pins are set, not their levels.
eeprom_new_init_no_levels == Goto("eeprom_new_init", "Hold") /\ UNCHANGED
    <<reader, i, k, byte, ret, MACdevice, MAC_addr, hwaddr, led, wdt, held, CS, HOLD, chip, fuse>>

\* eeprom_new_init: CS high, WP and HOLD low.  CS going high ends whatever the
\* chip was in the middle of.
eeprom_new_init ==
    /\ Goto("eeprom_new_init", "Hold")
    /\ CS' = 1 /\ HOLD' = 0
    /\ chip' = Deselected
    /\ UNCHANGED <<reader, i, k, byte, ret, MACdevice, MAC_addr, hwaddr, led,
                   wdt, held, fuse>>

-----------------------------------------------------------------------------
(* eeprom_read.                                                            *)

\* HOLD high, the first byte.
Hold ==
    /\ Goto("Hold", "Select")
    /\ HOLD' = 1 /\ i' = 0
    /\ UNCHANGED <<reader, k, byte, ret, MACdevice, MAC_addr, hwaddr, led,
                   wdt, held, CS, chip, fuse>>

\* eephrom_read_byte up to the first SendByte: CS low.
Select ==
    /\ Goto("Select", "Instruction")
    /\ CS' = 0 /\ k' = 0 /\ byte' = read_instruction
    /\ UNCHANGED <<reader, i, ret, MACdevice, MAC_addr, hwaddr, led,
                   wdt, held, HOLD, chip, fuse>>

\* A turn of SendByte's loop: the top bit goes out, the rest moves up.
SendBit ==
    /\ chip' = Clocked(byte \div 128)
    /\ k' = (k + 1) % 8

\* SendByte(read_instruction), then SendByte(addr).
Instruction ==
    /\ Goto("Instruction", IF k < 7 THEN "Instruction" ELSE "Address")
    /\ SendBit
    /\ byte' = IF k < 7 THEN (2 * byte) % 256 ELSE (EUI_48_START_ADDR + i) % 256
    /\ UNCHANGED <<reader, i, ret, MACdevice, MAC_addr, hwaddr, led,
                   wdt, held, CS, HOLD, fuse>>

\* SendByte(addr), then ReadByteSPI is entered: nobody sets its ret.
Address ==
    /\ Goto("Address", IF k < 7 THEN "Address" ELSE "Data")
    /\ SendBit
    /\ byte' = (2 * byte) % 256
    /\ IF k < 7 THEN UNCHANGED ret ELSE ret' \in Garbage
    /\ UNCHANGED <<reader, i, MACdevice, MAC_addr, hwaddr, led,
                   wdt, held, CS, HOLD, fuse>>

\* Mutant: the last bit is shifted like the others.
AccumulateShiftsLast(r, bit) == (2 * (r + bit)) % 256

\* Mutant: ret is an int.
AccumulateInt(r, bit) == IF k < 7 THEN 2 * (r + bit) ELSE r + bit

\* ret++ for a one, and ret<<1 but for the last bit.
Accumulate(r, bit) == IF k < 7 THEN (2 * (r + bit)) % 256 ELSE (r + bit) % 256

\* A turn of ReadByteSPI's loop.
Data ==
    /\ Goto("Data", IF k < 7 THEN "Data" ELSE "Deselect")
    /\ \E bit \in Miso : ret' = Accumulate(ret, bit)
    /\ chip' = Clocked(0)
    /\ k' = (k + 1) % 8
    /\ UNCHANGED <<reader, i, byte, MACdevice, MAC_addr, hwaddr, led,
                   wdt, held, CS, HOLD, fuse>>

\* The end of eephrom_read_byte and of eeprom_read's loop body: CS high, the
\* byte stored; after the last byte HOLD goes low.
Deselect ==
    /\ Goto("Deselect", IF i + 1 < EUI_48_SIZE THEN "Select" ELSE "Judge")
    /\ CS' = 1 /\ chip' = Deselected
    /\ IF reader = "main"
       THEN MACdevice' = [MACdevice EXCEPT ![i] = ret] /\ UNCHANGED MAC_addr
       ELSE MAC_addr' = [MAC_addr EXCEPT ![i] = ret] /\ UNCHANGED MACdevice
    /\ IF i + 1 < EUI_48_SIZE
       THEN i' = i + 1 /\ UNCHANGED HOLD
       ELSE HOLD' = 0 /\ UNCHANGED i
    /\ UNCHANGED <<reader, k, byte, ret, hwaddr, led, wdt, held, fuse>>

\* The block that was read.
Eui == IF reader = "main" THEN MACdevice ELSE MAC_addr

\* The two memcmp: from a bad block there is no return.
Judge ==
    /\ Goto("Judge",
            IF BadEui(Eui) THEN "MacError"
            ELSE IF reader = "main" THEN "LwIP_Init" ELSE "Finish")
    /\ UNCHANGED <<reader, i, k, byte, ret, MACdevice, MAC_addr, hwaddr, led,
                   wdt, held, CS, HOLD, chip, fuse>>

\* "while(1)": the LED is set again and again.
MacError ==
    /\ Goto("MacError", "MacError")
    /\ led' = "LED_RED"
    /\ UNCHANGED <<reader, i, k, byte, ret, MACdevice, MAC_addr, hwaddr,
                   wdt, held, CS, HOLD, chip, fuse>>

-----------------------------------------------------------------------------
(* The rest of the init block.                                             *)

\* LwIP_Init as far as low_level_init's eeprom_new_init: EthInit.
LwIP_Init ==
    /\ Goto("LwIP_Init", "eeprom_new_init")
    /\ reader' = "low_level_init"
    /\ UNCHANGED <<i, k, byte, ret, MACdevice, MAC_addr, hwaddr, led,
                   wdt, held, CS, HOLD, chip, fuse>>

\* The rest of low_level_init, and of the init block.
Finish ==
    /\ Goto("Finish", "Loop")
    /\ hwaddr' = MAC_addr
    /\ UNCHANGED <<reader, i, k, byte, ret, MACdevice, MAC_addr, led,
                   wdt, held, CS, HOLD, chip, fuse>>

-----------------------------------------------------------------------------
(* The UART's peer (external) and the watchdog.                            *)

\* The peer holds CTS and lets go of it.
Cts ==
    /\ pc \in Printing
    /\ held' = ~held
    /\ UNCHANGED <<cpu, wdt, CS, HOLD, chip, fuse>>

\* Nobody reloads the counter: the controller starts again, with RAM and pins
\* as after a reset.  The chip keeps its state until CS rises.
Watchdog ==
    /\ wdt /\ (held \/ pc = "MacError")
    /\ pc' = "Reset" /\ reader' = "main" /\ i' = 0 /\ k' = 0 /\ byte' = 0 /\ ret' = 0
    /\ MACdevice' = NoMac /\ MAC_addr' = NoMac /\ hwaddr' = NoMac
    /\ led' = "LED_BLACK" /\ wdt' = FALSE
    /\ held' = FALSE
    /\ CS' = 0 /\ HOLD' = 0
    /\ UNCHANGED <<chip, fuse>>

Program ==
    \/ Boot \/ InitWatchDog \/ InitUART \/ eeprom_new_init \/ Hold \/ Select
    \/ Instruction \/ Address \/ Data \/ Deselect \/ Judge \/ MacError \/ LwIP_Init \/ Finish

Next == Program \/ Cts \/ Watchdog

\* The program runs unless it is held, and a watchdog that is not reloaded
\* fires.  The UART's peer owes nothing.
Fairness == WF_vars(Program) /\ WF_vars(Watchdog)

Spec == Init /\ [][Next]_vars /\ Fairness

-----------------------------------------------------------------------------
(* Properties.                                                             *)

\* Every byte of a reading fits its uint8_t, and the chip never sees more
\* clocks in one selection than a reading takes (SendByte, ReadByteSPI), not
\* even when a reset cut the reading before.
TypeOK ==
    /\ pc \in Labels /\ reader \in {"main", "low_level_init"}
    /\ i \in Index /\ k \in 0..7 /\ byte \in Byte /\ ret \in Byte
    /\ MACdevice \in [Index -> Byte] /\ MAC_addr \in [Index -> Byte]
    /\ hwaddr \in [Index -> Byte]
    /\ led \in {"LED_BLACK", "LED_YELLOW", "LED_RED"}
    /\ wdt \in BOOLEAN /\ held \in BOOLEAN
    /\ CS \in 0..1 /\ HOLD \in 0..1
    /\ chip \in [n : 0..24, shift : Word]
    /\ fuse \in EUIs

\* The address in use is the chip's EUI but for the top bit of each byte, the
\* one bit that the uninitialised ret spoils (eeprom_new.c:78), however often
\* the watchdog cut a reading short before.
MacIsEui ==
    pc = "Loop" => \A j \in Index : hwaddr[j] % 128 = fuse[j] % 128

\* A reading cut short by a reset never goes on as another command: the chip
\* takes no instruction but read, and no address outside the block
\* (eeprom_new.c:37, 125-134).
OnlyReads ==
    /\ chip.n >= 8 => chip.shift \div 2^(IF chip.n < 16 THEN chip.n - 8 ELSE 8)
                          = read_instruction
    /\ chip.n >= 16 => (chip.shift % 256) - EUI_48_START_ADDR \in Index

\* Nothing makes the chip's EUI look like a blank one.
GoodEui == ~\E b \in {0, 127} : \A j \in Index : fuse[j] % 128 = b

\* Once the UART's peer leaves the line alone, a device with a good EUI gets
\* into the super-loop and stays there, whatever resets came before.
GetsToLoop == GoodEui => (<>[]~held => <>[](pc = "Loop"))

\* The endless loop behind a bad EUI is not the end: the watchdog, enabled
\* before the first reading, restarts the device (eeprom_new.c:156).
MacErrorRestarts == pc = "MacError" ~> pc = "Reset"
=============================================================================
