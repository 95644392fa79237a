---------------------------- MODULE StartUpProofs ----------------------------
(***************************************************************************)
(* The safety properties of the start-up for every block size and address, *)
(* every EUI and whatever the uninitialised variable holds, proved from    *)
(* one inductive invariant: at each clock of a reading the word that the   *)
(* chip has and the byte that is left to send make up the command and the  *)
(* address, and what ReadByteSPI has so far is the top of the chip's byte. *)
(* The bits of a byte are told apart one by one, with literal powers of    *)
(* two: the provers know no arithmetic of exponents.                       *)
(***************************************************************************)
EXTENDS StartUp, TLAPS

-----------------------------------------------------------------------------
(* The inductive invariant.                                                *)

\* The address that is read.
Addr == EUI_48_START_ADDR + i

\* A reading, between CS low and CS high.
Clocking == {"Instruction", "Address", "Data", "Deselect"}

\* The pins and the chip around a reading.
Pins ==
    /\ pc \in Clocking => Listening
    /\ pc = "Select" => HOLD = 1
    /\ pc \in {"Hold", "Select"} => chip = Deselected

\* w doubled j times.
Doubled(w, j) ==
    CASE j = 0 -> w [] j = 1 -> 2 * w [] j = 2 -> 4 * w [] j = 3 -> 8 * w
      [] j = 4 -> 16 * w [] j = 5 -> 32 * w [] j = 6 -> 64 * w [] j = 7 -> 128 * w

\* The chip has as many clocks as the program has made.  The word of what the
\* chip holds and what is left to send doubles with each of them.
Sends ==
    /\ pc = "Instruction" => chip.n = k /\ 256 * chip.shift + byte = Doubled(read_instruction, k)
    /\ pc = "Address" => chip.n = 8 + k /\ 256 * chip.shift + byte = Doubled(768 + Addr, k)
    /\ pc = "Data" => chip.n = 16 + k /\ chip.shift = 768 + Addr

\* r holds the top j bits of b, one place up; what ret held before has moved
\* up j places.
Shifted(r, b, j) ==
    /\ j = 1 => r % 2 = 0
    /\ j = 2 => r % 4 = (2 * (b \div 64)) % 4
    /\ j = 3 => r % 8 = (2 * (b \div 32)) % 8
    /\ j = 4 => r % 16 = (2 * (b \div 16)) % 16
    /\ j = 5 => r % 32 = (2 * (b \div 8)) % 32
    /\ j = 6 => r % 64 = (2 * (b \div 4)) % 64
    /\ j = 7 => r % 128 = (2 * (b \div 2)) % 128

Receives ==
    /\ pc = "Data" => Shifted(ret, fuse[i], k)
    /\ pc = "Deselect" => ret % 128 = fuse[i] % 128

\* The bytes that low_level_init has so far, or all of them.
Reads ==
    reader = "low_level_init" =>
        /\ pc \in Clocking \cup {"Select"} =>
              \A j \in Index : j < i => MAC_addr[j] % 128 = fuse[j] % 128
        /\ pc = "Judge" => \A j \in Index : MAC_addr[j] % 128 = fuse[j] % 128
Stores ==
    /\ pc = "Finish" => \A j \in Index : MAC_addr[j] % 128 = fuse[j] % 128
    /\ MacIsEui

Inv == TypeOK /\ Pins /\ Sends /\ Receives /\ Reads /\ Stores /\ OnlyReads

-----------------------------------------------------------------------------
(* Types.                                                                  *)

\* TypeOK in two parts: what a clock changes, and the rest.
ClockTypes ==
    /\ pc \in Labels /\ i \in Index /\ k \in 0..7 /\ byte \in Byte /\ ret \in Byte
    /\ chip \in [n : 0..24, shift : Word]
OtherTypes ==
    /\ reader \in {"main", "low_level_init"}
    /\ MACdevice \in [Index -> Byte] /\ MAC_addr \in [Index -> Byte]
    /\ hwaddr \in [Index -> Byte]
    /\ led \in {"LED_BLACK", "LED_YELLOW", "LED_RED"}
    /\ wdt \in BOOLEAN /\ held \in BOOLEAN
    /\ CS \in 0..1 /\ HOLD \in 0..1
    /\ fuse \in EUIs

\* The type invariant is the two parts, one for Zenon and one for SMT.
LEMMA TypeParts == TypeOK <=> ClockTypes /\ OtherTypes
BY Zenon DEF TypeOK, ClockTypes, OtherTypes

\* The same of the next state.
LEMMA TypePartsNext == TypeOK' <=> ClockTypes' /\ OtherTypes'
BY TypeParts, PTL

\* A uint8_t without its interval.
LEMMA ByteNat == \A x : x \in Byte <=> x \in Nat /\ x < 256
BY SMT DEF Byte

\* The chip's shift register without its interval.
LEMMA WordNat == \A x : x \in Word <=> x \in Nat /\ x < 65536
BY SMT DEF Word

\* The ranges that the arithmetic of a clock needs.
LEMMA ClockRanges ==
    ASSUME TypeOK
    PROVE  /\ k \in 0..7 /\ i \in Nat /\ i < EUI_48_SIZE /\ i \in Index /\ EUI_48_SIZE \in Nat
           /\ byte \in Nat /\ byte < 256 /\ ret \in Nat /\ ret < 256
           /\ chip.n \in Nat /\ chip.n <= 24 /\ chip.shift \in Nat /\ chip.shift < 65536
<1>1. ClockTypes
    BY TypeParts, SMT
<1>2. k \in 0..7 /\ i \in Index /\ byte \in Byte /\ ret \in Byte
      /\ chip \in [n : 0..24, shift : Word]
    BY <1>1, SMT DEF ClockTypes
<1>3. i \in Nat /\ i < EUI_48_SIZE /\ EUI_48_SIZE \in Nat
    BY <1>2, SizeAssumption, SMT DEF Index
<1>4. chip.n \in 0..24 /\ chip.shift \in Word
    BY <1>2, SMT
<1> QED BY <1>2, <1>3, <1>4, ByteNat, WordNat, SMT

\* A clock of SendByte or ReadByteSPI leaves the rest of the state alone.
LEMMA OtherTypesKept ==
    ASSUME TypeOK, UNCHANGED <<reader, MACdevice, MAC_addr, hwaddr, led, wdt, held, CS, HOLD, fuse>>
    PROVE  OtherTypes'
BY TypeParts, Zenon DEF OtherTypes

-----------------------------------------------------------------------------
(* The start.                                                              *)

\* Doubled at the first clock of a byte and at the last.
LEMMA DoubledEnds ==
    ASSUME NEW w \in Nat
    PROVE  Doubled(w, 0) = w /\ Doubled(w, 7) = 128 * w
BY SMT DEF Doubled

\* A clock doubles.
LEMMA DoubledNext ==
    ASSUME NEW w \in Nat, NEW j \in 0..6
    PROVE  Doubled(w, j + 1) = 2 * Doubled(w, j)
BY SMT DEF Doubled

\* The address that is read is a byte's, and a byte of the block is there.
LEMMA FuseByte ==
    ASSUME TypeOK
    PROVE  /\ Addr \in Nat /\ Addr < 256 /\ fuse \in [Index -> Byte]
           /\ fuse[i] \in Nat /\ fuse[i] < 256
<1>1. fuse \in [Index -> Byte]
    BY EUIsAssumption, TypeParts, SMT DEF OtherTypes
<1>2. i \in Nat /\ i < EUI_48_SIZE /\ i \in Index
    BY ClockRanges, SMT
<1>3. Addr \in Nat /\ Addr < 256
    BY <1>2, SizeAssumption, SMT DEF Addr
<1>4. fuse[i] \in Byte
    BY <1>1, <1>2, SMT
<1> QED BY <1>1, <1>3, <1>4, ByteNat, SMT

\* After power-on nothing is selected and nothing was read.
LEMMA InitInv == Init => Inv
<1> SUFFICES ASSUME Init PROVE Inv
    OBVIOUS
<1>1. 0 \in Index /\ NoMac \in [Index -> Byte]
    BY SizeAssumption DEF Index, NoMac, Byte
<1>2. ClockTypes
    BY <1>1, ByteNat, WordNat DEF Init, ClockTypes, Labels, Deselected
<1>3. OtherTypes
    <2>1. CS \in 0..1 /\ HOLD \in 0..1
        BY DEF Init
    <2>2. wdt \in BOOLEAN /\ held \in BOOLEAN
        BY Zenon DEF Init
    <2>3. reader \in {"main", "low_level_init"} /\ led \in {"LED_BLACK", "LED_YELLOW", "LED_RED"}
          /\ MACdevice \in [Index -> Byte] /\ MAC_addr \in [Index -> Byte]
          /\ hwaddr \in [Index -> Byte] /\ fuse \in EUIs
        BY <1>1 DEF Init
    <2> QED BY <2>1, <2>2, <2>3, Zenon DEF OtherTypes
<1>4. Pins /\ Sends /\ Receives /\ Reads /\ Stores
    BY DEF Init, Pins, Clocking, Sends, Receives, Reads, Stores, MacIsEui
<1>5. OnlyReads
    BY DEF Init, OnlyReads, Deselected
<1> QED BY <1>2, <1>3, <1>4, <1>5, TypeParts DEF Inv

-----------------------------------------------------------------------------
(* SendByte(read_instruction).                                             *)

\* During a reading CS is low and HOLD high, so the chip takes every clock
\* of SendByte and ReadByteSPI (eeprom_new.c:30-100).
LEMMA Clock ==
    ASSUME Inv, pc \in Clocking, NEW bit \in 0..1
    PROVE  Clocked(bit) = [n |-> chip.n + 1,
                           shift |-> IF chip.n < 16 THEN 2 * chip.shift + bit ELSE chip.shift]
BY SMT DEF Inv, Pins, Clocked

\* The type of the state after a clock, from its ranges.
LEMMA ClockTypesNext ==
    ASSUME TypeOK, pc' \in Labels, i' = i, k' \in 0..7,
           byte' \in Nat, byte' < 256, ret' \in Nat, ret' < 256,
           NEW n \in Nat, n <= 24, NEW s \in Nat, s < 65536, chip' = [n |-> n, shift |-> s]
    PROVE  ClockTypes'
<1>1. i \in Index
    BY TypeParts, SMT DEF ClockTypes
<1>2. chip' \in [n : 0..24, shift : Word]
    <2>1. s \in Word /\ n \in 0..24
        BY WordNat, SMT
    <2> QED BY <2>1, SMT
<1>3. byte' \in Byte /\ ret' \in Byte
    BY ByteNat, SMT
<1> QED BY <1>1, <1>2, <1>3, SMT DEF ClockTypes

\* A turn of SendByte(read_instruction) keeps the invariant; after the last
\* one the chip has the read instruction and nothing else, and the address
\* is next.
LEMMA InstructionStep ==
    ASSUME Inv, Instruction
    PROVE  Inv'
<1>1. /\ pc = "Instruction" /\ pc' = (IF k < 7 THEN "Instruction" ELSE "Address")
      /\ chip' = Clocked(byte \div 128) /\ k' = (k + 1) % 8
      /\ byte' = (IF k < 7 THEN (2 * byte) % 256 ELSE (EUI_48_START_ADDR + i) % 256)
      /\ UNCHANGED <<reader, i, ret, MACdevice, MAC_addr, hwaddr, led, wdt, held, CS, HOLD, fuse>>
    BY SMT DEF Instruction, Goto, SendBit
<1>2. TypeOK /\ chip.n = k /\ 256 * chip.shift + byte = Doubled(3, k)
    BY <1>1, SMT DEF Inv, Sends, read_instruction
<1>3. /\ k \in 0..7 /\ byte \in Nat /\ byte < 256 /\ chip.shift \in Nat /\ chip.shift < 65536
      /\ ret \in Nat /\ ret < 256 /\ Addr \in Nat /\ Addr < 256
    BY <1>2, ClockRanges, FuseByte, SMT
<1> DEFINE s == 2 * chip.shift + (byte \div 128)
<1>4. chip' = [n |-> k + 1, shift |-> s]
    <2>1. byte \div 128 \in 0..1
        BY <1>3, SMT
    <2> DEFINE b == byte \div 128
    <2> HIDE DEF b
    <2>2. Clocked(b) = [n |-> k + 1, shift |-> 2 * chip.shift + b]
        BY <1>1, <1>2, <1>3, <2>1, Clock, SMT DEF b, Clocking
    <2> QED BY <1>1, <2>2, SMT DEF b
<1>5. OtherTypes'
    BY <1>1, <1>2, OtherTypesKept, SMT
<1>6. s \in Nat /\ s < 65536
    <2>1. Doubled(3, k) \in Nat /\ Doubled(3, k) <= 128 * 3
        <3>1. k \in 0..7 /\ 3 \in Nat
            BY <1>3, SMT
        <3> QED BY <3>1, SMT DEF Doubled
    <2> QED BY <1>2, <1>3, <2>1, SMT
<1>7. CASE k < 7
    <2>1. pc' = "Instruction" /\ k' = k + 1 /\ byte' = (2 * byte) % 256
        BY <1>1, <1>3, <1>7, SMT
    <2>2. 256 * s + byte' = 2 * (256 * chip.shift + byte) /\ byte' \in Nat /\ byte' < 256
        BY <1>3, <2>1, SMT
    <2>3. 256 * s + byte' = Doubled(3, k')
        <3>1. Doubled(3, k + 1) = 2 * Doubled(3, k)
            <4>1. k \in 0..6 /\ 3 \in Nat
                BY <1>3, <1>7, SMT
            <4> QED BY <4>1, DoubledNext, SMT
        <3> QED BY <1>2, <2>1, <2>2, <3>1, SMT
    <2>4. chip'.n = k' /\ chip'.shift = s
        BY <1>4, <2>1, SMT
    <2>5. OnlyReads'
        BY <1>3, <1>7, <2>1, <2>4, SMT DEF OnlyReads
    <2> HIDE DEF s
    <2>6. Pins' /\ Sends' /\ Receives' /\ Reads' /\ Stores'
        BY <1>1, <2>1, <2>3, <2>4, SMT
        DEF Inv, Pins, Listening, Clocking, Sends, Receives, Reads, Stores, MacIsEui,
            read_instruction
    <2>7. ClockTypes'
        <3>1. pc' \in Labels /\ k' \in 0..7 /\ ret' \in Nat /\ ret' < 256 /\ i' = i /\ k + 1 \in Nat /\ k + 1 <= 24
            BY <1>1, <1>3, <1>7, <2>1, SMT DEF Labels, Printing
        <3> QED BY <1>2, <1>4, <1>6, <2>2, <3>1, ClockTypesNext, SMT
    <2> QED BY <1>5, <2>5, <2>6, <2>7, TypePartsNext, SMT DEF Inv
<1>8. CASE k = 7
    <2>1. pc' = "Address" /\ k' = 0 /\ byte' = Addr /\ Addr' = Addr
        BY <1>1, <1>3, <1>8, SMT DEF Addr
    <2>2. s = 3
        <3>1. Doubled(3, 7) = 384
            BY DoubledEnds, SMT
        <3> QED BY <1>2, <1>3, <1>8, <3>1, SMT
    <2>3. chip'.n = 8 /\ chip'.shift = 3
        BY <1>4, <1>8, <2>2, SMT
    <2>4. OnlyReads'
        BY <2>3, SMT DEF OnlyReads, read_instruction
    <2>5. 256 * chip'.shift + byte' = Doubled(768 + Addr', k')
        BY <2>1, <2>3, <1>3, DoubledEnds, SMT
    <2>6. Pins' /\ Sends' /\ Receives' /\ Reads' /\ Stores'
        BY <1>1, <2>1, <2>3, <2>5, SMT
        DEF Inv, Pins, Listening, Clocking, Sends, Receives, Reads, Stores, MacIsEui
    <2>7. ClockTypes'
        <3>1. pc' \in Labels /\ k' \in 0..7 /\ ret' \in Nat /\ ret' < 256 /\ i' = i /\ k + 1 \in Nat /\ k + 1 <= 24
            BY <1>1, <1>3, <1>8, <2>1, SMT DEF Labels, Printing
        <3>2. byte' \in Nat /\ byte' < 256
            BY <1>3, <2>1, SMT
        <3> HIDE DEF s
        <3> QED BY <1>2, <1>4, <1>6, <3>1, <3>2, ClockTypesNext, SMT
    <2> QED BY <1>5, <2>4, <2>6, <2>7, TypePartsNext, SMT DEF Inv
<1> QED BY <1>3, <1>7, <1>8, SMT

-----------------------------------------------------------------------------
(* SendByte(addr).                                                         *)

\* Without its last j bits, s is the instruction.
Instructed(s, j) == s \div 2^j = read_instruction

\* j bits of the address are in s, the rest of them in b.
Loaded(s, b, w, j) ==
    /\ w \in Nat /\ 768 <= w /\ w < 1024 /\ j \in 1..7
    /\ s \in Nat /\ b \in Nat /\ b < 256 /\ 256 * s + b = Doubled(w, j)

\* While address bits are coming in, the chip has the read instruction in
\* front of them.
LEMMA PrefixRead ==
    ASSUME NEW s, NEW b, NEW w, NEW j, Loaded(s, b, w, j)
    PROVE  Instructed(s, j)
<1> USE DEF Loaded
<1>1. CASE j = 1
    <2>1. 256 * s + b = 2 * w
        BY <1>1, SMT DEF Doubled
    <2>2. s \div 2 = 3 /\ 2^1 = 2
        BY <2>1, SMT
    <2> QED BY <2>2, <1>1, SMT DEF Instructed, read_instruction
<1>2. CASE j = 2
    <2>1. 256 * s + b = 4 * w
        BY <1>2, SMT DEF Doubled
    <2>2. s \div 4 = 3 /\ 2^2 = 4
        BY <2>1, SMT
    <2> QED BY <2>2, <1>2, SMT DEF Instructed, read_instruction
<1>3. CASE j = 3
    <2>1. 256 * s + b = 8 * w
        BY <1>3, SMT DEF Doubled
    <2>2. s \div 8 = 3 /\ 2^3 = 8
        BY <2>1, SMT
    <2> QED BY <2>2, <1>3, SMT DEF Instructed, read_instruction
<1>4. CASE j = 4
    <2>1. 256 * s + b = 16 * w
        BY <1>4, SMT DEF Doubled
    <2>2. s \div 16 = 3 /\ 2^4 = 16
        BY <2>1, SMT
    <2> QED BY <2>2, <1>4, SMT DEF Instructed, read_instruction
<1>5. CASE j = 5
    <2>1. 256 * s + b = 32 * w
        BY <1>5, SMT DEF Doubled
    <2>2. s \div 32 = 3 /\ 2^5 = 32
        BY <2>1, SMT
    <2> QED BY <2>2, <1>5, SMT DEF Instructed, read_instruction
<1>6. CASE j = 6
    <2>1. 256 * s + b = 64 * w
        BY <1>6, SMT DEF Doubled
    <2>2. s \div 64 = 3 /\ 2^6 = 64
        BY <2>1, SMT
    <2> QED BY <2>2, <1>6, SMT DEF Instructed, read_instruction
<1>7. CASE j = 7
    <2>1. 256 * s + b = 128 * w
        BY <1>7, SMT DEF Doubled
    <2>2. s \div 128 = 3 /\ 2^7 = 128
        BY <2>1, SMT
    <2> QED BY <2>2, <1>7, SMT DEF Instructed, read_instruction
<1> QED BY <1>1, <1>2, <1>3, <1>4, <1>5, <1>6, <1>7, SMT

\* With all bits of the address in, the chip has the read instruction and an
\* address of the block.
LEMMA FullRead ==
    ASSUME TypeOK, chip'.shift = 768 + Addr, chip'.n \in Nat, chip'.n >= 16
    PROVE  OnlyReads'
<1>1. Addr \in Nat /\ Addr < 256 /\ Addr - EUI_48_START_ADDR = i /\ i \in Index
    BY FuseByte, ClockRanges, SizeAssumption, SMT DEF Addr
<1>2. (768 + Addr) \div 256 = 3 /\ (768 + Addr) % 256 = Addr /\ 2^8 = 256
    BY <1>1, SMT
<1>3. chip'.n < 16 <=> FALSE
    BY SMT
<1>4. chip'.shift \div 2^8 = 3
    BY <1>2, SMT
<1>5. (chip'.shift % 256) - EUI_48_START_ADDR \in Index
    BY <1>1, <1>2, SMT
<1> QED BY <1>3, <1>4, <1>5, SMT DEF OnlyReads, read_instruction

\* A turn of SendByte(addr) keeps the invariant; after the last one
\* ReadByteSPI begins with whatever ret holds.
LEMMA AddressStep ==
    ASSUME Inv, Address
    PROVE  Inv'
<1>1. /\ pc = "Address" /\ pc' = (IF k < 7 THEN "Address" ELSE "Data")
      /\ chip' = Clocked(byte \div 128) /\ k' = (k + 1) % 8 /\ byte' = (2 * byte) % 256
      /\ IF k < 7 THEN ret' = ret ELSE ret' \in Garbage
      /\ UNCHANGED <<reader, i, MACdevice, MAC_addr, hwaddr, led, wdt, held, CS, HOLD, fuse>>
    BY SMT DEF Address, Goto, SendBit
<1>2. TypeOK /\ chip.n = 8 + k /\ 256 * chip.shift + byte = Doubled(768 + Addr, k)
    BY <1>1, SMT DEF Inv, Sends
<1>3. /\ k \in 0..7 /\ byte \in Nat /\ byte < 256 /\ chip.shift \in Nat /\ chip.shift < 65536
      /\ ret \in Nat /\ ret < 256 /\ Addr \in Nat /\ Addr < 256 /\ 768 + Addr \in Nat
    BY <1>2, ClockRanges, FuseByte, SMT
<1> DEFINE s == 2 * chip.shift + (byte \div 128)
<1>4. chip' = [n |-> 9 + k, shift |-> s]
    <2>1. byte \div 128 \in 0..1
        BY <1>3, SMT
    <2> DEFINE b == byte \div 128
    <2> HIDE DEF b
    <2>2. Clocked(b) = [n |-> 9 + k, shift |-> 2 * chip.shift + b]
        BY <1>1, <1>2, <1>3, <2>1, Clock, SMT DEF b, Clocking
    <2> QED BY <1>1, <2>2, SMT DEF b
<1>5. OtherTypes'
    BY <1>1, <1>2, OtherTypesKept, SMT
<1>6. s \in Nat /\ s < 65536 /\ byte' \in Nat /\ byte' < 256
    <2>1. Doubled(768 + Addr, k) \in Nat /\ Doubled(768 + Addr, k) <= 128 * (768 + Addr)
        BY <1>3, SMT DEF Doubled
    <2> QED BY <1>1, <1>2, <1>3, <2>1, SMT
<1>7. ret' \in Nat /\ ret' < 256 /\ Addr' = Addr
    <2>1. \A x \in Garbage : x \in Nat /\ x < 256
        BY GarbageAssumption, ByteNat, SMT
    <2> QED BY <1>1, <1>3, <2>1, SMT DEF Addr
<1>8. CASE k < 7
    <2>1. pc' = "Address" /\ k' = k + 1 /\ k' \in 1..7
        BY <1>1, <1>3, <1>8, SMT
    <2>2. 256 * s + byte' = 2 * (256 * chip.shift + byte)
        BY <1>1, <1>3, SMT
    <2>3. 256 * s + byte' = Doubled(768 + Addr, k')
        <3>1. Doubled(768 + Addr, k + 1) = 2 * Doubled(768 + Addr, k)
            <4>1. k \in 0..6
                BY <1>3, <1>8, SMT
            <4> QED BY <1>3, <4>1, DoubledNext, SMT
        <3> QED BY <1>2, <2>1, <2>2, <3>1, SMT
    <2>4. chip'.n = 8 + k' /\ chip'.shift = s
        BY <1>3, <1>4, <2>1, SMT
    <2> HIDE DEF s
    <2>5. Instructed(s, k')
        <3>1. Loaded(s, byte', 768 + Addr, k')
            BY <1>3, <1>6, <2>1, <2>3, SMT DEF Loaded
        <3> QED BY <3>1, PrefixRead, SMT
    <2>6. OnlyReads'
        <3>1. (IF chip'.n < 16 THEN chip'.n - 8 ELSE 8) = k' /\ ~(chip'.n >= 16)
            BY <2>1, <2>4, SMT
        <3>2. chip'.shift \div 2^(IF chip'.n < 16 THEN chip'.n - 8 ELSE 8) = 3
            BY <2>4, <2>5, <3>1, Zenon DEF Instructed, read_instruction
        <3> QED BY <3>1, <3>2, SMT DEF OnlyReads, read_instruction
    <2>7. Pins' /\ Sends' /\ Receives' /\ Reads' /\ Stores'
        BY <1>1, <1>7, <2>1, <2>3, <2>4, SMT
        DEF Inv, Pins, Listening, Clocking, Sends, Receives, Reads, Stores, MacIsEui
    <2>8. ClockTypes'
        <3>1. pc' \in Labels /\ k' \in 0..7 /\ i' = i /\ 9 + k \in Nat /\ 9 + k <= 24
            BY <1>1, <1>3, <1>8, <2>1, SMT DEF Labels, Printing
        <3> QED BY <1>2, <1>4, <1>6, <1>7, <3>1, ClockTypesNext, SMT
    <2> QED BY <1>5, <2>6, <2>7, <2>8, TypePartsNext, SMT DEF Inv
<1>9. CASE k = 7
    <2>1. pc' = "Data" /\ k' = 0
        BY <1>1, <1>9, SMT
    <2>2. s = 768 + Addr
        <3>1. Doubled(768 + Addr, 7) = 128 * (768 + Addr)
            BY <1>3, DoubledEnds, SMT
        <3> QED BY <1>2, <1>3, <1>9, <3>1, SMT
    <2>3. chip'.n = 16 /\ chip'.shift = 768 + Addr
        BY <1>4, <1>9, <2>2, SMT
    <2>4. OnlyReads'
        BY <1>2, <2>3, FullRead, SMT
    <2>5. Pins' /\ Sends' /\ Reads' /\ Stores'
        BY <1>1, <1>7, <2>1, <2>3, SMT
        DEF Inv, Pins, Listening, Clocking, Sends, Reads, Stores, MacIsEui
    <2>a. Receives'
        BY <2>1, SMT DEF Receives, Shifted
    <2>6. ClockTypes'
        <3>1. pc' \in Labels /\ k' \in 0..7 /\ i' = i /\ 9 + k \in Nat /\ 9 + k <= 24
            BY <1>1, <1>3, <1>9, <2>1, SMT DEF Labels, Printing
        <3> HIDE DEF s
        <3> QED BY <1>2, <1>4, <1>6, <1>7, <3>1, ClockTypesNext, SMT
    <2> QED BY <1>5, <2>4, <2>5, <2>a, <2>6, TypePartsNext, SMT DEF Inv
<1> QED BY <1>3, <1>8, <1>9, SMT

-----------------------------------------------------------------------------
(* ReadByteSPI.                                                            *)

\* The bit of b that the chip drives at clock j of the byte, the top one first.
Bit(b, j) == (b \div 2^(7 - j)) % 2

\* The bits of a byte with literal powers of two.
LEMMA Bits ==
    ASSUME NEW b \in Nat
    PROVE  /\ Bit(b, 0) = (b \div 128) % 2 /\ Bit(b, 1) = (b \div 64) % 2
           /\ Bit(b, 2) = (b \div 32) % 2 /\ Bit(b, 3) = (b \div 16) % 2
           /\ Bit(b, 4) = (b \div 8) % 2 /\ Bit(b, 5) = (b \div 4) % 2
           /\ Bit(b, 6) = (b \div 2) % 2 /\ Bit(b, 7) = b % 2
<1>1. /\ 2^(7 - 0) = 128 /\ 2^(7 - 1) = 64 /\ 2^(7 - 2) = 32 /\ 2^(7 - 3) = 16
      /\ 2^(7 - 4) = 8 /\ 2^(7 - 5) = 4 /\ 2^(7 - 6) = 2 /\ 2^(7 - 7) = 1
    BY SMT
<1>2. b \div 1 = b
    BY SMT
<1> QED BY <1>1, <1>2, Zenon DEF Bit

\* r is what ReadByteSPI has of the byte b after j bits.
Received(r, b, j) == r \in Nat /\ r < 256 /\ b \in Nat /\ b < 256 /\ Shifted(r, b, j)

\* A turn of ReadByteSPI but the last: "ret++" for a one and "ret<<1" bring
\* the next bit of the byte under those that came before.
LEMMA ReceivedNext ==
    ASSUME NEW r, NEW b, NEW j \in 0..6, Received(r, b, j)
    PROVE  Received((2 * (r + Bit(b, j))) % 256, b, j + 1)
<1>0. b \in Nat
    BY Zenon DEF Received
<1>1. CASE j = 0
    <2>1. PICK bit : bit = (b \div 128) % 2 /\ bit = Bit(b, 0)
        BY <1>0, Bits, Zenon
    <2>2. Received((2 * (r + bit)) % 256, b, 1)
        BY <1>1, <2>1, SMT DEF Received, Shifted
    <2> QED BY <1>1, <2>1, <2>2, SMT
<1>2. CASE j = 1
    <2>1. PICK bit : bit = (b \div 64) % 2 /\ bit = Bit(b, 1)
        BY <1>0, Bits, Zenon
    <2>2. Received((2 * (r + bit)) % 256, b, 2)
        BY <1>2, <2>1, SMT DEF Received, Shifted
    <2> QED BY <1>2, <2>1, <2>2, SMT
<1>3. CASE j = 2
    <2>1. PICK bit : bit = (b \div 32) % 2 /\ bit = Bit(b, 2)
        BY <1>0, Bits, Zenon
    <2>2. Received((2 * (r + bit)) % 256, b, 3)
        BY <1>3, <2>1, SMT DEF Received, Shifted
    <2> QED BY <1>3, <2>1, <2>2, SMT
<1>4. CASE j = 3
    <2>1. PICK bit : bit = (b \div 16) % 2 /\ bit = Bit(b, 3)
        BY <1>0, Bits, Zenon
    <2>2. Received((2 * (r + bit)) % 256, b, 4)
        BY <1>4, <2>1, SMT DEF Received, Shifted
    <2> QED BY <1>4, <2>1, <2>2, SMT
<1>5. CASE j = 4
    <2>1. PICK bit : bit = (b \div 8) % 2 /\ bit = Bit(b, 4)
        BY <1>0, Bits, Zenon
    <2>2. Received((2 * (r + bit)) % 256, b, 5)
        BY <1>5, <2>1, SMT DEF Received, Shifted
    <2> QED BY <1>5, <2>1, <2>2, SMT
<1>6. CASE j = 5
    <2>1. PICK bit : bit = (b \div 4) % 2 /\ bit = Bit(b, 5)
        BY <1>0, Bits, Zenon
    <2>2. Received((2 * (r + bit)) % 256, b, 6)
        BY <1>6, <2>1, SMT DEF Received, Shifted
    <2> QED BY <1>6, <2>1, <2>2, SMT
<1>7. CASE j = 6
    <2>1. PICK bit : bit = (b \div 2) % 2 /\ bit = Bit(b, 6)
        BY <1>0, Bits, Zenon
    <2>2. Received((2 * (r + bit)) % 256, b, 7)
        BY <1>7, <2>1, SMT DEF Received, Shifted
    <2> QED BY <1>7, <2>1, <2>2, SMT
<1> QED BY <1>1, <1>2, <1>3, <1>4, <1>5, <1>6, <1>7, SMT

\* The last turn does not shift: seven of the eight bits are the byte's, and
\* the top one is spoilt by what ret held at first (eeprom_new.c:78).
LEMMA ReceivedLast ==
    ASSUME NEW r, NEW b, Received(r, b, 7), NEW x, x = (r + Bit(b, 7)) % 256
    PROVE  x % 128 = b % 128 /\ x \in Nat /\ x < 256
<1>1. b \in Nat
    BY Zenon DEF Received
<1>2. PICK bit : bit = b % 2 /\ bit = Bit(b, 7)
    BY <1>1, Bits, Zenon
<1>3. x = (r + bit) % 256
    BY <1>2, Zenon
<1> QED BY <1>2, <1>3, SMT DEF Received, Shifted

\* At each clock of ReadByteSPI the chip drives the bit of the EUI byte that
\* is being read, and nothing else.
LEMMA MisoIsFuse ==
    ASSUME Inv, pc = "Data"
    PROVE  Miso = {Bit(fuse[i], k)}
<1>1. Listening /\ chip.n = 16 + k /\ chip.shift = 768 + Addr /\ TypeOK
    BY SMT DEF Inv, Pins, Clocking, Sends
<1>2. k \in 0..7 /\ Addr \in Nat /\ Addr < 256 /\ Addr - EUI_48_START_ADDR = i /\ i \in Index
    BY <1>1, ClockRanges, FuseByte, SizeAssumption, SMT DEF Addr
<1>3. chip.n >= 16 /\ chip.shift \div 256 = read_instruction /\ chip.n % 8 = k
      /\ (chip.shift + (chip.n - 16) \div 8) % 256 = Addr
    BY <1>1, <1>2, SMT DEF read_instruction
<1>4. Cell(Addr) = fuse[i]
    BY <1>2, SMT DEF Cell
<1> QED BY <1>1, <1>3, <1>4, Zenon DEF Miso, Bit

\* A turn of ReadByteSPI keeps the invariant.
LEMMA DataStep ==
    ASSUME Inv, Data
    PROVE  Inv'
<1>1. /\ pc = "Data" /\ pc' = (IF k < 7 THEN "Data" ELSE "Deselect")
      /\ chip' = Clocked(0) /\ k' = (k + 1) % 8
      /\ \E bit \in Miso : ret' = Accumulate(ret, bit)
      /\ UNCHANGED <<reader, i, byte, MACdevice, MAC_addr, hwaddr, led, wdt, held, CS, HOLD, fuse>>
    BY SMT DEF Data, Goto
<1>2. TypeOK /\ chip.n = 16 + k /\ chip.shift = 768 + Addr /\ Shifted(ret, fuse[i], k)
    BY <1>1, SMT DEF Inv, Sends, Receives
<1>3. /\ k \in 0..7 /\ byte \in Nat /\ byte < 256 /\ chip.shift \in Nat /\ chip.shift < 65536
      /\ ret \in Nat /\ ret < 256 /\ Addr \in Nat /\ Addr < 256
      /\ fuse[i] \in Nat /\ fuse[i] < 256
    BY <1>2, ClockRanges, FuseByte, SMT
<1>4. chip' = [n |-> 17 + k, shift |-> 768 + Addr]
    <2>1. 0 \in 0..1
        BY SMT
    <2>2. Clocked(0) = [n |-> chip.n + 1,
                        shift |-> IF chip.n < 16 THEN 2 * chip.shift + 0 ELSE chip.shift]
        BY <1>1, <2>1, Clock, SMT DEF Clocking
    <2> QED BY <1>1, <1>2, <1>3, <2>2, SMT
<1>5. OtherTypes'
    BY <1>1, <1>2, OtherTypesKept, SMT
<1>6. chip'.n = 17 + k /\ chip'.shift = 768 + Addr /\ Addr' = Addr
    BY <1>1, <1>4, SMT DEF Addr
<1>7. OnlyReads'
    <2>1. chip'.n \in Nat /\ chip'.n >= 16
        BY <1>3, <1>6, SMT
    <2> QED BY <1>2, <1>6, <2>1, FullRead, SMT
<1>8. ret' = Accumulate(ret, Bit(fuse[i], k)) /\ Received(ret, fuse[i], k)
    <2>1. Miso = {Bit(fuse[i], k)}
        BY <1>1, MisoIsFuse, Zenon
    <2>2. ret' = Accumulate(ret, Bit(fuse[i], k))
        BY <1>1, <2>1, Zenon
    <2>3. Received(ret, fuse[i], k)
        BY <1>2, <1>3, SMT DEF Received
    <2> QED BY <2>2, <2>3, Zenon
<1>9. CASE k < 7
    <2>1. pc' = "Data" /\ k' = k + 1 /\ k \in 0..6
        BY <1>1, <1>3, <1>9, SMT
    <2>2. ret' = (2 * (ret + Bit(fuse[i], k))) % 256
        BY <1>8, <1>9, Zenon DEF Accumulate
    <2>3. Received(ret', fuse[i], k + 1)
        BY <1>8, <2>1, <2>2, ReceivedNext, Zenon
    <2>5. Receives'
        <3>1. Shifted(ret', fuse'[i'], k')
            BY <1>1, <2>1, <2>3, Zenon DEF Received
        <3> QED BY <2>1, <3>1, SMT DEF Receives
    <2>6. Pins' /\ Sends' /\ Reads' /\ Stores'
        BY <1>1, <1>3, <1>6, <2>1, SMT
        DEF Inv, Pins, Listening, Clocking, Sends, Reads, Stores, MacIsEui
    <2>7. ClockTypes'
        <3>1. pc' \in Labels /\ k' \in 0..7 /\ i' = i /\ 17 + k \in Nat /\ 17 + k <= 24
            BY <1>1, <1>3, <2>1, SMT DEF Labels, Printing
        <3>2. ret' \in Nat /\ ret' < 256 /\ byte' \in Nat /\ byte' < 256
            BY <1>1, <1>3, <2>3, SMT DEF Received
        <3>3. 768 + Addr \in Nat /\ 768 + Addr < 65536
            BY <1>3, SMT
        <3> QED BY <1>2, <1>4, <3>1, <3>2, <3>3, ClockTypesNext, SMT
    <2> QED BY <1>5, <1>7, <2>5, <2>6, <2>7, TypePartsNext, SMT DEF Inv
<1>10. CASE k = 7
    <2>1. pc' = "Deselect" /\ k' = 0
        BY <1>1, <1>10, SMT
    <2>2. ret' = (ret + Bit(fuse[i], 7)) % 256 /\ Received(ret, fuse[i], 7)
        <3>1. ~(k < 7)
            BY <1>10, SMT
        <3> QED BY <1>8, <1>10, <3>1, Zenon DEF Accumulate
    <2>3. ret' % 128 = fuse[i] % 128 /\ ret' \in Nat /\ ret' < 256
        BY <2>2, ReceivedLast, SMT
    <2>5. Receives'
        <3>1. ret' % 128 = fuse'[i'] % 128
            BY <1>1, <2>3, Zenon
        <3> QED BY <2>1, <3>1, SMT DEF Receives
    <2>6. Pins' /\ Sends' /\ Reads' /\ Stores'
        BY <1>1, <2>1, SMT
        DEF Inv, Pins, Listening, Clocking, Sends, Reads, Stores, MacIsEui
    <2>7. ClockTypes'
        <3>1. pc' \in Labels /\ k' \in 0..7 /\ i' = i /\ 17 + k \in Nat /\ 17 + k <= 24
            BY <1>1, <1>10, <2>1, SMT DEF Labels, Printing
        <3>2. byte' \in Nat /\ byte' < 256
            BY <1>1, <1>3, SMT
        <3>3. 768 + Addr \in Nat /\ 768 + Addr < 65536
            BY <1>3, SMT
        <3> QED BY <1>2, <1>4, <2>3, <3>1, <3>2, <3>3, ClockTypesNext, SMT
    <2> QED BY <1>5, <1>7, <2>5, <2>6, <2>7, TypePartsNext, SMT DEF Inv
<1> QED BY <1>3, <1>9, <1>10, SMT

-----------------------------------------------------------------------------
(* Steps without a clock.                                                  *)

\* A chip that CS went high on has seen no clock.
LEMMA DeselectedTyped == Deselected \in [n : 0..24, shift : Word] /\ Deselected.n = 0
<1>1. 0 \in Word /\ 0 \in 0..24
    BY WordNat, SMT
<1> QED BY <1>1, SMT DEF Deselected

\* The type of the state after a step without a clock.
LEMMA ClockTypesKept ==
    ASSUME TypeOK, pc' \in Labels, UNCHANGED <<i, k, byte, ret>>, chip' \in {chip, Deselected}
    PROVE  ClockTypes'
BY TypeParts, DeselectedTyped, Zenon DEF ClockTypes

\* The levels of a pin.
LEMMA BothPins == 0 \in 0..1 /\ 1 \in 0..1
BY SMT

\* The block has a first byte, and a zeroed address is one.
LEMMA BlankTyped == 0 \in Index /\ NoMac \in [Index -> Byte]
BY SizeAssumption, SMT DEF Index, NoMac, Byte

\* A chip that is left alone or deselected takes no command.
LEMMA OnlyReadsKept ==
    ASSUME Inv, chip' \in {chip, Deselected}
    PROVE  OnlyReads'
<1>1. CASE chip' = chip
    BY <1>1, Zenon DEF Inv, OnlyReads
<1>2. CASE chip' = Deselected
    <2>1. chip'.n = 0
        BY <1>2, DeselectedTyped, Zenon
    <2>2. ~(chip'.n >= 8) /\ ~(chip'.n >= 16)
        BY <2>1, SMT
    <2> QED BY <2>2, Zenon DEF OnlyReads
<1> QED BY <1>1, <1>2, Zenon

\* The invariant says nothing of the places outside a reading: a step to one
\* of them keeps it if it leaves the chip alone.
LEMMA QuietStep ==
    ASSUME Inv, TypeOK', chip' \in {chip, Deselected},
           pc' \notin Clocking, pc' \notin {"Hold", "Select", "Judge", "Finish", "Loop"}
    PROVE  Inv'
<1>1. Pins' /\ Sends' /\ Receives' /\ Reads' /\ Stores'
    BY SMT DEF Pins, Clocking, Sends, Receives, Reads, Stores, MacIsEui
<1> QED BY <1>1, OnlyReadsKept, Zenon DEF Inv

\* The step from reset, InitBiLED and SetBiLED, keeps the invariant,
\* whatever the chip was in the middle of.
LEMMA BootStep ==
    ASSUME Inv, Boot
    PROVE  Inv'
<1>1. /\ pc' = "InitWatchDog" /\ led' = "LED_YELLOW"
      /\ UNCHANGED <<reader, i, k, byte, ret, MACdevice, MAC_addr, hwaddr,
                     wdt, held, CS, HOLD, chip, fuse>>
    BY Zenon DEF Boot, Goto
<1>2. TypeOK /\ OtherTypes
    BY TypeParts, Zenon DEF Inv
<1>3. OtherTypes'
    BY <1>1, <1>2, Zenon DEF OtherTypes
<1>4. ClockTypes'
    BY <1>1, <1>2, ClockTypesKept, Zenon DEF Labels
<1>5. TypeOK' /\ chip' \in {chip, Deselected}
    BY <1>1, <1>3, <1>4, TypePartsNext, Zenon
<1>6. pc' \notin Clocking /\ pc' \notin {"Hold", "Select", "Judge", "Finish", "Loop"}
    BY <1>1, SMT DEF Clocking
<1> QED BY <1>5, <1>6, QuietStep, Zenon

\* InitWatchDog keeps the invariant.
LEMMA InitWatchDogStep ==
    ASSUME Inv, InitWatchDog
    PROVE  Inv'
<1>1. /\ pc' = "InitUART" /\ wdt' = TRUE
      /\ UNCHANGED <<reader, i, k, byte, ret, MACdevice, MAC_addr, hwaddr, led,
                     held, CS, HOLD, chip, fuse>>
    BY Zenon DEF InitWatchDog, Goto
<1>2. TypeOK /\ OtherTypes
    BY TypeParts, Zenon DEF Inv
<1>3. OtherTypes'
    BY <1>1, <1>2, Zenon DEF OtherTypes
<1>4. ClockTypes'
    BY <1>1, <1>2, ClockTypesKept, Zenon DEF Labels
<1>5. TypeOK' /\ chip' \in {chip, Deselected}
    BY <1>1, <1>3, <1>4, TypePartsNext, Zenon
<1>6. pc' \notin Clocking /\ pc' \notin {"Hold", "Select", "Judge", "Finish", "Loop"}
    BY <1>1, SMT DEF Clocking
<1> QED BY <1>5, <1>6, QuietStep, Zenon

\* InitXTick, InputDisturbancePortInit and InitUART keep the invariant.
LEMMA InitUARTStep ==
    ASSUME Inv, InitUART
    PROVE  Inv'
<1>1. /\ pc' = "eeprom_new_init"
      /\ UNCHANGED <<reader, i, k, byte, ret, MACdevice, MAC_addr, hwaddr, led,
                     wdt, held, CS, HOLD, chip, fuse>>
    BY Zenon DEF InitUART, Goto
<1>2. TypeOK /\ OtherTypes
    BY TypeParts, Zenon DEF Inv
<1>3. OtherTypes'
    BY <1>1, <1>2, Zenon DEF OtherTypes
<1>4. ClockTypes'
    BY <1>1, <1>2, ClockTypesKept, Zenon DEF Labels
<1>5. TypeOK' /\ chip' \in {chip, Deselected}
    BY <1>1, <1>3, <1>4, TypePartsNext, Zenon
<1>6. pc' \notin Clocking /\ pc' \notin {"Hold", "Select", "Judge", "Finish", "Loop"}
    BY <1>1, SMT DEF Clocking
<1> QED BY <1>5, <1>6, QuietStep, Zenon

\* The endless loop behind a bad EUI keeps the invariant.
LEMMA MacErrorStep ==
    ASSUME Inv, MacError
    PROVE  Inv'
<1>1. /\ pc' = "MacError" /\ led' = "LED_RED"
      /\ UNCHANGED <<reader, i, k, byte, ret, MACdevice, MAC_addr, hwaddr,
                     wdt, held, CS, HOLD, chip, fuse>>
    BY Zenon DEF MacError, Goto
<1>2. TypeOK /\ OtherTypes
    BY TypeParts, Zenon DEF Inv
<1>3. OtherTypes'
    BY <1>1, <1>2, Zenon DEF OtherTypes
<1>4. ClockTypes'
    BY <1>1, <1>2, ClockTypesKept, Zenon DEF Labels
<1>5. TypeOK' /\ chip' \in {chip, Deselected}
    BY <1>1, <1>3, <1>4, TypePartsNext, Zenon
<1>6. pc' \notin Clocking /\ pc' \notin {"Hold", "Select", "Judge", "Finish", "Loop"}
    BY <1>1, SMT DEF Clocking
<1> QED BY <1>5, <1>6, QuietStep, Zenon

\* LwIP_Init up to the second reading keeps the invariant.
LEMMA LwIP_InitStep ==
    ASSUME Inv, LwIP_Init
    PROVE  Inv'
<1>1. /\ pc' = "eeprom_new_init" /\ reader' = "low_level_init"
      /\ UNCHANGED <<i, k, byte, ret, MACdevice, MAC_addr, hwaddr, led,
                     wdt, held, CS, HOLD, chip, fuse>>
    BY Zenon DEF LwIP_Init, Goto
<1>2. TypeOK /\ OtherTypes
    BY TypeParts, Zenon DEF Inv
<1>3. OtherTypes'
    BY <1>1, <1>2, Zenon DEF OtherTypes
<1>4. ClockTypes'
    BY <1>1, <1>2, ClockTypesKept, Zenon DEF Labels
<1>5. TypeOK' /\ chip' \in {chip, Deselected}
    BY <1>1, <1>3, <1>4, TypePartsNext, Zenon
<1>6. pc' \notin Clocking /\ pc' \notin {"Hold", "Select", "Judge", "Finish", "Loop"}
    BY <1>1, SMT DEF Clocking
<1> QED BY <1>5, <1>6, QuietStep, Zenon

\* A watchdog reset in the middle of a reading keeps the invariant: the chip
\* is not reset, but the program is back where no reading is.
LEMMA WatchdogStep ==
    ASSUME Inv, Watchdog
    PROVE  Inv'
<1>1. /\ pc' = "Reset" /\ reader' = "main" /\ i' = 0 /\ k' = 0 /\ byte' = 0 /\ ret' = 0
      /\ MACdevice' = NoMac /\ MAC_addr' = NoMac /\ hwaddr' = NoMac
      /\ led' = "LED_BLACK" /\ wdt' = FALSE /\ held' = FALSE
      /\ CS' = 0 /\ HOLD' = 0 /\ UNCHANGED <<chip, fuse>>
    BY Zenon DEF Watchdog
<1>2. TypeOK /\ OtherTypes
    BY TypeParts, Zenon DEF Inv
<1>3. OtherTypes'
    BY <1>1, <1>2, BlankTyped, BothPins, Zenon DEF OtherTypes
<1>4. ClockTypes'
    <2>1. 0 \in Byte /\ 0 \in 0..7
        BY ByteNat, SMT
    <2> QED BY <1>1, <1>2, <2>1, BlankTyped, TypeParts, Zenon DEF ClockTypes, Labels
<1>5. TypeOK' /\ chip' \in {chip, Deselected}
    BY <1>1, <1>3, <1>4, TypePartsNext, Zenon
<1>6. pc' \notin Clocking /\ pc' \notin {"Hold", "Select", "Judge", "Finish", "Loop"}
    BY <1>1, SMT DEF Clocking
<1> QED BY <1>5, <1>6, QuietStep, Zenon

\* eeprom_new_init makes CS high, which ends what a reset cut short: from
\* here on the chip has no clocks.
LEMMA eeprom_new_initStep ==
    ASSUME Inv, eeprom_new_init
    PROVE  Inv'
<1>1. /\ pc' = "Hold" /\ CS' = 1 /\ HOLD' = 0 /\ chip' = Deselected
      /\ UNCHANGED <<reader, i, k, byte, ret, MACdevice, MAC_addr, hwaddr, led,
                     wdt, held, fuse>>
    BY Zenon DEF eeprom_new_init, Goto
<1>2. TypeOK /\ OtherTypes
    BY TypeParts, Zenon DEF Inv
<1>3. OtherTypes'
    BY <1>1, <1>2, BothPins, Zenon DEF OtherTypes
<1>4. ClockTypes'
    BY <1>1, <1>2, ClockTypesKept, Zenon DEF Labels, Printing
<1>5. Pins' /\ Sends' /\ Receives' /\ Reads' /\ Stores'
    BY <1>1, SMT DEF Pins, Clocking, Sends, Receives, Reads, Stores, MacIsEui
<1>6. OnlyReads'
    BY <1>1, OnlyReadsKept, Zenon
<1> QED BY <1>3, <1>4, <1>5, <1>6, TypePartsNext, Zenon DEF Inv

\* eeprom_read begins with HOLD high and the first byte.
LEMMA HoldStep ==
    ASSUME Inv, Hold
    PROVE  Inv'
<1>1. /\ pc = "Hold" /\ pc' = "Select" /\ HOLD' = 1 /\ i' = 0
      /\ UNCHANGED <<reader, k, byte, ret, MACdevice, MAC_addr, hwaddr, led,
                     wdt, held, CS, chip, fuse>>
    BY Zenon DEF Hold, Goto
<1>2. TypeOK /\ OtherTypes /\ ClockTypes
    BY TypeParts, Zenon DEF Inv
<1>3. OtherTypes'
    BY <1>1, <1>2, BothPins, Zenon DEF OtherTypes
<1>4. ClockTypes'
    BY <1>1, <1>2, BlankTyped, Zenon DEF ClockTypes, Labels, Printing
<1>5. Pins' /\ Sends' /\ Receives' /\ Stores'
    BY <1>1, SMT DEF Inv, Pins, Clocking, Sends, Receives, Stores, MacIsEui
<1>6. Reads'
    <2>1. \A j \in Index : ~(j < 0)
        BY SizeAssumption, SMT DEF Index
    <2> QED BY <1>1, <2>1, SMT DEF Reads
<1>7. OnlyReads'
    BY <1>1, OnlyReadsKept, Zenon
<1> QED BY <1>3, <1>4, <1>5, <1>6, <1>7, TypePartsNext, Zenon DEF Inv

\* eephrom_read_byte makes CS low on a chip without clocks: the read
\* instruction is all that is left to send.
LEMMA SelectStep ==
    ASSUME Inv, Select
    PROVE  Inv'
<1>1. /\ pc = "Select" /\ pc' = "Instruction" /\ CS' = 0 /\ k' = 0 /\ byte' = read_instruction
      /\ UNCHANGED <<reader, i, ret, MACdevice, MAC_addr, hwaddr, led,
                     wdt, held, HOLD, chip, fuse>>
    BY Zenon DEF Select, Goto
<1>2. TypeOK /\ OtherTypes /\ ClockTypes /\ HOLD = 1 /\ chip = Deselected
    BY <1>1, TypeParts, SMT DEF Inv, Pins
<1>3. OtherTypes'
    BY <1>1, <1>2, BothPins, Zenon DEF OtherTypes
<1>4. ClockTypes'
    <2>1. read_instruction \in Byte /\ 0 \in 0..7
        BY ByteNat, SMT DEF read_instruction
    <2> QED BY <1>1, <1>2, <2>1, Zenon DEF ClockTypes, Labels, Printing
<1>5. Pins' /\ Receives' /\ Reads' /\ Stores'
    BY <1>1, <1>2, SMT DEF Inv, Pins, Listening, Clocking, Receives, Reads, Stores, MacIsEui
<1>6. Sends'
    <2>1. Doubled(read_instruction, 0) = read_instruction /\ read_instruction = 3
        BY SMT DEF Doubled, read_instruction
    <2>2. chip'.n = 0 /\ chip'.shift = 0
        BY <1>1, <1>2, SMT DEF Deselected
    <2> QED BY <1>1, <2>1, <2>2, SMT DEF Sends
<1>7. OnlyReads'
    BY <1>1, OnlyReadsKept, Zenon
<1> QED BY <1>3, <1>4, <1>5, <1>6, <1>7, TypePartsNext, Zenon DEF Inv

\* eephrom_read_byte ends, and eeprom_read stores the byte: one more byte of
\* the block is the chip's, or the last one.
LEMMA DeselectStep ==
    ASSUME Inv, Deselect
    PROVE  Inv'
<1>1. /\ pc = "Deselect" /\ pc' = (IF i + 1 < EUI_48_SIZE THEN "Select" ELSE "Judge")
      /\ CS' = 1 /\ chip' = Deselected
      /\ IF reader = "main"
         THEN MACdevice' = [MACdevice EXCEPT ![i] = ret] /\ UNCHANGED MAC_addr
         ELSE MAC_addr' = [MAC_addr EXCEPT ![i] = ret] /\ UNCHANGED MACdevice
      /\ IF i + 1 < EUI_48_SIZE
         THEN i' = i + 1 /\ UNCHANGED HOLD
         ELSE HOLD' = 0 /\ UNCHANGED i
      /\ UNCHANGED <<reader, k, byte, ret, hwaddr, led, wdt, held, fuse>>
    BY Zenon DEF Deselect, Goto
<1>2. /\ TypeOK /\ OtherTypes /\ ClockTypes /\ Listening /\ ret % 128 = fuse[i] % 128 /\ MacIsEui
      /\ reader = "low_level_init" =>
            \A j \in Index : j < i => MAC_addr[j] % 128 = fuse[j] % 128
    BY <1>1, TypeParts, SMT DEF Inv, Pins, Clocking, Receives, Reads, Stores
<1>3. /\ i \in Nat /\ i < EUI_48_SIZE /\ i \in Index /\ EUI_48_SIZE \in Nat
      /\ MACdevice \in [Index -> Byte] /\ MAC_addr \in [Index -> Byte] /\ ret \in Byte
      /\ HOLD \in 0..1 /\ HOLD = 1
    BY <1>2, ClockRanges, SMT DEF OtherTypes, ClockTypes, Listening
<1>4. MACdevice' \in [Index -> Byte] /\ MAC_addr' \in [Index -> Byte] /\ i' \in Index
    <2>1. MACdevice' \in [Index -> Byte] /\ MAC_addr' \in [Index -> Byte]
        BY <1>1, <1>3, SMT
    <2>2. i' \in Index
        BY <1>1, <1>3, SMT DEF Index
    <2> QED BY <2>1, <2>2, Zenon
<1>5. OtherTypes'
    <2>1. HOLD' \in 0..1 /\ CS' \in 0..1
        BY <1>1, <1>3, BothPins, Zenon
    <2> QED BY <1>1, <1>2, <1>4, <2>1, Zenon DEF OtherTypes
<1>6. ClockTypes'
    <2>1. pc' \in Labels
        BY <1>1, SMT DEF Labels, Printing
    <2> QED BY <1>1, <1>2, <1>4, <2>1, DeselectedTyped, Zenon DEF ClockTypes
<1>7. OnlyReads'
    BY <1>1, OnlyReadsKept, Zenon
<1>8. reader = "low_level_init" =>
          \A j \in Index : j <= i => MAC_addr'[j] % 128 = fuse[j] % 128
    <2> SUFFICES ASSUME reader = "low_level_init", NEW j \in Index, j <= i
                 PROVE  MAC_addr'[j] % 128 = fuse[j] % 128
        OBVIOUS
    <2>1. MAC_addr' = [MAC_addr EXCEPT ![i] = ret]
        BY <1>1, SMT
    <2>2. CASE j = i
        BY <1>2, <1>3, <2>1, <2>2, SMT
    <2>3. CASE j # i
        <3>1. j < i
            BY <1>3, <2>3, SMT DEF Index
        <3>2. MAC_addr'[j] = MAC_addr[j]
            BY <1>3, <2>1, <2>3, SMT
        <3> QED BY <1>2, <3>1, <3>2, SMT
    <2> QED BY <2>2, <2>3
<1>9. CASE i + 1 < EUI_48_SIZE
    <2>1. pc' = "Select" /\ i' = i + 1 /\ HOLD' = 1
        BY <1>1, <1>3, <1>9, SMT
    <2>2. Pins' /\ Sends' /\ Receives' /\ Stores'
        BY <1>1, <2>1, SMT DEF Pins, Clocking, Sends, Receives, Stores, MacIsEui
    <2>3. Reads'
        <3>1. \A j \in Index : j < i + 1 => j <= i
            BY <1>3, SMT DEF Index
        <3> QED BY <1>1, <1>8, <2>1, <3>1, SMT DEF Reads
    <2> QED BY <1>5, <1>6, <1>7, <2>2, <2>3, TypePartsNext, Zenon DEF Inv
<1>10. CASE ~(i + 1 < EUI_48_SIZE)
    <2>1. pc' = "Judge"
        BY <1>1, <1>10, SMT
    <2>2. Pins' /\ Sends' /\ Receives' /\ Stores'
        BY <1>1, <2>1, SMT DEF Pins, Clocking, Sends, Receives, Stores, MacIsEui
    <2>3. Reads'
        <3>1. \A j \in Index : j <= i
            BY <1>3, <1>10, SMT DEF Index
        <3> QED BY <1>1, <1>8, <2>1, <3>1, SMT DEF Reads, Clocking
    <2> QED BY <1>5, <1>6, <1>7, <2>2, <2>3, TypePartsNext, Zenon DEF Inv
<1> QED BY <1>9, <1>10, Zenon

\* Only low_level_init's reading goes on to the netif, and with all of its
\* bytes.
LEMMA JudgeStep ==
    ASSUME Inv, Judge
    PROVE  Inv'
<1>1. /\ pc = "Judge"
      /\ pc' = (IF BadEui(Eui) THEN "MacError"
                ELSE IF reader = "main" THEN "LwIP_Init" ELSE "Finish")
      /\ UNCHANGED <<reader, i, k, byte, ret, MACdevice, MAC_addr, hwaddr, led,
                     wdt, held, CS, HOLD, chip, fuse>>
    BY Zenon DEF Judge, Goto
<1>2. TypeOK /\ OtherTypes /\ reader \in {"main", "low_level_init"}
    BY TypeParts, Zenon DEF Inv, OtherTypes
<1>3. pc' \in Labels /\ pc' \in {"MacError", "LwIP_Init", "Finish"}
    BY <1>1, SMT DEF Labels, Printing
<1>4. TypeOK'
    <2>1. OtherTypes'
        BY <1>1, <1>2, Zenon DEF OtherTypes
    <2>2. ClockTypes'
        BY <1>1, <1>2, <1>3, ClockTypesKept, Zenon
    <2> QED BY <2>1, <2>2, TypePartsNext, Zenon
<1>5. Pins' /\ Sends' /\ Receives' /\ Reads'
    BY <1>3, SMT DEF Pins, Clocking, Sends, Receives, Reads
<1>6. Stores'
    <2>1. pc' = "Finish" => reader = "low_level_init"
        BY <1>1, <1>2, SMT
    <2>2. reader = "low_level_init" => \A j \in Index : MAC_addr[j] % 128 = fuse[j] % 128
        BY <1>1, SMT DEF Inv, Reads
    <2> QED BY <1>1, <1>3, <2>1, <2>2, SMT DEF Stores, MacIsEui
<1>7. OnlyReads'
    BY <1>1, OnlyReadsKept, Zenon
<1> QED BY <1>4, <1>5, <1>6, <1>7, Zenon DEF Inv

\* low_level_init copies MAC_addr into the netif.
LEMMA FinishStep ==
    ASSUME Inv, Finish
    PROVE  Inv'
<1>1. /\ pc = "Finish" /\ pc' = "Loop" /\ hwaddr' = MAC_addr
      /\ UNCHANGED <<reader, i, k, byte, ret, MACdevice, MAC_addr, led,
                     wdt, held, CS, HOLD, chip, fuse>>
    BY Zenon DEF Finish, Goto
<1>2. TypeOK /\ OtherTypes
    BY TypeParts, Zenon DEF Inv
<1>3. OtherTypes'
    BY <1>1, <1>2, Zenon DEF OtherTypes
<1>4. ClockTypes'
    BY <1>1, <1>2, ClockTypesKept, Zenon DEF Labels, Printing
<1>5. Pins' /\ Sends' /\ Receives' /\ Reads'
    BY <1>1, SMT DEF Pins, Clocking, Sends, Receives, Reads
<1>6. Stores'
    BY <1>1, SMT DEF Inv, Stores, MacIsEui
<1>7. OnlyReads'
    BY <1>1, OnlyReadsKept, Zenon
<1> QED BY <1>3, <1>4, <1>5, <1>6, <1>7, TypePartsNext, Zenon DEF Inv

\* The invariant does not depend on the UART's peer.
LEMMA SameReading ==
    ASSUME Inv, UNCHANGED <<cpu, wdt, CS, HOLD, chip, fuse>>, held' \in BOOLEAN
    PROVE  Inv'
<1>1. UNCHANGED <<pc, reader, i, k, byte, ret, MACdevice, MAC_addr, hwaddr, led,
                  wdt, CS, HOLD, chip, fuse>>
    BY Zenon DEF cpu
<1>2. TypeOK /\ OtherTypes /\ ClockTypes
    BY TypeParts, Zenon DEF Inv
<1>3. TypeOK'
    <2>1. OtherTypes'
        BY <1>1, <1>2, Zenon DEF OtherTypes
    <2>2. ClockTypes'
        BY <1>1, <1>2, Zenon DEF ClockTypes
    <2> QED BY <2>1, <2>2, TypePartsNext, Zenon
<1>4. Pins' /\ Sends' /\ Receives' /\ Reads' /\ Stores'
    BY <1>1, SMT DEF Inv, Pins, Listening, Clocking, Sends, Receives, Reads, Stores, MacIsEui, Addr
<1>5. OnlyReads'
    BY <1>1, OnlyReadsKept, Zenon
<1> QED BY <1>3, <1>4, <1>5, Zenon DEF Inv

\* The UART's peer may hold the program between any two clocks.
LEMMA CtsStep ==
    ASSUME Inv, Cts
    PROVE  Inv'
<1>1. UNCHANGED <<cpu, wdt, CS, HOLD, chip, fuse>> /\ held' = ~held
    BY Zenon DEF Cts
<1>2. held' \in BOOLEAN
    BY <1>1, Zenon
<1> QED BY <1>1, <1>2, SameReading, Zenon

-----------------------------------------------------------------------------
(* The theorems.                                                           *)

\* Every step of the start-up keeps the invariant.
LEMMA NextInv == Inv /\ [Next]_vars => Inv'
<1> SUFFICES ASSUME Inv, [Next]_vars PROVE Inv'
    OBVIOUS
<1>1. CASE Program
    BY <1>1, BootStep, InitWatchDogStep, InitUARTStep, eeprom_new_initStep, HoldStep, SelectStep,
       InstructionStep, AddressStep, DataStep, DeselectStep, JudgeStep, MacErrorStep,
       LwIP_InitStep, FinishStep, Zenon DEF Program
<1>2. CASE Cts
    BY <1>2, CtsStep, Zenon
<1>3. CASE Watchdog
    BY <1>3, WatchdogStep, Zenon
<1>4. CASE UNCHANGED vars
    <2>1. UNCHANGED <<cpu, wdt, CS, HOLD, chip, fuse>> /\ held' = held
        BY <1>4, Zenon DEF vars
    <2>2. held \in BOOLEAN
        BY TypeParts, Zenon DEF Inv, OtherTypes
    <2> QED BY <2>1, <2>2, SameReading, Zenon
<1> QED BY <1>1, <1>2, <1>3, <1>4, Zenon DEF Next

\* The invariant holds for every block, EUI and garbage.
THEOREM InvHolds == Spec => []Inv
BY InitInv, NextInv, PTL DEF Spec

\* Every byte of a reading fits its uint8_t and the chip never gets more
\* than 24 clocks in a selection, for every block and every sequence of
\* resets (eeprom_new.c, SendByte and ReadByteSPI).
THEOREM StartUpTyped == Spec => []TypeOK
<1>1. Inv => TypeOK
    BY Zenon DEF Inv
<1> QED BY <1>1, InvHolds, PTL

\* The address in use is the chip's EUI but for the top bit of each byte,
\* for every EUI, whatever the uninitialised ret holds (eeprom_new.c:78) and
\* however many resets cut readings short.
THEOREM AddressIsTheChips == Spec => []MacIsEui
<1>1. Inv => MacIsEui
    BY Zenon DEF Inv, Stores
<1> QED BY <1>1, InvHolds, PTL

\* The chip never takes an instruction but read nor an address outside the
\* block, at no clock and after no reset (eeprom_new.c:37, 125-134).
THEOREM ChipOnlyReads == Spec => []OnlyReads
<1>1. Inv => OnlyReads
    BY Zenon DEF Inv
<1> QED BY <1>1, InvHolds, PTL
=============================================================================
