------------------------------- MODULE Payload -------------------------------
(***************************************************************************)
(* The datagram of Application/Main.c: struct PAYLOAD as the compiler lays *)
(* it out in memory, the checksum Get_check_sum takes over that image, and *)
(* the 26 bytes DATA_construct puts on the wire.  The image and the wire   *)
(* are different layouts of the same fields: the image has padding and     *)
(* keeps the two attributes in bytes of their own, the wire packs them.    *)
(***************************************************************************)
EXTENDS Calendar, FiniteSets

\* struct PAYLOAD; `attributes` is flattened into its two members.
PAYLOAD ==
    [number: Byte, identificator: Word, useful_info: Word,
     timering: Byte, timering_sign: Byte, reserve_first: Byte,
     msk: TIME, reserve_second: Byte, local: TIME, reserve_third: Byte,
     validity: 0..1, efficency: 0..1, check_sum: Byte]

Low(w) == w % 256
High(w) == (w \div 256) % 256

\* sizeof(struct PAYLOAD) with natural alignment.
SizeofPayload == 32

\* The zero-initialised bytes the compiler inserts before a uint16_t.
Pad == 0

\* The bytes of the struct in memory, little endian.  A struct TIME is
\* aligned to 2 because of its uint16_t year.
Image(d) ==
    LET b == <<d.number, Pad, Low(d.identificator), High(d.identificator),
               Low(d.useful_info), High(d.useful_info),
               d.timering, d.timering_sign, d.reserve_first, Pad,
               d.msk.second, d.msk.minute, d.msk.hour, d.msk.day,
               d.msk.month, Pad, Low(d.msk.year), High(d.msk.year),
               d.reserve_second, Pad,
               d.local.second, d.local.minute, d.local.hour, d.local.day,
               d.local.month, Pad, Low(d.local.year), High(d.local.year),
               d.reserve_third, d.validity, d.efficency, d.check_sum>>
    IN  [i \in 0..(SizeofPayload - 1) |-> b[i + 1]]

\* Exclusive or of bytes f[0], ..., f[n-1]: bit k of the result is the
\* parity of the number of bytes whose bit k is set.
XorAll(f, n) ==
    LET bit(k) == Cardinality({i \in 0..(n - 1) : (f[i] \div k) % 2 = 1}) % 2
    IN  bit(1) + 2 * bit(2) + 4 * bit(4) + 8 * bit(8)
            + 16 * bit(16) + 32 * bit(32) + 64 * bit(64) + 128 * bit(128)

\* Mutant: one byte less, so validity drops out of the sum.
Get_check_sum_short(d) == XorAll(Image(d), SizeofPayload - 3)

\* Get_check_sum: for(i=0; i<sizeof(Datagram)-2; i++) over the image.
Get_check_sum(d) == XorAll(Image(d), SizeofPayload - 2)

\* DATA_construct: the 26 bytes of DATA[].
DATA_construct(d) ==
    LET w == <<d.number, Low(d.identificator), High(d.identificator),
               Low(d.useful_info), High(d.useful_info),
               d.timering, d.timering_sign, d.reserve_first,
               d.msk.second, d.msk.minute, d.msk.hour, d.msk.day,
               d.msk.month, Low(d.msk.year), High(d.msk.year),
               d.reserve_second,
               d.local.second, d.local.minute, d.local.hour, d.local.day,
               d.local.month, Low(d.local.year), High(d.local.year),
               d.reserve_third, 2 * d.validity + d.efficency, d.check_sum>>
    IN  [i \in 0..25 |-> w[i + 1]]

\* The instant a struct TIME is given when the device starts.
BootTime ==
    [second |-> 30, minute |-> 59, hour |-> 0, day |-> 1, month |-> 1, year |-> 2022]

\* Datagram_parameters_initialisation.
Datagram_parameters_initialisation ==
    [number |-> 0, identificator |-> 255, useful_info |-> 26,
     timering |-> 1, timering_sign |-> 1, reserve_first |-> 0,
     msk |-> BootTime, reserve_second |-> 0, local |-> LocalTime(BootTime, 1, 1),
     reserve_third |-> 0, validity |-> 0, efficency |-> 0, check_sum |-> 0]

-----------------------------------------------------------------------------
(* The receiver's side of the wire format (reference, not code).           *)

\* The two times a receiver reads out of the 26 bytes.
WireTime(w, base) ==
    [second |-> w[base], minute |-> w[base + 1], hour |-> w[base + 2],
     day |-> w[base + 3], month |-> w[base + 4],
     year |-> w[base + 5] + 256 * w[base + 6]]

\* What a receiver can verify: the checksum byte is the exclusive or of wire
\* bytes 0..23 and of the validity bit, which the wire carries as bit 1 of
\* byte 24.  The efficency bit (bit 0 of byte 24) is not covered.
ChecksumValid(w) ==
    w[25] = XorAll([w EXCEPT ![24] = w[24] \div 2], 25)
=============================================================================
