-------------------------------- MODULE EthRx --------------------------------
(***************************************************************************)
(* The receive half of the driver ethernetif.c: the MAC puts frames into   *)
(* the ring below Dilimiter, ethernetif_input looks for one on every turn  *)
(* of the main loop, and EthReadFrame copies it into EthFrameRX.  Offsets  *)
(* are words, lengths are bytes.  The MAC writes a length word (the four   *)
(* bytes of the checksum included) and the frame's words.                  *)
(*                                                                         *)
(* The MAC runs between any two steps of the driver, which reads R_Tail    *)
(* once and gives the words back, by moving R_Head, after it copied them.  *)
(***************************************************************************)
EXTENDS Integers, Sequences

CONSTANTS
    Ring,     \* Dilimiter / 4: words in the ring
    Lens,     \* lengths in bytes of received frames, with their checksum
    Ids       \* frame contents, told apart by a name

ASSUME RingAssumption == Ring \in Nat /\ Ring > 2
\* A frame has some bytes beside its checksum.
ASSUME LensAssumption == Lens \subseteq {n \in Nat : n > 4}

VARIABLES
    R_Head, R_Tail,   \* the MAC's pointers
    mem,              \* the words of the ring
    pc,               \* where the driver is
    tail,             \* R_Tail as EthReadFrame read it
    EthFrameRX,       \* the frame EthReadFrame copied, and its length
    src,              \* where it stopped reading
    out               \* the frame EthReadFrame returned last

vars == <<R_Head, R_Tail, mem, pc, tail, EthFrameRX, src, out>>

Words(len) == (len + 3) \div 4

\* A frame without its checksum, as lwIP is to see it.
FrameOf(id, len) ==
    [len |-> len - 4, words |-> [j \in 1..Words(len - 4) |-> <<id, j>>]]
Frames == {FrameOf(id, len) : id \in Ids, len \in Lens}

None == <<>>

\* EthInit: equal pointers, a clean ring.
Init ==
    /\ R_Head = 0 /\ R_Tail = 0
    /\ mem = [i \in 0..(Ring - 1) |-> <<"empty", 0>>]
    /\ pc = "Poll" /\ tail = 0 /\ EthFrameRX = None /\ src = 0
    /\ out = None

-----------------------------------------------------------------------------
(* The MAC (external).                                                     *)

Free == (R_Head - R_Tail - 1) % Ring

\* A frame arrives; without room for it, one word kept free, it is dropped.
MacReceive ==
    \E id \in Ids, len \in Lens :
        /\ Words(len) + 1 <= Free
        /\ mem' = [p \in 0..(Ring - 1) |->
                      LET k == (p - R_Tail) % Ring
                      IN  IF k = 0 THEN <<"len", len>>
                          ELSE IF k <= Words(len) THEN <<id, k>> ELSE mem[p]]
        /\ R_Tail' = (R_Tail + Words(len) + 1) % Ring
        /\ UNCHANGED <<R_Head, pc, tail, EthFrameRX, src, out>>

-----------------------------------------------------------------------------
(* The driver.                                                             *)

\* ethernetif_input finds a frame; EthReadFrame reads the pointers.
Start ==
    /\ pc = "Poll"
    /\ R_Head # R_Tail
    /\ tail' = R_Tail
    /\ pc' = "Copy"
    /\ UNCHANGED <<R_Head, R_Tail, mem, EthFrameRX, src, out>>

\* space_end behind the length word, in bytes.
SpaceEnd == 4 * ((IF tail > R_Head THEN tail - R_Head ELSE Ring - R_Head) - 1)

\* "if (src > Dilimiter-1) src = BASE"
Wrap(p) == IF p > Ring - 1 THEN 0 ELSE p

\* Mutant: the part at the start of the ring begins one word late.
SourceLate(i, len) ==
    IF len <= SpaceEnd \/ i < SpaceEnd \div 4
    THEN Wrap(R_Head + 1) + i
    ELSE i - SpaceEnd \div 4 + 1

\* The word of the ring that the frame's i-th word (from 0) is read from.
Source(i, len) ==
    IF len <= SpaceEnd \/ i < SpaceEnd \div 4
    THEN Wrap(R_Head + 1) + i
    ELSE i - SpaceEnd \div 4

\* Mutant: one word too few is copied.
CopiedShort(len) == Words(len) - 2

\* All words but the last one go to EthFrameRX (size-1).
Copied(len) == Words(len) - 1

\* The length (len = tmp[0]-4) and the copying.
Copy ==
    /\ pc = "Copy"
    /\ LET len == mem[R_Head][2]
       IN  /\ EthFrameRX' = [len |-> len - 4,
                             words |-> [j \in 1..Copied(len) |-> mem[Source(j - 1, len)]]]
           /\ src' = Wrap(Source(Words(len) - 1, len) + 1)
    /\ pc' = "Release"
    /\ UNCHANGED <<R_Head, R_Tail, mem, tail, out>>

\* ETH_R_Head = src; return len.
Release ==
    /\ pc = "Release"
    /\ R_Head' = src
    /\ out' = EthFrameRX
    /\ pc' = "Poll" /\ tail' = 0 /\ EthFrameRX' = None /\ src' = 0
    /\ UNCHANGED <<R_Tail, mem>>

-----------------------------------------------------------------------------

Next == MacReceive \/ Start \/ Copy \/ Release

\* The main loop polls for ever.  Frames need not come.
Fairness == WF_vars(Start \/ Copy \/ Release)

Spec == Init /\ [][Next]_vars /\ Fairness

-----------------------------------------------------------------------------
(* Properties.                                                             *)

\* The frame at word p, without its checksum, as the MAC wrote it.
FrameAt(p) ==
    LET len == mem[p][2]
    IN  [len |-> len - 4, words |-> [j \in 1..Words(len - 4) |-> mem[(p + j) % Ring]]]

\* The frames in the ring; q[k] are the ones in the last k words before R_Tail.
Queue ==
    LET q[k \in 0..(Ring - 1)] ==
            IF k = 0 THEN <<>>
            ELSE LET p == (R_Tail - k) % Ring
                     n == Words(mem[p][2]) + 1
                 IN  <<FrameAt(p)>> \o (IF n <= k THEN q[k - n] ELSE <<>>)
    IN  q[(R_Tail - R_Head) % Ring]

TypeOK ==
    /\ R_Head \in 0..(Ring - 1) /\ R_Tail \in 0..(Ring - 1)
    /\ tail \in 0..(Ring - 1) /\ src \in 0..(Ring - 1)
    /\ \A p \in 0..(Ring - 1) : mem[p] \in (Ids \cup {"len", "empty"}) \X Nat
    /\ pc \in {"Poll", "Copy", "Release"}
    /\ EthFrameRX \in Frames \cup {None}
    /\ out \in Frames \cup {None}

\* The MAC and the driver together are a queue: each frame the MAC had room
\* for is returned by EthReadFrame whole, once and in order, wherever the ring's
\* end cuts it, and no later frame overwrites it before it is copied; none is
\* left in the ring for ever (ethernetif.c:201-265, 453-465).  A frame for which
\* low_level_input then finds no pbuf is dropped outside this model.
FQ == INSTANCE FrameQueue WITH queue <- Queue, out <- out, Frames <- Frames
ImplementsFrameQueue == FQ!Spec
=============================================================================
