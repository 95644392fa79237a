-------------------------------- MODULE EthTx --------------------------------
(***************************************************************************)
(* The transmit half of the driver ethernetif.c: EthWriteFrame puts a      *)
(* frame into the ring between ETH_X_Tail and ETH_X_Head, the MAC sends    *)
(* frames from ETH_X_Head on at its own pace.  Offsets are words from the  *)
(* ring's first word (Dilimiter); lengths are bytes, as in the code.       *)
(*                                                                         *)
(* The MAC runs between any two steps of EthWriteFrame, which reads        *)
(* ETH_X_Head once, at its start, and moves ETH_X_Tail at its very end.    *)
(***************************************************************************)
EXTENDS Integers, Sequences

CONSTANTS
    Ring,     \* (MDR_ETHERNET1_BUF_SIZE - Dilimiter) / 4: words in the ring
    Lens,     \* lengths in bytes of the frames lwIP sends
    Ids       \* frame contents, told apart by a name

ASSUME RingAssumption == Ring \in Nat /\ Ring > 2
ASSUME LensAssumption == Lens \subseteq Nat \ {0}

VARIABLES
    X_Head, X_Tail,   \* the MAC's pointers
    mem,              \* the words of the ring
    pc,               \* where EthWriteFrame is
    frame,            \* its arguments Frame and Len
    head,             \* X_Head as it read it
    dst,              \* where it stopped writing
    out,              \* the frame the MAC sent last
    owed              \* frames answered with ERR_OK and not sent yet

vars == <<X_Head, X_Tail, mem, pc, frame, head, dst, out, owed>>

\* Words that hold len bytes: (Len+3)/4.
Words(len) == (len + 3) \div 4

\* Words of the ring that a frame takes: length, data, status.
Needed(len) == Words(len) + 2

\* A frame: its length and its words.
FrameOf(id, len) == [len |-> len, words |-> [j \in 1..Words(len) |-> <<id, j>>]]
Frames == {FrameOf(id, len) : id \in Ids, len \in Lens}

None == <<>>
Status == <<"status", 0>>

\* FlushFIFO: zeros.
FlushFIFO == [i \in 0..(Ring - 1) |-> Status]

\* EthInit: equal pointers, a clean ring.
Init ==
    /\ X_Head = 0 /\ X_Tail = 0
    /\ mem = FlushFIFO
    /\ pc = "Idle" /\ frame = None /\ head = 0 /\ dst = 0
    /\ out = None /\ owed = 0

-----------------------------------------------------------------------------
(* EthWriteFrame, as low_level_output calls it.                            *)

\* space[0], the free words from the tail up to the head or the end.
Space0(h, t) == IF h > t THEN h - t ELSE Ring - t
\* space[1], the free words from the start of the ring up to the head.
Space1(h, t) == IF h > t THEN 0 ELSE h

\* Mutant: the status word behind the frame is not reckoned with.
FitsNoStatus(len, h, t) == len <= 4 * (Space0(h, t) + Space1(h, t)) - 4

\* Unless Len > (space[0]+space[1]-8)
Fits(len, h, t) == len <= 4 * (Space0(h, t) + Space1(h, t)) - 8

\* "if (dst > BUF_SIZE-4) dst = the start of the ring"
Wrap(p) == IF p > Ring - 1 THEN 0 ELSE p

\* The call: the pointers are read and the room is reckoned.
Accept(id, len) ==
    /\ pc = "Idle"
    /\ Fits(len, X_Head, X_Tail)
    /\ frame' = FrameOf(id, len) /\ head' = X_Head
    /\ pc' = "Copy"
    /\ UNCHANGED <<X_Head, X_Tail, mem, dst, out, owed>>

\* "return ERR_MEM": nothing changes, and nobody tries again.
Refuse(len) ==
    /\ pc = "Idle"
    /\ ~Fits(len, X_Head, X_Tail)
    /\ UNCHANGED vars

\* Mutant: the part at the start of the ring begins one word late.
PlaceLate(i) ==
    LET first == Wrap(X_Tail + 1)
        room == Space0(head, X_Tail) - 1
    IN  IF frame.len <= 4 * room \/ i < room THEN first + i ELSE i - room + 1

\* The word of the ring that the frame's i-th word (from 0) goes to: straight
\* on if the frame fits behind the length word, else continued at the start.
Place(i) ==
    LET first == Wrap(X_Tail + 1)
        room == Space0(head, X_Tail) - 1
    IN  IF frame.len <= 4 * room \/ i < room THEN first + i ELSE i - room

\* The length, the words, a zero status word.
Copy ==
    /\ pc = "Copy"
    /\ LET n == Words(frame.len)
           last == Wrap(Place(n - 1) + 1)
       IN  /\ mem' = [[p \in 0..(Ring - 1) |->
                          IF \E i \in 0..(n - 1) : p = Place(i)
                          THEN frame.words[1 + CHOOSE i \in 0..(n - 1) : p = Place(i)]
                          ELSE mem[p]]
                      EXCEPT ![X_Tail] = <<"len", frame.len>>, ![last] = Status]
           /\ dst' = Wrap(last + 1)
    /\ pc' = "Publish"
    /\ UNCHANGED <<X_Head, X_Tail, frame, head, out, owed>>

\* ETH_X_Tail = dst; return ERR_OK.
Publish ==
    /\ pc = "Publish"
    /\ X_Tail' = dst
    /\ owed' = owed + 1
    /\ pc' = "Idle" /\ frame' = None /\ head' = 0 /\ dst' = 0
    /\ UNCHANGED <<X_Head, mem, out>>

-----------------------------------------------------------------------------
(* The MAC (external).                                                     *)

\* The frame that starts at word p.
FrameAt(p) ==
    [len |-> mem[p][2],
     words |-> [j \in 1..Words(mem[p][2]) |-> mem[(p + j) % Ring]]]

\* The MAC takes equal pointers for an empty ring; else it sends the frame at
\* X_Head and steps over it and its status word.
MacSend ==
    /\ X_Head # X_Tail
    /\ out' = FrameAt(X_Head)
    /\ X_Head' = (X_Head + Needed(mem[X_Head][2])) % Ring
    /\ owed' = owed - 1
    /\ UNCHANGED <<X_Tail, mem, pc, frame, head, dst>>

-----------------------------------------------------------------------------

Next ==
    \/ \E id \in Ids, len \in Lens : Accept(id, len)
    \/ \E len \in Lens : Refuse(len)
    \/ Copy \/ Publish \/ MacSend

\* EthWriteFrame runs to its end, and the link is up: the MAC sends.
Fairness == WF_vars(Copy \/ Publish) /\ WF_vars(MacSend)

Spec == Init /\ [][Next]_vars /\ Fairness

-----------------------------------------------------------------------------
(* Properties.                                                             *)

\* The frames in the ring, as the MAC would send them from here on; q[k] are
\* the ones in the last k words before the tail.
Queue ==
    LET q[k \in 0..(Ring - 1)] ==
            IF k = 0 THEN <<>>
            ELSE LET f == FrameAt((X_Tail - k) % Ring)
                 IN  <<f>> \o (IF Needed(f.len) <= k THEN q[k - Needed(f.len)] ELSE <<>>)
    IN  q[(X_Tail - X_Head) % Ring]

TypeOK ==
    /\ X_Head \in 0..(Ring - 1) /\ X_Tail \in 0..(Ring - 1)
    /\ head \in 0..(Ring - 1) /\ dst \in 0..(Ring - 1)
    /\ \A p \in 0..(Ring - 1) : mem[p] \in (Ids \cup {"len", "status"}) \X Nat
    /\ pc \in {"Idle", "Copy", "Publish"}
    /\ frame \in Frames \cup {None} /\ out \in Frames \cup {None}
    /\ owed \in Nat

\* EthWriteFrame and the MAC together are a queue: each accepted frame leaves
\* whole, once and in order wherever the ring's end cuts it, and whatever the
\* MAC does between the steps of EthWriteFrame (ethernetif.c:267-333).
FQ == INSTANCE FrameQueue WITH queue <- Queue, out <- out, Frames <- Frames
ImplementsFrameQueue == FQ!Spec

\* ethernetif.c:379 "@return ERR_OK if the packet could be sent": then the
\* frames answered with ERR_OK are those that the MAC still has before it.
OkMeansQueued == Len(Queue) = owed
=============================================================================
