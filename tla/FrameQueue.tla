----------------------------- MODULE FrameQueue -----------------------------
(***************************************************************************)
(* What the Ethernet driver owes its two sides in each direction: frames   *)
(* that were accepted come out once, whole and in order, and none stays    *)
(* inside for ever.  The abstract counterpart of EthTx and EthRx.          *)
(***************************************************************************)
EXTENDS Sequences

CONSTANT Frames

VARIABLES queue,   \* accepted and not yet delivered
          out      \* the frame delivered last

\* A frame is accepted.  One that is refused or dropped changes nothing.
Put == \E f \in Frames : queue' = Append(queue, f) /\ UNCHANGED out

\* The oldest frame is delivered.
Get ==
    /\ queue # <<>>
    /\ out' = Head(queue)
    /\ queue' = Tail(queue)

Init == queue = <<>> /\ out \in Frames \cup {<<>>}

\* Whole, once and in order.
Safe == Init /\ [][Put \/ Get]_<<queue, out>>

Spec == Safe /\ WF_<<queue, out>>(Get)
=============================================================================
