------------------------------ MODULE FrameFifo ------------------------------
(***************************************************************************)
(* What the cloud relay's frame queue promises to the LAN encoder that     *)
(* feeds it (src/src/cloud_stream.c): a bounded FIFO of access units that  *)
(* may lose frames, but only the oldest one to make room for a newer one,  *)
(* the newcomer itself, or all of them when the share is paused.  What it  *)
(* does deliver is delivered once, in encoding order, with the bytes that  *)
(* were fed.                                                               *)
(***************************************************************************)
EXTENDS Naturals, Sequences

CONSTANT Cap            \* frames the FIFO can hold

VARIABLES
    fifo,               \* frames accepted and not yet taken, oldest first
    delivered,          \* frames taken by the relay sender, in order
    newest,             \* id of the newest frame offered so far
    paused              \* the share is paused

fifoVars == <<fifo, delivered, newest, paused>>

Init ==
    /\ fifo = <<>>
    /\ delivered = <<>>
    /\ newest = 0
    /\ paused = FALSE

\* An encoded access unit is offered; ids number them in encoding order.
Offer(f) ==
    /\ f.id > newest
    /\ newest' = f.id
    /\ UNCHANGED <<fifo, delivered, paused>>

Older(s, f) == \A i \in 1..Len(s) : s[i].id < f.id

\* The frame last offered is stored, once; a full FIFO makes room by dropping
\* its oldest frame, which it may not do to a keyframe for the sake of a frame
\* that is none.
Accept(f) ==
    /\ f.id = newest
    /\ Older(fifo, f) /\ Older(delivered, f)
    /\ IF Len(fifo) < Cap
         THEN fifo' = Append(fifo, f)
         ELSE /\ Head(fifo).key => f.key
              /\ fifo' = Append(Tail(fifo), f)
    /\ UNCHANGED <<delivered, newest, paused>>

\* Room was made, but there was no memory for the newcomer.
DropOldest ==
    /\ Len(fifo) = Cap
    /\ fifo' = Tail(fifo)
    /\ UNCHANGED <<delivered, newest, paused>>

PauseOrResume ==
    /\ paused' = ~paused
    /\ UNCHANGED <<fifo, delivered, newest>>

\* Only a pause empties the FIFO, at the latest when it ends.
Flush ==
    /\ paused /\ paused' \in BOOLEAN
    /\ fifo' = <<>>
    /\ UNCHANGED <<delivered, newest>>

Deliver ==
    /\ fifo # <<>>
    /\ delivered' = Append(delivered, Head(fifo))
    /\ fifo' = Tail(fifo)
    /\ UNCHANGED <<newest, paused>>

Next ==
    \/ \E key \in BOOLEAN :
          Offer([id |-> newest + 1, key |-> key])
    \/ \E key \in BOOLEAN : Accept([id |-> newest, key |-> key])
    \/ DropOldest
    \/ PauseOrResume
    \/ Flush
    \/ Deliver

Spec == Init /\ [][Next]_fifoVars

\* What follows from it for the viewer: no frame comes twice, and none after a
\* newer one.
InOrder ==
    \A i, j \in 1..Len(delivered) : i < j => delivered[i].id < delivered[j].id
==============================================================================
