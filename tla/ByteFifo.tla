------------------------------ MODULE ByteFifo ------------------------------
(***************************************************************************)
(* What a ring buffer promises one writer and one reader: the bytes come   *)
(* out in the order in which they were put in, and Capacity of them fit.   *)
(***************************************************************************)
EXTENDS Naturals, Sequences

CONSTANTS Capacity, Byte

VARIABLES
    fifo,  \* the bytes that were written and not yet read
    got    \* what the last call of the reader gave it; nothing while it is in one

FifoInit == fifo = <<>> /\ got = <<>>

Put(bytes) ==
    /\ Len(fifo) + Len(bytes) <= Capacity
    /\ fifo' = fifo \o bytes
    /\ UNCHANGED got

Call == got' = <<>> /\ UNCHANGED fifo

Take(n) ==
    /\ got' = SubSeq(fifo, 1, n)
    /\ fifo' = SubSeq(fifo, n + 1, Len(fifo))

Drop(n) ==
    /\ fifo' = SubSeq(fifo, n + 1, Len(fifo))
    /\ UNCHANGED got

Peek(skip, n) ==
    /\ got' = SubSeq(fifo, skip + 1, skip + n)
    /\ UNCHANGED fifo

Reset == fifo' = <<>> /\ UNCHANGED got

FifoNext ==
    \/ \E n \in 1 .. Capacity : \E bytes \in [1 .. n -> Byte] : Put(bytes)
    \/ Call
    \/ \E n \in 0 .. Len(fifo) : Take(n) \/ Drop(n) \/ \E skip \in 0 .. Len(fifo) - n : Peek(skip, n)
    \/ Reset

FifoSpec == FifoInit /\ [][FifoNext]_<<fifo, got>>
=============================================================================
