------------------------------ MODULE ByteFifo ------------------------------
(***************************************************************************)
(* What mqtt/ringbuf.c promises its callers: a bounded first-in first-out  *)
(* queue of bytes.  A put into a full ring changes nothing; a get from an  *)
(* empty one reports -1.                                                   *)
(***************************************************************************)
EXTENDS Integers, Sequences

CONSTANTS Byte,      \* the values of a U8
          Capacity   \* RINGBUF.size

VARIABLES fifo,      \* the bytes put and not yet got, oldest first
          got        \* what the latest get returned; -1 when there was nothing

Init == fifo = << >> /\ got = -1

Put(c) == /\ Len(fifo) < Capacity
          /\ fifo' = Append(fifo, c)
          /\ UNCHANGED got

Get == /\ fifo # << >>
       /\ got' = Head(fifo)
       /\ fifo' = Tail(fifo)

GetNothing == /\ fifo = << >>
              /\ got' = -1
              /\ UNCHANGED fifo

Next == \/ \E c \in Byte : Put(c)
        \/ Get
        \/ GetNothing

Spec == Init /\ [][Next]_<<fifo, got>>
=============================================================================
