------------------------------- MODULE RingBuf -------------------------------
(***************************************************************************)
(* The byte ring of esp_mqtt_proj, mqtt/ringbuf.c.  The pointers p_r and   *)
(* p_w are offsets from p_o; fill_cnt alone tells a full ring from an      *)
(* empty one.  RINGBUF_Put and RINGBUF_Get run to completion: the SDK runs *)
(* every callback and task of the client on one thread.                    *)
(***************************************************************************)
EXTENDS Integers, Sequences

CONSTANTS U8,        \* the values of a byte
          RingSize   \* r->size, QUEUE_BUFFER_SIZE in the client

\* RINGBUF_Init refuses size < 2
ASSUME RingSizeAssumption == RingSize \in Nat \ {0, 1}
ASSUME U8Assumption == 0 \in U8

VARIABLES mem,       \* *r->p_o .. *(r->p_o + size - 1)
          p_r,       \* read offset
          p_w,       \* write offset
          fill_cnt,
          got        \* *c and the return value of the latest RINGBUF_Get

ringVars == <<mem, p_r, p_w, fill_cnt, got>>

Offsets == 0 .. RingSize - 1

\* "if (p >= r->p_o + r->size) p = r->p_o", after the pointer was incremented
Bump(p) == IF p + 1 >= RingSize THEN 0 ELSE p + 1

RingTypeOK == /\ mem \in [Offsets -> U8]
              /\ p_r \in Offsets
              /\ p_w \in Offsets
              /\ fill_cnt \in 0 .. RingSize
              /\ got \in U8 \cup {-1}

\* os_zalloc clears the memory before RINGBUF_Init
RINGBUF_Init == /\ mem = [o \in Offsets |-> 0]
                /\ p_r = 0
                /\ p_w = 0
                /\ fill_cnt = 0
                /\ got = -1

\* Mutant: "fill_cnt > size" for "fill_cnt >= size".
PutOneTooMany(c) == /\ fill_cnt <= RingSize
                    /\ fill_cnt' = fill_cnt + 1
                    /\ mem' = [mem EXCEPT ![p_w] = c]
                    /\ p_w' = Bump(p_w)
                    /\ UNCHANGED <<p_r, got>>

RINGBUF_Put(c) == /\ fill_cnt < RingSize
                  /\ fill_cnt' = fill_cnt + 1
                  /\ mem' = [mem EXCEPT ![p_w] = c]
                  /\ p_w' = Bump(p_w)
                  /\ UNCHANGED <<p_r, got>>

RINGBUF_Get == /\ fill_cnt > 0
               /\ fill_cnt' = fill_cnt - 1
               /\ got' = mem[p_r]
               /\ p_r' = Bump(p_r)
               /\ UNCHANGED <<mem, p_w>>

GetEmpty == /\ fill_cnt <= 0
            /\ got' = -1
            /\ UNCHANGED <<mem, p_r, p_w, fill_cnt>>

RingNext == \/ \E c \in U8 : RINGBUF_Put(c)
            \/ RINGBUF_Get
            \/ GetEmpty

RingSpec == RINGBUF_Init /\ [][RingNext]_ringVars

-----------------------------------------------------------------------------
\* The slot n places after the read pointer.
Slot(n) == IF p_r + n < RingSize THEN p_r + n ELSE p_r + n - RingSize

\* Refinement mapping: what is in the ring, oldest first.
Contents == [n \in 1 .. fill_cnt |-> mem[Slot(n - 1)]]

Fifo == INSTANCE ByteFifo WITH fifo <- Contents, Byte <- U8, Capacity <- RingSize
FifoSpec == Fifo!Spec

\* The write pointer never overtakes the read pointer: after any sequence of
\* calls, wraps included, it is exactly fill_cnt slots ahead of it, so a full
\* and an empty ring (p_r = p_w) are told apart by fill_cnt only.
PointersAgree ==
  /\ fill_cnt < RingSize => p_w = Slot(fill_cnt)
  /\ fill_cnt >= RingSize => p_w = p_r
=============================================================================
