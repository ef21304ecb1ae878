---------------------------- MODULE MessageQueue ----------------------------
(***************************************************************************)
(* What mqtt/queue.c promises the MQTT client: messages come out whole and *)
(* in the order they were accepted.  Under pressure the oldest ones may be *)
(* dropped, but a message is never torn, merged, duplicated or invented.   *)
(***************************************************************************)
EXTENDS Sequences

CONSTANT Messages

VARIABLES queue,    \* accepted and neither delivered nor dropped, oldest first
          out       \* the message MQTT_Task was handed last

Init == queue = << >> /\ out = << >>

Accept(m) == queue' = Append(queue, m) /\ UNCHANGED out

Drop == queue # << >> /\ queue' = Tail(queue) /\ UNCHANGED out

Deliver == queue # << >> /\ queue' = Tail(queue) /\ out' = Head(queue)

Next == \/ \E m \in Messages : Accept(m)
        \/ Drop
        \/ Deliver

Spec == Init /\ [][Next]_<<queue, out>>
=============================================================================
