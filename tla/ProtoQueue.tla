----------------------------- MODULE ProtoQueue -----------------------------
(***************************************************************************)
(* The outgoing message queue of esp_mqtt_proj: mqtt/queue.c over          *)
(* mqtt/proto.c, used by the MQTT_Publish family, by the acknowledgements  *)
(* of mqtt_tcpclient_recv and by MQTT_Task.  A message is framed           *)
(*   7E  body with 7D, 7E and 7F sent as 7D, b ^ 20  7F                    *)
(* byte by byte into the ring.  A put that meets a full ring stops where   *)
(* it is and leaves the fragment in the ring: there is no roll-back, and   *)
(* the parser has to find its way past it.                                 *)
(*                                                                         *)
(* One step is one RINGBUF call.  The ring is the queue of module ByteFifo *)
(* (RingBuf implements it).  The client's code runs on one thread and each *)
(* of these calls completes before the next one starts.                    *)
(***************************************************************************)
EXTENDS Integers, Sequences

CONSTANTS Messages,   \* the packets mqtt_msg.c builds
          Size,       \* QUEUE_BUFFER_SIZE
          MaxLen      \* MQTT_BUF_SIZE: fini_message never exceeds it

Byte == 0 .. 255

ASSUME SizeAssumption == Size \in Nat \ {0, 1}
ASSUME MaxLenAssumption == MaxLen \in Nat \ {0}
ASSUME MessagesAssumption ==
  \A m \in Messages : m \in Seq(Byte) /\ Len(m) \in 1 .. MaxLen

VARIABLES
  fifo,      \* the bytes in the ring
  caller,    \* who is using the queue: "publish", "ack", "task" or "none"
  pc,        \* where in PROTO_AddRb or PROTO_ParseRb that call is
  msg,       \* the packet being put
  pos,       \* how many bytes of it are in the ring
  parser,    \* the PROTO_PARSER on the stack of PROTO_ParseRb
  out,       \* dataBuffer after the latest successful get of MQTT_Task
  refused    \* the latest MQTT_Publish ended in "Serious buffer error"

vars == <<fifo, caller, pc, msg, pos, parser, out, refused>>

Esc   == 125
Begin == 126
End   == 127

\* b ^ 0x20
Flip(b) == IF (b \div 32) % 2 = 1 THEN b - 32 ELSE b + 32

\* Mutant: 7F is left unescaped.
EscapedButEnd == {Esc, Begin}

\* the case labels of PROTO_AddRb
Escaped == {Esc, Begin, End}

\* Mutant: one byte more than the ring holds.
FullTooLate == Len(fifo) > Size

Full == Len(fifo) >= Size

Parsers == [isBegin : {0, 1}, isEsc : {0, 1}, data : Seq(Byte)]

\* PROTO_Init leaves isBegin as it finds it on the stack.
Fresh(garbage) == [isBegin |-> garbage, isEsc |-> 0, data |-> << >>]

TypeOK == /\ fifo \in Seq(Byte) /\ Len(fifo) <= Size
          /\ caller \in {"none", "publish", "ack", "task"}
          /\ pc \in {"idle", "begin", "body", "escaped", "parse"}
          /\ msg \in Messages \cup {<< >>}
          /\ pos \in 0 .. Len(msg)
          /\ parser \in Parsers /\ Len(parser.data) <= MaxLen
          /\ out \in Seq(Byte)
          /\ refused \in BOOLEAN

Init == /\ fifo = << >>
        /\ caller = "none" /\ pc = "idle"
        /\ msg = << >> /\ pos = 0
        /\ parser = Fresh(0)
        /\ out = << >>
        /\ refused = FALSE

-----------------------------------------------------------------------------
\* The three users.

\* MQTT_Publish, MQTT_Subscribe, MQTT_UnSubscribe and MQTT_Ping share the loop
\* "while (QUEUE_Puts == -1) if (QUEUE_Gets == -1) return FALSE".
Publish(m) == /\ pc = "idle"
              /\ caller' = "publish" /\ pc' = "begin"
              /\ msg' = m /\ pos' = 0 /\ refused' = FALSE
              /\ UNCHANGED <<fifo, parser, out>>

\* PUBACK, PUBREC, PUBREL, PUBCOMP and PINGRESP: one QUEUE_Puts, its failure
\* only logged.
Acknowledge(m) == /\ pc = "idle"
                  /\ caller' = "ack" /\ pc' = "begin"
                  /\ msg' = m /\ pos' = 0
                  /\ UNCHANGED <<fifo, parser, out, refused>>

\* MQTT_Task in MQTT_DATA.
Fetch(garbage) == /\ pc = "idle"
                  /\ fifo # << >>                      \* QUEUE_IsEmpty
                  /\ caller' = "task" /\ pc' = "parse"
                  /\ parser' = Fresh(garbage)
                  /\ UNCHANGED <<fifo, msg, pos, out, refused>>

\* The locals of the call go out of scope.
Return == /\ caller' = "none" /\ pc' = "idle"
          /\ msg' = << >> /\ pos' = 0 /\ parser' = Fresh(0)

-----------------------------------------------------------------------------
\* PROTO_AddRb.

Store(b) == ~Full /\ fifo' = Append(fifo, b)

PutBegin == /\ pc = "begin"
            /\ Store(Begin)
            /\ pc' = "body"
            /\ UNCHANGED <<caller, msg, pos, parser, out, refused>>

PutPlain == /\ pc = "body" /\ pos < Len(msg) /\ msg[pos + 1] \notin Escaped
            /\ Store(msg[pos + 1])
            /\ pos' = pos + 1
            /\ UNCHANGED <<caller, pc, msg, parser, out, refused>>

PutEsc == /\ pc = "body" /\ pos < Len(msg) /\ msg[pos + 1] \in Escaped
          /\ Store(Esc)
          /\ pc' = "escaped"
          /\ UNCHANGED <<caller, msg, pos, parser, out, refused>>

PutFlipped == /\ pc = "escaped"
              /\ Store(Flip(msg[pos + 1]))
              /\ pc' = "body" /\ pos' = pos + 1
              /\ UNCHANGED <<caller, msg, parser, out, refused>>

PutEnd == /\ pc = "body" /\ pos = Len(msg)
          /\ Store(End)
          /\ Return
          /\ UNCHANGED <<out, refused>>

\* Mutant: MQTT_Publish puts again without dropping anything.
PutFailsRetries(garbage) ==
  /\ pc \in {"begin", "body", "escaped"} /\ Full
  /\ IF caller = "publish"
     THEN pc' = "begin" /\ pos' = 0 /\ UNCHANGED <<caller, msg, parser>>
     ELSE Return
  /\ UNCHANGED <<fifo, out, refused>>

\* Mutant: after the drop MQTT_Publish goes on where its put stopped.
PutFailsResumes(garbage) ==
  /\ pc \in {"begin", "body", "escaped"} /\ Full
  /\ IF caller = "publish"
     THEN pc' = "parse" /\ parser' = Fresh(garbage) /\ UNCHANGED <<caller, msg, pos>>
     ELSE Return
  /\ UNCHANGED <<fifo, out, refused>>

\* RINGBUF_Put refuses: the fragment stays.  MQTT_Publish drops the oldest
\* frame next, an acknowledgement is given up.
PutFails(garbage) ==
  /\ pc \in {"begin", "body", "escaped"} /\ Full
  /\ IF caller = "publish"
     THEN /\ pc' = "parse" /\ pos' = 0
          /\ parser' = Fresh(garbage)
          /\ UNCHANGED <<caller, msg>>
     ELSE Return
  /\ UNCHANGED <<fifo, out, refused>>

-----------------------------------------------------------------------------
\* PROTO_ParseRb and PROTO_ParseByte.

\* Mutant: 7E does not clear isEsc.
ParseByteKeepsEsc(p, c) ==
  IF c = Begin THEN [p EXCEPT !.data = << >>, !.isBegin = 1]
  ELSE IF c = Esc THEN [p EXCEPT !.isEsc = 1]
  ELSE IF p.isBegin = 0 THEN p
  ELSE [isBegin |-> p.isBegin, isEsc |-> 0,
        data |-> IF Len(p.data) >= MaxLen THEN p.data
                 ELSE Append(p.data, IF p.isEsc = 1 THEN Flip(c) ELSE c)]

\* The cases of PROTO_ParseByte other than 7F; data past MaxLen is cut off.
ParseByte(p, c) ==
  IF c = Begin THEN [isBegin |-> 1, isEsc |-> 0, data |-> << >>]
  ELSE IF c = Esc THEN [p EXCEPT !.isEsc = 1]
  ELSE IF p.isBegin = 0 THEN p
  ELSE [isBegin |-> p.isBegin, isEsc |-> 0,
        data |-> IF Len(p.data) >= MaxLen THEN p.data
                 ELSE Append(p.data, IF p.isEsc = 1 THEN Flip(c) ELSE c)]

Parse == /\ pc = "parse" /\ fifo # << >> /\ Head(fifo) # End
         /\ parser' = ParseByte(parser, Head(fifo))
         /\ fifo' = Tail(fifo)
         /\ UNCHANGED <<caller, pc, msg, pos, out, refused>>

\* 7F ends a frame: MQTT_Publish throws the message away and puts again,
\* MQTT_Task sends it.
ParseEnd == /\ pc = "parse" /\ fifo # << >> /\ Head(fifo) = End
            /\ fifo' = Tail(fifo)
            /\ IF caller = "publish"
               THEN /\ pc' = "begin" /\ parser' = Fresh(0)
                    /\ UNCHANGED <<caller, msg, pos, out>>
               ELSE Return /\ out' = parser.data
            /\ UNCHANGED refused

\* The ring ran dry before a 7F.
ParseFails == /\ pc = "parse" /\ fifo = << >>
              /\ Return
              /\ refused' = (caller = "publish")
              /\ UNCHANGED <<fifo, out>>

-----------------------------------------------------------------------------
\* The rest of a call, once it has begun.
Continue == \/ PutBegin \/ PutPlain \/ PutEsc \/ PutFlipped \/ PutEnd
            \/ \E garbage \in {0, 1} : PutFails(garbage)
            \/ Parse \/ ParseEnd \/ ParseFails

Next == \/ \E m \in Messages : Publish(m) \/ Acknowledge(m)
        \/ \E garbage \in {0, 1} : Fetch(garbage)
        \/ Continue

Spec == Init /\ [][Next]_vars

\* The processor finishes the call it is in.
FairSpec == Spec /\ WF_vars(Continue)

-----------------------------------------------------------------------------
\* PROTO_ParseRb over the bytes s, frame after frame: the messages it returns
\* and the parser it is left with.
After(acc, c) ==
  IF c = End THEN [msgs |-> Append(acc.msgs, acc.p.data), p |-> Fresh(0)]
  ELSE [msgs |-> acc.msgs, p |-> ParseByte(acc.p, c)]

Scan(p, s) ==
  LET scan[n \in 0 .. Len(s)] ==
        IF n = 0 THEN [msgs |-> << >>, p |-> p] ELSE After(scan[n - 1], s[n])
  IN  scan[Len(s)]

\* What the parser would return from the bytes in the ring.
Frames == Scan(IF pc = "parse" THEN parser ELSE Fresh(0), fifo).msgs

\* The message queue that the ring, its fragments and a half-done get stand for.
Queue == INSTANCE MessageQueue WITH queue <- Frames

\* Frames come out whole and in order, whatever fragments lie between them and
\* wherever a put was cut short (even between 7D and the byte it escapes).
QueueSpec == Queue!Spec

\* Between two calls the ring is empty or starts with 7E, and every 7F in it is
\* followed by 7E: so a get never starts inside a frame, and the isBegin that
\* PROTO_Init leaves uninitialized is always set before it is read.
FramesAligned ==
  /\ fifo # << >> => fifo[1] = Begin \/ (pc = "parse" /\ parser.isBegin = 1)
  /\ \A i \in 1 .. Len(fifo) - 1 : fifo[i] = End => fifo[i + 1] = Begin

\* A call keeps its word, however many failed puts and drops it takes.  When
\* MQTT_Publish returns TRUE, its own packet stands whole behind every other
\* message; when it returns FALSE, not one message is left in the queue.  An
\* acknowledgement that meets a full ring takes no message away.
CallsKeepTheirWord ==
  [][/\ caller = "publish" /\ pc' = "idle" =>
          Frames' = IF refused' THEN << >> ELSE Append(Frames, msg)
     /\ caller = "ack" => Frames' \in {Frames, Append(Frames, msg)}]_vars

\* The loop in MQTT_Publish ends, however often its puts fail.
CallsReturn == pc # "idle" ~> pc = "idle"
=============================================================================
