-------------------------- MODULE ProtoQueueProofs --------------------------
(***************************************************************************)
(* For every ring size, buffer size and set of packets: fragments of       *)
(* failed puts never leave the ring out of step with the parser, and the   *)
(* ring with its fragments is the message queue of module MessageQueue.    *)
(* The last part is about the ring itself: for every size and byte set its *)
(* pointers stay consistent and it is the bounded first-in first-out queue *)
(* its callers take it for.                                                *)
(***************************************************************************)
EXTENDS ProtoQueue, RingBuf, WellFoundedInduction, TLAPS

USE SizeAssumption, MaxLenAssumption

Last == fifo[Len(fifo)]

\* While PROTO_AddRb is inside a frame the ring ends in that frame, so not in
\* 7F; and a flipped byte is never put for one that needs no escaping.
Writing ==
  /\ pc \in {"body", "escaped"} => /\ fifo # << >> /\ Last # End
                                   /\ msg \in Messages
  /\ pc = "escaped" => pos < Len(msg) /\ msg[pos + 1] \in Escaped
  /\ caller = "publish" => msg \in Messages
  /\ pc = "begin" => msg \in Messages

Inv == TypeOK /\ FramesAligned /\ Writing

\* Flipping bit 5 stays within a byte and never yields a byte that needs
\* escaping, when the byte flipped is one that does.
LEMMA FlipByte ==
  ASSUME NEW b \in Byte
  PROVE  /\ Flip(b) \in Byte
         /\ b \in Escaped => Flip(b) \notin Escaped
  BY DEF Byte, Flip, Escaped, Esc, Begin, End

\* PROTO_ParseByte keeps the parser well formed and its buffer within bounds.
LEMMA ParseByteType ==
  ASSUME NEW p \in Parsers, Len(p.data) <= MaxLen, NEW c \in Byte
  PROVE  /\ ParseByte(p, c) \in Parsers
         /\ Len(ParseByte(p, c).data) <= MaxLen
         /\ p.isBegin = 1 \/ c = Begin => ParseByte(p, c).isBegin = 1
<1>1. p.data \in Seq(Byte) /\ Flip(c) \in Byte
  BY FlipByte DEF Parsers
<1>2. CASE c = Begin
  BY <1>2 DEF ParseByte, Parsers
<1>3. CASE c # Begin /\ (c = Esc \/ p.isBegin = 0)
  BY <1>3, <1>1 DEF ParseByte, Parsers
<1>4. CASE c # Begin /\ c # Esc /\ p.isBegin # 0
  <2> DEFINE d == IF Len(p.data) >= MaxLen THEN p.data
                  ELSE Append(p.data, IF p.isEsc = 1 THEN Flip(c) ELSE c)
  <2>1. d \in Seq(Byte) /\ Len(d) <= MaxLen
    BY <1>1
  <2>2. ParseByte(p, c) = [isBegin |-> p.isBegin, isEsc |-> 0, data |-> d]
    BY <1>4 DEF ParseByte
  <2> HIDE DEF d
  <2> QED BY <2>1, <2>2, <1>4 DEF Parsers
<1> QED BY <1>2, <1>3, <1>4

LEMMA FreshType == \A g \in {0, 1} : Fresh(g) \in Parsers /\ Len(Fresh(g).data) = 0
  BY DEF Fresh, Parsers

\* Appending a byte keeps every 7F followed by 7E when that byte is 7E or the
\* ring does not end in 7F.
LEMMA AppendAligned ==
  ASSUME NEW s \in Seq(Byte), NEW b \in Byte,
         \A i \in 1 .. Len(s) - 1 : s[i] = End => s[i + 1] = Begin,
         b = Begin \/ (s # << >> /\ s[Len(s)] # End),
         NEW t, t = Append(s, b)
  PROVE  /\ t \in Seq(Byte) /\ Len(t) = Len(s) + 1
         /\ \A i \in 1 .. Len(t) - 1 : t[i] = End => t[i + 1] = Begin
         /\ t # << >> /\ t[Len(t)] = b
         /\ t[1] = IF s = << >> THEN b ELSE s[1]
  OBVIOUS

\* Taking a byte keeps it so too, and what follows a 7F is a 7E.
LEMMA TailAligned ==
  ASSUME NEW s \in Seq(Byte), s # << >>,
         \A i \in 1 .. Len(s) - 1 : s[i] = End => s[i + 1] = Begin,
         NEW t, t = Tail(s)
  PROVE  /\ t \in Seq(Byte) /\ Len(t) = Len(s) - 1
         /\ \A i \in 1 .. Len(t) - 1 : t[i] = End => t[i + 1] = Begin
         /\ s[1] = End /\ t # << >> => t[1] = Begin
  OBVIOUS

LEMMA InitInv == Init => Inv
<1> SUFFICES ASSUME Init PROVE Inv
  OBVIOUS
<1>1. TypeOK
  <2>1. parser \in Parsers /\ Len(parser.data) = 0
    BY FreshType DEF Init
  <2>2. fifo = << >> /\ msg = << >> /\ out = << >> /\ pos = 0
    BY DEF Init
  <2>3. fifo \in Seq(Byte) /\ Len(fifo) <= Size
    BY <2>2
  <2>4. out \in Seq(Byte) /\ pos \in 0 .. Len(msg)
    BY <2>2
  <2>5. msg \in Messages \cup {<< >>}
    BY <2>2, Zenon
  <2>6. Len(parser.data) <= MaxLen
    BY <2>1
  <2>7. /\ caller \in {"none", "publish", "ack", "task"} /\ refused \in BOOLEAN
        /\ pc \in {"idle", "begin", "body", "escaped", "parse"}
    BY DEF Init
  <2> QED BY <2>1, <2>3, <2>4, <2>5, <2>6, <2>7 DEF TypeOK
<1>2. FramesAligned /\ Writing
  BY DEF Init, FramesAligned, Writing
<1> QED BY <1>1, <1>2 DEF Inv

\* A call that starts: nothing is in the ring that was not there.
LEMMA StartInv ==
  ASSUME Inv,
         \/ \E m \in Messages : Publish(m) \/ Acknowledge(m)
         \/ \E garbage \in {0, 1} : Fetch(garbage)
  PROVE  Inv'
<1>1. ASSUME NEW m \in Messages, Publish(m) \/ Acknowledge(m) PROVE Inv'
  <2>1. /\ pc = "idle" /\ pc' = "begin" /\ msg' = m /\ pos' = 0
        /\ caller' \in {"publish", "ack"} /\ refused' \in BOOLEAN
        /\ UNCHANGED <<fifo, parser, out>>
    BY <1>1 DEF Publish, Acknowledge, Inv, TypeOK
  <2>2. TypeOK'
    BY <2>1, MessagesAssumption DEF Inv, TypeOK
  <2>3. FramesAligned' /\ Writing'
    BY <2>1 DEF Inv, FramesAligned, Writing
  <2> QED BY <2>2, <2>3 DEF Inv
<1>2. ASSUME NEW garbage \in {0, 1}, Fetch(garbage) PROVE Inv'
  BY <1>2, FreshType DEF Fetch, Inv, TypeOK, FramesAligned, Writing, Last
<1> QED BY <1>1, <1>2

\* Every byte PROTO_AddRb stores.
LEMMA PutInv ==
  ASSUME Inv, PutBegin \/ PutPlain \/ PutEsc \/ PutFlipped \/ PutEnd
  PROVE  Inv'
<1> USE DEF Inv, TypeOK, FramesAligned, Writing, Last, Store, Full
<1>1. CASE PutBegin
  <2>1. Begin \in Byte /\ Begin # End
    BY DEF Begin, End, Byte
  <2>2. /\ pc' = "body" /\ fifo' = Append(fifo, Begin) /\ Len(fifo) < Size
        /\ msg \in Messages
        /\ UNCHANGED <<caller, msg, pos, parser, out, refused>>
    BY <1>1 DEF PutBegin
  <2>3. /\ fifo' \in Seq(Byte) /\ Len(fifo') = Len(fifo) + 1
        /\ \A i \in 1 .. Len(fifo') - 1 : fifo'[i] = End => fifo'[i + 1] = Begin
        /\ fifo' # << >> /\ fifo'[Len(fifo')] = Begin
        /\ fifo'[1] = IF fifo = << >> THEN Begin ELSE fifo[1]
    BY <2>1, <2>2, AppendAligned
  <2>4. TypeOK'
    BY <2>2, <2>3
  <2>5. FramesAligned' /\ Writing'
    <3> HIDE DEF TypeOK
    <3> QED BY <1>1, <2>1, <2>2, <2>3 DEF PutBegin
  <2> QED BY <2>4, <2>5
<1>2. CASE PutPlain
  <2>1. msg \in Messages /\ pos < Len(msg) /\ msg[pos + 1] \in Byte /\ msg[pos + 1] # End
    BY <1>2, MessagesAssumption DEF PutPlain, Escaped
  <2> QED BY <1>2, <2>1, AppendAligned DEF PutPlain
<1>3. CASE PutEsc
  <2>1. msg \in Messages /\ pos < Len(msg) /\ Esc \in Byte /\ Esc # End
    BY <1>3 DEF PutEsc, Byte, Esc, End
  <2> QED BY <1>3, <2>1, AppendAligned DEF PutEsc
<1>4. CASE PutFlipped
  <2>1. msg[pos + 1] \in Byte /\ pos < Len(msg)
    BY <1>4, MessagesAssumption DEF PutFlipped
  <2>2. Flip(msg[pos + 1]) \in Byte /\ Flip(msg[pos + 1]) # End
    BY <1>4, <2>1, FlipByte DEF PutFlipped, Escaped
  <2> QED BY <1>4, <2>1, <2>2, AppendAligned DEF PutFlipped
<1>5. CASE PutEnd
  <2>1. End \in Byte
    BY DEF End, Byte
  <2>2. /\ pc' = "idle" /\ fifo' = Append(fifo, End) /\ Len(fifo) < Size
        /\ caller' = "none" /\ msg' = << >> /\ pos' = 0 /\ parser' = Fresh(0)
        /\ fifo # << >> /\ Last # End
        /\ UNCHANGED <<out, refused>>
    BY <1>5 DEF PutEnd, Return
  <2>3. fifo[1] = Begin
    BY <1>5 DEF PutEnd
  <2>4. parser' \in Parsers /\ Len(parser'.data) = 0
    BY <2>2, FreshType
  <2>5. TypeOK'
    <3> HIDE DEF FramesAligned, Writing
    <3>1. fifo' \in Seq(Byte) /\ Len(fifo') <= Size
      BY <2>1, <2>2
    <3>2. pos' \in 0 .. Len(msg') /\ msg' \in Messages \cup {<< >>}
      BY <2>2
    <3> QED BY <2>2, <2>4, <3>1, <3>2
  <2>6. FramesAligned'
    <3> HIDE DEF TypeOK, Writing
    <3>1. fifo \in Seq(Byte)
      BY DEF TypeOK
    <3> QED BY <3>1, <2>1, <2>2, <2>3, AppendAligned
  <2> QED BY <2>2, <2>5, <2>6
<1> QED BY <1>1, <1>2, <1>3, <1>4, <1>5

\* A put that fails leaves its fragment where it is.
LEMMA PutFailsInv ==
  ASSUME Inv, NEW garbage \in {0, 1}, PutFails(garbage)
  PROVE  Inv'
<1>1. CASE caller = "publish"
  BY <1>1, FreshType DEF PutFails, Inv, TypeOK, FramesAligned, Writing, Last
<1>2. CASE caller # "publish"
  BY <1>2, FreshType DEF PutFails, Return, Inv, TypeOK, FramesAligned, Writing, Last
<1> QED BY <1>1, <1>2

\* Every byte PROTO_ParseRb takes.
LEMMA ParseInv ==
  ASSUME Inv, Parse \/ ParseEnd \/ ParseFails
  PROVE  Inv'
<1> USE DEF Inv, TypeOK, FramesAligned, Writing, Last
<1>1. CASE Parse
  <2>1. Head(fifo) \in Byte /\ Head(fifo) = fifo[1]
    BY <1>1 DEF Parse
  <2>2. parser' \in Parsers /\ Len(parser'.data) <= MaxLen /\ parser'.isBegin = 1
    BY <1>1, <2>1, ParseByteType DEF Parse
  <2>3. UNCHANGED <<caller, pc, msg, pos, out, refused>> /\ fifo' = Tail(fifo)
    BY <1>1 DEF Parse
  <2> QED BY <1>1, <2>2, <2>3, TailAligned DEF Parse
<1>2. CASE ParseEnd
  <2>1. Head(fifo) = fifo[1] /\ parser.data \in Seq(Byte)
    BY <1>2 DEF ParseEnd, Parsers
  <2> QED BY <1>2, <2>1, TailAligned, FreshType DEF ParseEnd, Return
<1>3. CASE ParseFails
  BY <1>3, FreshType DEF ParseFails, Return
<1> QED BY <1>1, <1>2, <1>3

LEMMA NextInv == Inv /\ [Next]_vars => Inv'
<1> SUFFICES ASSUME Inv, [Next]_vars PROVE Inv'
  OBVIOUS
<1>1. CASE UNCHANGED vars
  BY <1>1 DEF vars, Inv, TypeOK, FramesAligned, Writing, Last
<1>2. CASE Next
  BY <1>2, StartInv, PutInv, PutFailsInv, ParseInv DEF Next, Continue
<1> QED BY <1>1, <1>2

\* The queue's state stays well formed: the ring never holds more than its
\* size, the parser never more than its buffer.
THEOREM TypeCorrect == Spec => []TypeOK
<1>1. Inv => TypeOK
  BY DEF Inv
<1> QED BY <1>1, InitInv, NextInv, PTL DEF Spec

\* Whatever fragments failed puts leave behind, a get starts on a frame
\* boundary and never reads the uninitialized isBegin.
THEOREM AlwaysAligned == Spec => []FramesAligned
<1>1. Inv => FramesAligned
  BY DEF Inv
<1> QED BY <1>1, InitInv, NextInv, PTL DEF Spec

-----------------------------------------------------------------------------
(* What the parser makes of a sequence of bytes.                           *)

\* A set of numbers that has 0 and the successor of each of its members.
LEMMA Climbs ==
  ASSUME NEW S, 0 \in S, \A n \in Nat : n \in S => n + 1 \in S
  PROVE  Nat \subseteq S
<1> DEFINE out_ == Nat \ S
           less == OpToRel(<, Nat)
<1>1. SUFFICES ASSUME out_ # {} PROVE FALSE
  BY <1>1
<1>2. PICK x \in out_ : \A y \in out_ : ~ (<<y, x>> \in less)
  <2>1. IsWellFoundedOn(less, Nat)
    BY NatLessThanWellFounded
  <2>2. out_ \in SUBSET Nat
    OBVIOUS
  <2> HIDE DEF less, out_
  <2> QED BY <1>1, <2>1, <2>2, WFMin, Zenon
<1>3. x # 0 /\ x - 1 \in Nat
  OBVIOUS
<1>4. <<x - 1, x>> \in less
  BY <1>3 DEF OpToRel
<1>5. x - 1 \in S
  BY <1>2, <1>3, <1>4
<1> QED BY <1>3, <1>5

\* The recursive function of Scan exists, so it satisfies its equation.
LEMMA ScanLoop ==
  ASSUME NEW p, NEW s, Len(s) \in Nat
  PROVE  \E f : /\ f = [i \in 0 .. Len(s) |->
                          IF i = 0 THEN [msgs |-> << >>, p |-> p] ELSE After(f[i - 1], s[i])]
                /\ Scan(p, s) = f[Len(s)]
<1> DEFINE first == [msgs |-> << >>, p |-> p]
           next(x, i) == After(x, s[i])
           Loop(f, n) == f = [i \in 0 .. n |-> IF i = 0 THEN first ELSE next(f[i - 1], i)]
           S == {n \in Nat : \E f : Loop(f, n)}
<1>1. 0 \in S
  <2>1. PICK f : f = [i \in 0 .. 0 |-> first]
    OBVIOUS
  <2>2. Loop(f, 0)
    BY <2>1
  <2> HIDE DEF Loop
  <2> QED BY <2>2
<1>2. ASSUME NEW n \in Nat, n \in S PROVE n + 1 \in S
  <2>1. PICK f : Loop(f, n)
    <3> HIDE DEF Loop
    <3> QED BY <1>2
  <2> HIDE DEF next
  <2>2. PICK r : r = [i \in 0 .. n + 1 |-> IF i = n + 1 THEN next(f[n], n + 1) ELSE f[i]]
    OBVIOUS
  <2>3. \A i \in 0 .. n : r[i] = f[i]
    BY <2>2
  <2>4. r[n + 1] = next(r[n], n + 1)
    BY <2>2
  <2>5. \A i \in 0 .. n : f[i] = (IF i = 0 THEN first ELSE next(f[i - 1], i))
    BY <2>1
  <2>6. r[0] = first
    BY <2>3, <2>5
  <2>7. ASSUME NEW i \in 1 .. n + 1 PROVE r[i] = next(r[i - 1], i)
    <3>1. CASE i = n + 1
      BY <2>4, <3>1
    <3>2. CASE i # n + 1
      <4>1. i \in 0 .. n /\ i - 1 \in 0 .. n /\ i # 0
        BY <3>2
      <4>2. r[i] = f[i] /\ r[i - 1] = f[i - 1] /\ f[i] = next(f[i - 1], i)
        BY <2>3, <2>5, <4>1
      <4> QED BY <4>2
    <3> QED BY <3>1, <3>2
  <2>8. Loop(r, n + 1)
    <3>1. r = [i \in 0 .. n + 1 |-> r[i]]
      BY <2>2
    <3>2. \A i \in 0 .. n + 1 : r[i] = (IF i = 0 THEN first ELSE next(r[i - 1], i))
      <4>1. \A i \in 0 .. n + 1 : i = 0 \/ i \in 1 .. n + 1
        OBVIOUS
      <4> QED BY <2>6, <2>7, <4>1
    <3> QED BY <3>1, <3>2
  <2> HIDE DEF Loop
  <2> QED BY <2>8
<1>3. Len(s) \in S
  <2> HIDE DEF S
  <2> QED BY <1>1, <1>2, Climbs
<1>4. Loop(CHOOSE f : Loop(f, Len(s)), Len(s))
  <2> HIDE DEF Loop
  <2> QED BY <1>3, Zenon
<1>5. Scan(p, s) = (CHOOSE f : Loop(f, Len(s)))[Len(s)]
  BY Zenon DEF Scan
<1> QED BY <1>4, <1>5, Zenon

\* What the loop of Scan goes through.
Parsing == {p \in Parsers : Len(p.data) <= MaxLen}
Scanned == [msgs : Seq(Seq(Byte)), p : Parsing]

LEMMA AfterType ==
  ASSUME NEW a \in Scanned, NEW c \in Byte
  PROVE  After(a, c) \in Scanned
<1>1. a.msgs \in Seq(Seq(Byte)) /\ a.p \in Parsing /\ a.p.data \in Seq(Byte)
  BY DEF Scanned, Parsing, Parsers
<1>2. CASE c = End
  <2>1. Fresh(0) \in Parsing
    BY FreshType DEF Parsing
  <2>2. Append(a.msgs, a.p.data) \in Seq(Seq(Byte))
    BY <1>1
  <2> QED BY <1>2, <2>1, <2>2 DEF After, Scanned
<1>3. CASE c # End
  <2>1. ParseByte(a.p, c) \in Parsing
    BY <1>1, ParseByteType DEF Parsing
  <2> QED BY <1>1, <1>3, <2>1 DEF After, Scanned
<1> QED BY <1>2, <1>3

LEMMA ScanEmpty ==
  ASSUME NEW p
  PROVE  Scan(p, << >>) = [msgs |-> << >>, p |-> p]
<1> DEFINE s == << >>
<1>1. Len(s) = 0 /\ Len(s) \in Nat
  OBVIOUS
<1>2. PICK f : /\ f = [i \in 0 .. Len(s) |->
                         IF i = 0 THEN [msgs |-> << >>, p |-> p] ELSE After(f[i - 1], s[i])]
               /\ Scan(p, s) = f[Len(s)]
  <2> HIDE DEF s
  <2> QED BY <1>1, ScanLoop, Zenon
<1>3. f[0] = [msgs |-> << >>, p |-> p]
  BY <1>1, <1>2
<1> QED BY <1>1, <1>2, <1>3

\* The loop step by step, with the type of what it goes through.
LEMMA ScanSteps ==
  ASSUME NEW p \in Parsing, NEW s \in Seq(Byte)
  PROVE  \E f : /\ f[0] = [msgs |-> << >>, p |-> p] /\ f[Len(s)] = Scan(p, s)
                /\ \A n \in 1 .. Len(s) : f[n] = After(f[n - 1], s[n])
                /\ \A n \in 0 .. Len(s) : f[n] \in Scanned
<1>1. Len(s) \in Nat
  OBVIOUS
<1>2. PICK f : /\ f = [i \in 0 .. Len(s) |->
                         IF i = 0 THEN [msgs |-> << >>, p |-> p] ELSE After(f[i - 1], s[i])]
               /\ Scan(p, s) = f[Len(s)]
  BY <1>1, ScanLoop
<1>3. \A i \in 0 .. Len(s) :
        f[i] = IF i = 0 THEN [msgs |-> << >>, p |-> p] ELSE After(f[i - 1], s[i])
  BY <1>2
<1>4. f[0] = [msgs |-> << >>, p |-> p]
  BY <1>1, <1>3
<1>5. \A n \in 1 .. Len(s) : f[n] = After(f[n - 1], s[n])
  BY <1>1, <1>3
<1>6. \A n \in 0 .. Len(s) : f[n] \in Scanned
  <2> DEFINE S == {n \in Nat : n <= Len(s) => f[n] \in Scanned}
  <2>1. 0 \in S
    <3>1. << >> \in Seq(Seq(Byte))
      OBVIOUS
    <3>2. [msgs |-> << >>, p |-> p] \in Scanned
      BY <3>1 DEF Scanned
    <3> QED BY <1>4, <3>2
  <2>2. ASSUME NEW n \in Nat, n \in S PROVE n + 1 \in S
    <3>1. SUFFICES ASSUME n + 1 <= Len(s) PROVE f[n + 1] \in Scanned
      OBVIOUS
    <3>2. f[n] \in Scanned /\ s[n + 1] \in Byte /\ n + 1 \in 1 .. Len(s)
      BY <2>2, <3>1
    <3>3. f[n + 1] = After(f[n], s[n + 1])
      <4>1. (n + 1) - 1 = n
        OBVIOUS
      <4> QED BY <3>2, <4>1, <1>5
    <3> QED BY <3>2, <3>3, AfterType
  <2> HIDE DEF S
  <2>3. Nat \subseteq S
    BY <2>1, <2>2, Climbs
  <2> QED BY <2>3 DEF S
<1> QED BY <1>2, <1>4, <1>5, <1>6

LEMMA ScanType ==
  ASSUME NEW p \in Parsing, NEW s \in Seq(Byte)
  PROVE  Scan(p, s) \in Scanned
<1>1. PICK f : /\ f[Len(s)] = Scan(p, s)
               /\ \A n \in 0 .. Len(s) : f[n] \in Scanned
  BY ScanSteps
<1>2. Len(s) \in 0 .. Len(s)
  OBVIOUS
<1> QED BY <1>1, <1>2

\* One byte more at the end of the ring.
LEMMA ScanAppend ==
  ASSUME NEW p \in Parsing, NEW s \in Seq(Byte), NEW c \in Byte
  PROVE  Scan(p, Append(s, c)) = After(Scan(p, s), c)
<1> DEFINE t == Append(s, c)
<1>1. t \in Seq(Byte) /\ Len(t) = Len(s) + 1 /\ t[Len(t)] = c /\ Len(s) \in Nat
  OBVIOUS
<1>2. \A i \in 1 .. Len(s) : t[i] = s[i]
  OBVIOUS
<1> HIDE DEF t
<1>3. PICK f : /\ f[0] = [msgs |-> << >>, p |-> p] /\ f[Len(s)] = Scan(p, s)
               /\ \A n \in 1 .. Len(s) : f[n] = After(f[n - 1], s[n])
  BY ScanSteps
<1>4. PICK g : /\ g[0] = [msgs |-> << >>, p |-> p] /\ g[Len(t)] = Scan(p, t)
               /\ \A n \in 1 .. Len(t) : g[n] = After(g[n - 1], t[n])
  <2>1. t \in Seq(Byte)
    BY <1>1
  <2> HIDE <1>1, <1>2, <1>3
  <2> QED BY <2>1, ScanSteps
<1>5. g[Len(s)] = f[Len(s)]
  <2> DEFINE S == {n \in Nat : n <= Len(s) => g[n] = f[n]}
  <2>1. 0 \in S
    BY <1>3, <1>4
  <2>2. ASSUME NEW n \in Nat, n \in S PROVE n + 1 \in S
    <3>1. SUFFICES ASSUME n + 1 <= Len(s) PROVE g[n + 1] = f[n + 1]
      OBVIOUS
    <3>2. n + 1 \in 1 .. Len(s) /\ n + 1 \in 1 .. Len(t) /\ (n + 1) - 1 = n /\ g[n] = f[n]
      BY <1>1, <2>2, <3>1
    <3>3. g[n + 1] = After(g[n], t[n + 1]) /\ f[n + 1] = After(f[n], s[n + 1])
      <4> HIDE <2>2
      <4> QED BY <3>2, <1>3, <1>4
    <3> QED BY <3>2, <3>3, <1>2
  <2> HIDE DEF S
  <2>3. Nat \subseteq S
    BY <2>1, <2>2, Climbs
  <2> QED BY <1>1, <2>3 DEF S
<1>6. g[Len(t)] = After(g[Len(s)], c)
  <2>1. Len(t) \in 1 .. Len(t) /\ Len(t) - 1 = Len(s)
    BY <1>1
  <2> QED BY <2>1, <1>1, <1>4
<1> QED BY <1>3, <1>4, <1>5, <1>6 DEF t

\* The first byte of the ring: what it yields comes first.
LEMMA AfterMore ==
  ASSUME NEW a \in Scanned, NEW ms \in Seq(Seq(Byte)), NEW c \in Byte
  PROVE  After([msgs |-> ms \o a.msgs, p |-> a.p], c)
           = [msgs |-> ms \o After(a, c).msgs, p |-> After(a, c).p]
<1>1. a.msgs \in Seq(Seq(Byte)) /\ a.p.data \in Seq(Byte)
  BY DEF Scanned, Parsing, Parsers
<1>2. ms \o Append(a.msgs, a.p.data) = Append(ms \o a.msgs, a.p.data)
  BY <1>1
<1> QED BY <1>2 DEF After

LEMMA ScanHead ==
  ASSUME NEW p \in Parsing, NEW s \in Seq(Byte), s # << >>,
         NEW one, one = After([msgs |-> << >>, p |-> p], Head(s))
  PROVE  Scan(p, s) = [msgs |-> one.msgs \o Scan(one.p, Tail(s)).msgs,
                       p    |-> Scan(one.p, Tail(s)).p]
<1> DEFINE t == Tail(s)
           first == [msgs |-> << >>, p |-> p]
<1>1. t \in Seq(Byte) /\ Len(s) = Len(t) + 1 /\ Head(s) = s[1] /\ s[1] \in Byte /\ Len(t) \in Nat
  OBVIOUS
<1>2. \A i \in 1 .. Len(t) : t[i] = s[i + 1] /\ t[i] \in Byte
  OBVIOUS
<1>3. one \in Scanned /\ one.msgs \in Seq(Seq(Byte)) /\ one.p \in Parsing
  <2>1. first \in Scanned
    BY DEF Scanned
  <2>2. one \in Scanned
    BY <1>1, <2>1, AfterType
  <2> QED BY <2>2 DEF Scanned
<1> HIDE DEF t
<1>4. PICK f : /\ f[0] = first /\ f[Len(s)] = Scan(p, s)
               /\ \A n \in 1 .. Len(s) : f[n] = After(f[n - 1], s[n])
  BY ScanSteps
<1>5. PICK g : /\ g[0] = [msgs |-> << >>, p |-> one.p] /\ g[Len(t)] = Scan(one.p, t)
               /\ \A n \in 1 .. Len(t) : g[n] = After(g[n - 1], t[n])
               /\ \A n \in 0 .. Len(t) : g[n] \in Scanned
  BY <1>1, <1>3, ScanSteps
<1> DEFINE S == {n \in Nat : n <= Len(t) =>
                   f[n + 1] = [msgs |-> one.msgs \o g[n].msgs, p |-> g[n].p]}
<1>6. 0 \in S
  <2>1. f[1] = one
    <3>1. 1 \in 1 .. Len(s) /\ 1 - 1 = 0
      BY <1>1
    <3>2. f[1] = After(f[1 - 1], s[1])
      BY <3>1, <1>4
    <3> QED BY <3>1, <3>2, <1>1, <1>4
  <2>2. one = [msgs |-> one.msgs \o << >>, p |-> one.p]
    <3>1. one.msgs \o << >> = one.msgs
      BY <1>3
    <3>2. one = [msgs |-> one.msgs, p |-> one.p]
      BY <1>3 DEF Scanned
    <3> QED BY <3>1, <3>2
  <2>3. g[0].msgs = << >> /\ g[0].p = one.p
    BY <1>5
  <2>4. 0 + 1 = 1
    OBVIOUS
  <2> QED BY <2>1, <2>2, <2>3, <2>4
<1>7. ASSUME NEW n \in Nat, n \in S PROVE n + 1 \in S
  <2>1. SUFFICES ASSUME n + 1 <= Len(t)
                 PROVE  f[(n + 1) + 1] = [msgs |-> one.msgs \o g[n + 1].msgs, p |-> g[n + 1].p]
    OBVIOUS
  <2>2. /\ n + 1 \in 1 .. Len(t) /\ (n + 1) + 1 \in 1 .. Len(s) /\ (n + 1) - 1 = n
        /\ ((n + 1) + 1) - 1 = n + 1 /\ n \in 0 .. Len(t)
    BY <1>1, <2>1
  <2>3. f[n + 1] = [msgs |-> one.msgs \o g[n].msgs, p |-> g[n].p]
    BY <1>7, <2>1, <2>2
  <2>4. f[(n + 1) + 1] = After(f[n + 1], s[(n + 1) + 1])
    <3> HIDE DEF S
    <3> QED BY <1>4, <2>2
  <2>5. g[n + 1] = After(g[n], t[n + 1])
    <3> HIDE DEF S
    <3> QED BY <1>5, <2>2
  <2>6. s[(n + 1) + 1] = t[n + 1] /\ t[n + 1] \in Byte /\ g[n] \in Scanned
    BY <1>2, <1>5, <2>2
  <2> HIDE DEF S
  <2>7. After([msgs |-> one.msgs \o g[n].msgs, p |-> g[n].p], t[n + 1])
          = [msgs |-> one.msgs \o After(g[n], t[n + 1]).msgs, p |-> After(g[n], t[n + 1]).p]
    BY <2>6, <1>3, AfterMore, Zenon
  <2> QED BY <2>3, <2>4, <2>5, <2>6, <2>7, Zenon
<1>8. Len(t) \in S
  <2> HIDE DEF S
  <2> QED BY <1>1, <1>6, <1>7, Climbs
<1>9. f[Len(s)] = [msgs |-> one.msgs \o g[Len(t)].msgs, p |-> g[Len(t)].p]
  BY <1>1, <1>8
<1> QED BY <1>4, <1>5, <1>9 DEF t

-----------------------------------------------------------------------------
(* The ring implements the message queue.                                  *)

\* While PROTO_AddRb is inside a frame, the parser would have read what it has
\* put of its packet.
Building ==
  /\ pc = "body" =>
       Scan(Fresh(0), fifo).p = [isBegin |-> 1, isEsc |-> 0, data |-> SubSeq(msg, 1, pos)]
  /\ pc = "escaped" =>
       Scan(Fresh(0), fifo).p = [isBegin |-> 1, isEsc |-> 1, data |-> SubSeq(msg, 1, pos)]
  /\ pc \notin {"body", "escaped"} => pos = 0

LEMMA FreshParsing == \A g \in {0, 1} : Fresh(g) \in Parsing
  BY FreshType DEF Parsing

LEMMA FramesAre ==
  /\ pc # "parse" => Frames = Scan(Fresh(0), fifo).msgs
  /\ pc = "parse" => Frames = Scan(parser, fifo).msgs
  BY DEF Frames

LEMMA FramesWillBe ==
  /\ pc' # "parse" => Frames' = Scan(Fresh(0), fifo').msgs
  /\ pc' = "parse" => Frames' = Scan(parser', fifo').msgs
  BY DEF Frames

\* What PROTO_Init leaves in isBegin does not matter: the ring starts with 7E.
LEMMA GarbageUnread ==
  ASSUME NEW g \in {0, 1}, NEW s \in Seq(Byte), s # << >> => s[1] = Begin
  PROVE  Scan(Fresh(g), s).msgs = Scan(Fresh(0), s).msgs
<1>1. CASE s = << >>
  BY <1>1, ScanEmpty
<1>2. CASE s # << >>
  <2> DEFINE one(x) == After([msgs |-> << >>, p |-> Fresh(x)], Head(s))
  <2>1. Head(s) = Begin /\ Begin # End
    BY <1>2 DEF Begin, End
  <2>2. one(g) = one(0)
    BY <2>1 DEF After, ParseByte
  <2>3. Fresh(g) \in Parsing /\ Fresh(0) \in Parsing
    BY FreshParsing
  <2> HIDE DEF one
  <2>4. \A x \in {g, 0} : Scan(Fresh(x), s) = [msgs |-> one(x).msgs \o Scan(one(x).p, Tail(s)).msgs,
                                               p    |-> Scan(one(x).p, Tail(s)).p]
    BY <1>2, <2>3, ScanHead DEF one
  <2> QED BY <2>2, <2>4
<1> QED BY <1>1, <1>2

\* A byte of a frame: no message yet, and the parser has read it.
LEMMA PutByte ==
  ASSUME Inv, NEW b \in Byte, b # End, fifo' = Append(fifo, b),
         pc # "parse", pc' # "parse"
  PROVE  /\ Frames' = Frames
         /\ Scan(Fresh(0), fifo').p = ParseByte(Scan(Fresh(0), fifo).p, b)
<1>1. fifo \in Seq(Byte)
  BY DEF Inv, TypeOK
<1>2. Scan(Fresh(0), Append(fifo, b)) = After(Scan(Fresh(0), fifo), b)
  BY <1>1, FreshParsing, ScanAppend
<1>3. After(Scan(Fresh(0), fifo), b) = [msgs |-> Scan(Fresh(0), fifo).msgs,
                                        p    |-> ParseByte(Scan(Fresh(0), fifo).p, b)]
  BY DEF After
<1>4. Scan(Fresh(0), fifo') = [msgs |-> Scan(Fresh(0), fifo).msgs,
                               p    |-> ParseByte(Scan(Fresh(0), fifo).p, b)]
  BY <1>2, <1>3
<1> QED BY <1>4, FramesAre, FramesWillBe

\* Flipping twice gives the byte back.
LEMMA FlipTwice ==
  ASSUME NEW b \in Escaped
  PROVE  Flip(Flip(b)) = b
  BY DEF Flip, Escaped, Esc, Begin, End

LEMMA NextByte ==
  ASSUME NEW m \in Seq(Byte), NEW n \in Nat, n < Len(m)
  PROVE  /\ SubSeq(m, 1, n + 1) = Append(SubSeq(m, 1, n), m[n + 1])
         /\ Len(SubSeq(m, 1, n)) = n /\ SubSeq(m, 1, n) \in Seq(Byte)
<1>1. SubSeq(m, 1, n) \in Seq(Byte) /\ Len(SubSeq(m, 1, n)) = n
  OBVIOUS
<1>2. SubSeq(m, 1, n + 1) \in Seq(Byte) /\ Len(SubSeq(m, 1, n + 1)) = n + 1
  OBVIOUS
<1>3. \A i \in 1 .. n + 1 : SubSeq(m, 1, n + 1)[i] = Append(SubSeq(m, 1, n), m[n + 1])[i]
  OBVIOUS
<1> QED BY <1>1, <1>2, <1>3

\* The parser inside a frame.
LEMMA ParseInside ==
  ASSUME NEW d \in Seq(Byte), NEW c \in Byte, c # Begin, NEW e \in {0, 1}, NEW p,
         p = [isBegin |-> 1, isEsc |-> e, data |-> d]
  PROVE  /\ c = Esc => ParseByte(p, c) = [isBegin |-> 1, isEsc |-> 1, data |-> d]
         /\ c # Esc /\ Len(d) < MaxLen =>
              ParseByte(p, c) = [isBegin |-> 1, isEsc |-> 0,
                                 data |-> Append(d, IF e = 1 THEN Flip(c) ELSE c)]
<1>1. CASE c = Esc
  <2>1. ParseByte(p, c) = [p EXCEPT !.isEsc = 1]
    BY <1>1 DEF ParseByte
  <2>2. [p EXCEPT !.isEsc = 1] = [isBegin |-> 1, isEsc |-> 1, data |-> d]
    OBVIOUS
  <2> QED BY <1>1, <2>1, <2>2
<1>2. ASSUME c # Esc, Len(d) < MaxLen
      PROVE  ParseByte(p, c) = [isBegin |-> 1, isEsc |-> 0,
                                data |-> Append(d, IF e = 1 THEN Flip(c) ELSE c)]
  <2>1. p.isBegin = 1 /\ p.isEsc = e /\ p.data = d
    OBVIOUS
  <2>2. ~ (Len(p.data) >= MaxLen) /\ p.isBegin # 0
    BY <1>2, <2>1
  <2>3. ParseByte(p, c) = [isBegin |-> p.isBegin, isEsc |-> 0,
                           data |-> Append(p.data, IF p.isEsc = 1 THEN Flip(c) ELSE c)]
    BY <1>2, <2>2 DEF ParseByte
  <2> QED BY <2>1, <2>3
<1> QED BY <1>1, <1>2

LEMMA PutBuilds ==
  ASSUME Inv, Building, PutBegin \/ PutPlain \/ PutEsc \/ PutFlipped
  PROVE  Building' /\ Frames' = Frames /\ out' = out
<1> DEFINE p == Scan(Fresh(0), fifo).p
<1>0. msg \in Seq(Byte) /\ Len(msg) <= MaxLen /\ pos \in 0 .. Len(msg) /\ msg \in Messages
  BY MessagesAssumption DEF Inv, Writing, PutBegin, PutPlain, PutEsc, PutFlipped, TypeOK
<1>1. CASE PutBegin
  <2>1. Begin \in Byte /\ Begin # End
    BY DEF Begin, End, Byte
  <2>2. /\ fifo' = Append(fifo, Begin) /\ pc = "begin" /\ pc' = "body"
        /\ msg' = msg /\ pos' = pos /\ out' = out
    BY <1>1 DEF PutBegin, Store
  <2>3. Frames' = Frames /\ Scan(Fresh(0), fifo').p = ParseByte(p, Begin)
    BY <2>1, <2>2, PutByte
  <2>4. pos = 0
    BY <1>1 DEF PutBegin, Building
  <2>5. SubSeq(msg, 1, 0) = << >>
    BY <1>0
  <2>6. ParseByte(p, Begin) = [isBegin |-> 1, isEsc |-> 0, data |-> << >>]
    BY DEF ParseByte
  <2> QED BY <2>2, <2>3, <2>4, <2>5, <2>6 DEF Building
<1>2. CASE PutPlain
  <2>1. /\ pc = "body" /\ pc' = "body" /\ msg' = msg /\ pos' = pos + 1 /\ out' = out
        /\ pos < Len(msg) /\ msg[pos + 1] \notin Escaped /\ fifo' = Append(fifo, msg[pos + 1])
    BY <1>2 DEF PutPlain, Store
  <2>2. msg[pos + 1] \in Byte /\ msg[pos + 1] # End /\ msg[pos + 1] # Esc /\ msg[pos + 1] # Begin
    BY <1>0, <2>1 DEF Escaped
  <2>3. Frames' = Frames /\ Scan(Fresh(0), fifo').p = ParseByte(p, msg[pos + 1])
    BY <2>1, <2>2, PutByte
  <2>4. p = [isBegin |-> 1, isEsc |-> 0, data |-> SubSeq(msg, 1, pos)]
    BY <2>1 DEF Building
  <2>5. ParseByte(p, msg[pos + 1]) = [isBegin |-> 1, isEsc |-> 0, data |-> SubSeq(msg, 1, pos + 1)]
    <3> HIDE DEF p
    <3> DEFINE d == SubSeq(msg, 1, pos)
               c == msg[pos + 1]
    <3>1. d \in Seq(Byte) /\ Len(d) < MaxLen
      BY <2>1, <1>0, NextByte
    <3>2. Append(d, c) = SubSeq(msg, 1, pos + 1)
      BY <2>1, <1>0, NextByte
    <3>3. p = [isBegin |-> 1, isEsc |-> 0, data |-> d]
      BY <2>4
    <3>4. c \in Byte /\ c # End /\ c # Esc /\ c # Begin
      BY <2>2
    <3> HIDE DEF d, c
    <3>5. ParseByte(p, c) = [isBegin |-> 1, isEsc |-> 0, data |-> Append(d, c)]
      <4> DEFINE e == 0
      <4>1. e \in {0, 1} /\ e # 1 /\ p = [isBegin |-> 1, isEsc |-> e, data |-> d]
        BY <3>3
      <4> HIDE DEF e
      <4> QED BY <3>1, <3>4, <4>1, ParseInside
    <3> QED BY <3>2, <3>5 DEF c
  <2> QED BY <2>1, <2>3, <2>5 DEF Building
<1>3. CASE PutEsc
  <2>1. Esc \in Byte /\ Esc # End /\ Esc # Begin
    BY DEF Esc, Begin, End, Byte
  <2>2. /\ pc = "body" /\ pc' = "escaped" /\ msg' = msg /\ pos' = pos /\ out' = out
        /\ fifo' = Append(fifo, Esc)
    BY <1>3 DEF PutEsc, Store
  <2>3. Frames' = Frames /\ Scan(Fresh(0), fifo').p = ParseByte(p, Esc)
    BY <2>1, <2>2, PutByte
  <2>4. p = [isBegin |-> 1, isEsc |-> 0, data |-> SubSeq(msg, 1, pos)]
    BY <2>2 DEF Building
  <2>5. ParseByte(p, Esc) = [isBegin |-> 1, isEsc |-> 1, data |-> SubSeq(msg, 1, pos)]
    <3> HIDE DEF p
    <3>1. SubSeq(msg, 1, pos) \in Seq(Byte)
      BY <1>0
    <3> QED BY <2>1, <2>4, <3>1, ParseInside
  <2> QED BY <2>2, <2>3, <2>5 DEF Building
<1>4. CASE PutFlipped
  <2>1. /\ pc = "escaped" /\ pc' = "body" /\ msg' = msg /\ pos' = pos + 1 /\ out' = out
        /\ fifo' = Append(fifo, Flip(msg[pos + 1]))
    BY <1>4 DEF PutFlipped, Store
  <2>2. pos < Len(msg) /\ msg[pos + 1] \in Escaped
    BY <2>1 DEF Inv, Writing
  <2>3. msg[pos + 1] \in Byte
    BY <1>0, <2>2
  <2>4. /\ Flip(msg[pos + 1]) \in Byte /\ Flip(msg[pos + 1]) # End /\ Flip(msg[pos + 1]) # Esc
        /\ Flip(msg[pos + 1]) # Begin
    BY <2>2, <2>3, FlipByte DEF Escaped
  <2>5. Frames' = Frames /\ Scan(Fresh(0), fifo').p = ParseByte(p, Flip(msg[pos + 1]))
    BY <2>1, <2>4, PutByte
  <2>6. p = [isBegin |-> 1, isEsc |-> 1, data |-> SubSeq(msg, 1, pos)]
    BY <2>1 DEF Building
  <2>7. ParseByte(p, Flip(msg[pos + 1])) = [isBegin |-> 1, isEsc |-> 0,
                                            data |-> SubSeq(msg, 1, pos + 1)]
    <3> HIDE DEF p
    <3> DEFINE d == SubSeq(msg, 1, pos)
               c == Flip(msg[pos + 1])
    <3>1. d \in Seq(Byte) /\ Len(d) < MaxLen
      BY <2>2, <1>0, NextByte
    <3>2. Append(d, Flip(c)) = SubSeq(msg, 1, pos + 1)
      BY <2>2, <1>0, NextByte, FlipTwice
    <3>3. c \in Byte /\ c # Begin /\ c # Esc
      BY <2>4
    <3>4. p = [isBegin |-> 1, isEsc |-> 1, data |-> d]
      BY <2>6
    <3> HIDE DEF d, c
    <3>5. ParseByte(p, c) = [isBegin |-> 1, isEsc |-> 0, data |-> Append(d, Flip(c))]
      BY <3>1, <3>3, <3>4, ParseInside
    <3> QED BY <3>2, <3>5 DEF c
  <2> QED BY <2>1, <2>5, <2>7 DEF Building
<1> QED BY <1>1, <1>2, <1>3, <1>4

\* The last byte of a frame: the packet is in the queue.
LEMMA PutEndAccepts ==
  ASSUME Inv, Building, PutEnd
  PROVE  Building' /\ Frames' = Append(Frames, msg) /\ out' = out /\ msg \in Messages
<1>1. /\ pc = "body" /\ pos = Len(msg) /\ fifo' = Append(fifo, End) /\ pc' = "idle" /\ out' = out
      /\ pos' = 0
  BY DEF PutEnd, Store, Return
<1>2. msg \in Messages /\ fifo \in Seq(Byte) /\ End \in Byte
  BY <1>1 DEF Inv, Writing, TypeOK, End, Byte
<1>3. Scan(Fresh(0), Append(fifo, End)) = After(Scan(Fresh(0), fifo), End)
  BY <1>2, FreshParsing, ScanAppend
<1>4. SubSeq(msg, 1, Len(msg)) = msg
  BY <1>2, MessagesAssumption
<1>5. Scan(Fresh(0), fifo).p.data = msg
  BY <1>1, <1>4 DEF Building
<1>6. Frames' = Append(Frames, msg)
  BY <1>1, <1>3, <1>5, FramesAre, FramesWillBe DEF After
<1> QED BY <1>1, <1>2, <1>6 DEF Building

\* A put that fails and a call that starts change nothing of the queue.
LEMMA NothingPut ==
  ASSUME Inv, fifo' = fifo, pc # "parse", pc' \notin {"body", "escaped"}, pos' = 0, out' = out,
         pc' = "parse" => \E g \in {0, 1} : parser' = Fresh(g)
  PROVE  Building' /\ Frames' = Frames
<1>1. fifo \in Seq(Byte) /\ (fifo # << >> => fifo[1] = Begin)
  BY DEF Inv, TypeOK, FramesAligned
<1>2. CASE pc' # "parse"
  BY <1>2, FramesAre, FramesWillBe DEF Building
<1>3. CASE pc' = "parse"
  <2>1. PICK g \in {0, 1} : parser' = Fresh(g)
    BY <1>3
  <2>2. Scan(Fresh(g), fifo).msgs = Scan(Fresh(0), fifo).msgs
    BY <1>1, GarbageUnread
  <2> QED BY <1>3, <2>1, <2>2, FramesAre, FramesWillBe DEF Building
<1> QED BY <1>2, <1>3

\* PROTO_ParseRb takes a byte inside a frame, ends a frame, or finds no frame.
LEMMA ParseRefines ==
  ASSUME Inv, Building, Parse
  PROVE  Building' /\ Frames' = Frames /\ out' = out
<1>1. /\ pc = "parse" /\ pc' = "parse" /\ fifo # << >> /\ Head(fifo) # End /\ out' = out
      /\ parser' = ParseByte(parser, Head(fifo)) /\ fifo' = Tail(fifo) /\ pos' = 0
  BY DEF Parse, Building
<1>2. fifo \in Seq(Byte) /\ parser \in Parsing
  BY DEF Inv, TypeOK, Parsing
<1>3. After([msgs |-> << >>, p |-> parser], Head(fifo)) = [msgs |-> << >>, p |-> parser']
  BY <1>1 DEF After
<1>4. Scan(parser, fifo).msgs = << >> \o Scan(parser', fifo').msgs
  <2> DEFINE one == [msgs |-> << >>, p |-> parser']
  <2>1. one = After([msgs |-> << >>, p |-> parser], Head(fifo))
    BY <1>3
  <2>2. one.msgs = << >> /\ one.p = parser'
    OBVIOUS
  <2> HIDE DEF one
  <2>3. Scan(parser, fifo) = [msgs |-> one.msgs \o Scan(one.p, Tail(fifo)).msgs,
                              p    |-> Scan(one.p, Tail(fifo)).p]
    BY <1>1, <1>2, <2>1, ScanHead, Zenon
  <2> QED BY <1>1, <2>2, <2>3
<1>5. Scan(parser', fifo').msgs \in Seq(Seq(Byte))
  <2>1. fifo' \in Seq(Byte) /\ parser' \in Parsing
    BY <1>1, <1>2, ParseByteType DEF Parsing
  <2> QED BY <2>1, ScanType DEF Scanned
<1>6. Frames' = Frames
  BY <1>1, <1>4, <1>5, FramesAre, FramesWillBe
<1> QED BY <1>1, <1>6 DEF Building

LEMMA ParseEndRefines ==
  ASSUME Inv, Building, ParseEnd
  PROVE  /\ Building'
         /\ Frames # << >> /\ Frames' = Tail(Frames)
         /\ out' = out \/ out' = Head(Frames)
<1>1. /\ pc = "parse" /\ pc' \in {"begin", "idle"} /\ fifo # << >> /\ Head(fifo) = End
      /\ fifo' = Tail(fifo) /\ (out' = out \/ out' = parser.data)
      /\ pos' = 0
  BY DEF ParseEnd, Return, Building
<1>2. fifo \in Seq(Byte) /\ parser \in Parsing /\ parser.data \in Seq(Byte) /\ fifo' \in Seq(Byte)
  BY <1>1 DEF Inv, TypeOK, Parsing, Parsers
<1>3. After([msgs |-> << >>, p |-> parser], Head(fifo)) = [msgs |-> <<parser.data>>, p |-> Fresh(0)]
  BY <1>1 DEF After
<1>4. Scan(parser, fifo).msgs = <<parser.data>> \o Scan(Fresh(0), fifo').msgs
  <2> DEFINE one == [msgs |-> <<parser.data>>, p |-> Fresh(0)]
  <2>1. one = After([msgs |-> << >>, p |-> parser], Head(fifo))
    BY <1>3
  <2>2. one.msgs = <<parser.data>> /\ one.p = Fresh(0)
    OBVIOUS
  <2> HIDE DEF one
  <2>3. Scan(parser, fifo) = [msgs |-> one.msgs \o Scan(one.p, Tail(fifo)).msgs,
                              p    |-> Scan(one.p, Tail(fifo)).p]
    BY <1>1, <1>2, <2>1, ScanHead, Zenon
  <2> QED BY <1>1, <2>2, <2>3
<1>5. Scan(Fresh(0), fifo').msgs \in Seq(Seq(Byte))
  BY <1>2, FreshParsing, ScanType DEF Scanned
<1>6. Frames = <<parser.data>> \o Frames' /\ Frames' \in Seq(Seq(Byte))
  BY <1>1, <1>4, <1>5, FramesAre, FramesWillBe
<1>7. Frames # << >> /\ Frames' = Tail(Frames) /\ Head(Frames) = parser.data
  BY <1>6, <1>2
<1> QED BY <1>1, <1>7 DEF Building

LEMMA ParseFailsRefines ==
  ASSUME Inv, ParseFails
  PROVE  Building' /\ Frames' = Frames /\ out' = out
<1>1. pc = "parse" /\ pc' = "idle" /\ fifo = << >> /\ fifo' = << >> /\ out' = out /\ pos' = 0
  BY DEF ParseFails, Return
<1>2. Frames = << >> /\ Frames' = << >>
  BY <1>1, ScanEmpty, FramesAre, FramesWillBe
<1> QED BY <1>1, <1>2 DEF Building

LEMMA InitRefines == Init => Building /\ Queue!Init
<1> SUFFICES ASSUME Init PROVE Building /\ Queue!Init
  OBVIOUS
<1>1. pc = "idle" /\ fifo = << >> /\ out = << >> /\ pos = 0
  BY DEF Init
<1>2. Frames = << >>
  BY <1>1, FramesAre, ScanEmpty
<1> QED BY <1>1, <1>2 DEF Building, Queue!Init

\* Every step of the ring is a step of the queue or leaves it alone.
LEMMA NextRefines ==
  ASSUME Inv, Building, [Next]_vars
  PROVE  Building' /\ [Queue!Next]_<<Frames, out>>
<1>1. CASE UNCHANGED vars
  <2>1. UNCHANGED <<fifo, pc, parser, msg, pos, out>>
    BY <1>1 DEF vars
  <2>2. Frames' = Frames
    BY <2>1, FramesAre, FramesWillBe
  <2> QED BY <2>1, <2>2 DEF Building
<1>2. ASSUME NEW m \in Messages, Publish(m) \/ Acknowledge(m)
      PROVE  Building' /\ Frames' = Frames /\ out' = out
  <2>1. fifo' = fifo /\ pc = "idle" /\ pc' = "begin" /\ out' = out /\ pos' = 0
    BY <1>2 DEF Publish, Acknowledge
  <2> QED BY <2>1, NothingPut
<1>3. ASSUME NEW g \in {0, 1}, Fetch(g)
      PROVE  Building' /\ Frames' = Frames /\ out' = out
  <2>1. /\ fifo' = fifo /\ pc = "idle" /\ pc' = "parse" /\ out' = out /\ parser' = Fresh(g)
        /\ pos' = 0
    BY <1>3 DEF Fetch, Building
  <2> QED BY <2>1, NothingPut
<1>4. ASSUME NEW g \in {0, 1}, PutFails(g)
      PROVE  Building' /\ Frames' = Frames /\ out' = out
  <2>1. /\ fifo' = fifo /\ pc # "parse" /\ out' = out /\ pos' = 0
        /\ pc' = "idle" \/ (pc' = "parse" /\ parser' = Fresh(g))
    BY <1>4 DEF PutFails, Return
  <2> QED BY <2>1, NothingPut
<1>5. CASE PutEnd
  <2>1. Building' /\ Frames' = Append(Frames, msg) /\ out' = out /\ msg \in Messages
    BY <1>5, PutEndAccepts
  <2> QED BY <2>1 DEF Queue!Next, Queue!Accept
<1>6. CASE ParseEnd
  <2>1. /\ Building' /\ Frames # << >> /\ Frames' = Tail(Frames)
        /\ out' = out \/ out' = Head(Frames)
    BY <1>6, ParseEndRefines
  <2> QED BY <2>1 DEF Queue!Next, Queue!Drop, Queue!Deliver
<1>7. CASE PutBegin \/ PutPlain \/ PutEsc \/ PutFlipped \/ Parse \/ ParseFails
  BY <1>7, PutBuilds, ParseRefines, ParseFailsRefines
<1> QED BY <1>1, <1>2, <1>3, <1>4, <1>5, <1>6, <1>7 DEF Next, Continue

\* The framed ring implements the message queue (QueueSpec): whatever fragments
\* failed puts leave in the ring, MQTT_Task gets whole packets in the order
\* they were accepted, and the rest is only ever dropped from the front.
THEOREM RingImplementsQueue == Spec => QueueSpec
<1>1. Init => Inv /\ Building /\ Queue!Init
  BY InitInv, InitRefines
<1>2. Inv /\ Building /\ [Next]_vars => Inv' /\ Building' /\ [Queue!Next]_<<Frames, out>>
  BY NextInv, NextRefines
<1> QED BY <1>1, <1>2, PTL DEF Spec, QueueSpec, Queue!Spec

\* Who is in which part of the code, and what MQTT_Publish has told so far.
Calling ==
  /\ caller = "publish" => ~refused
  /\ caller = "ack" => pc # "parse"
  /\ caller # "none" <=> pc # "idle"

LEMMA NextCalls ==
  ASSUME Inv, Calling, [Next]_vars
  PROVE  Calling'
<1>1. CASE UNCHANGED vars
  BY <1>1 DEF vars, Calling
<1>2. ASSUME NEW m \in Messages, Publish(m) \/ Acknowledge(m) PROVE Calling'
  BY <1>2 DEF Publish, Acknowledge, Calling
<1>3. ASSUME NEW g \in {0, 1}, Fetch(g) PROVE Calling'
  BY <1>3 DEF Fetch, Calling
<1>4. ASSUME NEW g \in {0, 1}, PutFails(g) PROVE Calling'
  BY <1>4 DEF PutFails, Return, Calling
<1>5. CASE PutBegin \/ PutPlain \/ PutEsc \/ PutFlipped
  BY <1>5 DEF PutBegin, PutPlain, PutEsc, PutFlipped, Calling
<1>6. CASE PutEnd \/ Parse \/ ParseEnd \/ ParseFails
  BY <1>6 DEF PutEnd, Parse, ParseEnd, ParseFails, Return, Calling
<1> QED BY <1>1, <1>2, <1>3, <1>4, <1>5, <1>6 DEF Next, Continue

\* One step of CallsKeepTheirWord.
KeepsWord ==
  /\ caller = "publish" /\ pc' = "idle" =>
       Frames' = IF refused' THEN << >> ELSE Append(Frames, msg)
  /\ caller = "ack" => Frames' \in {Frames, Append(Frames, msg)}

LEMMA NextKeepsWord ==
  ASSUME Inv, Building, Calling, Next
  PROVE  KeepsWord
<1>1. ASSUME pc = "idle" PROVE KeepsWord
  BY <1>1 DEF Calling, KeepsWord
<1>2. ASSUME NEW g \in {0, 1}, PutFails(g)
      PROVE  KeepsWord
  <2>1. /\ fifo' = fifo /\ pc # "parse" /\ out' = out /\ pos' = 0
        /\ pc' = "idle" \/ (pc' = "parse" /\ parser' = Fresh(g))
        /\ caller = "publish" => pc' = "parse"
    BY <1>2 DEF PutFails, Return
  <2>2. Frames' = Frames
    BY <2>1, NothingPut
  <2> QED BY <2>1, <2>2 DEF KeepsWord
<1>3. CASE PutEnd
  <2>1. Frames' = Append(Frames, msg)
    BY <1>3, PutEndAccepts
  <2>2. refused' = refused
    BY <1>3 DEF PutEnd
  <2> QED BY <2>1, <2>2 DEF KeepsWord, Calling
<1>4. CASE PutBegin \/ PutPlain \/ PutEsc \/ PutFlipped
  <2>1. Frames' = Frames
    BY <1>4, PutBuilds
  <2>2. pc' # "idle"
    BY <1>4 DEF PutBegin, PutPlain, PutEsc, PutFlipped
  <2> QED BY <2>1, <2>2 DEF KeepsWord
<1>5. CASE Parse \/ ParseEnd
  <2>1. pc = "parse" /\ (caller = "publish" => pc' # "idle")
    BY <1>5 DEF Parse, ParseEnd
  <2> QED BY <2>1 DEF KeepsWord, Calling
<1>6. CASE ParseFails
  <2>1. /\ pc = "parse" /\ pc' = "idle" /\ fifo' = << >>
        /\ refused' = (caller = "publish")
    BY <1>6 DEF ParseFails, Return
  <2>2. Frames' = << >>
    BY <2>1, ScanEmpty, FramesWillBe
  <2> QED BY <2>1, <2>2 DEF KeepsWord, Calling
<1> QED BY <1>1, <1>2, <1>3, <1>4, <1>5, <1>6 DEF Next, Continue, Publish, Acknowledge, Fetch

\* MQTT_Publish returns TRUE only with its packet queued whole behind the rest,
\* over any number of failed puts, fragments and drops; it returns FALSE only
\* when no message is left; an acknowledgement drops nothing.
THEOREM CallsKeepWord == Spec => CallsKeepTheirWord
<1>1. Init => Inv /\ Building /\ Calling
  BY InitInv, InitRefines DEF Init, Calling
<1>2. Inv /\ Building /\ Calling /\ [Next]_vars => Inv' /\ Building' /\ Calling'
  BY NextInv, NextRefines, NextCalls
<1>3. Inv /\ Building /\ Calling /\ [Next]_vars => [KeepsWord]_vars
  BY NextKeepsWord
<1>4. [KeepsWord]_vars <=>
        [/\ caller = "publish" /\ pc' = "idle" =>
              Frames' = IF refused' THEN << >> ELSE Append(Frames, msg)
         /\ caller = "ack" => Frames' \in {Frames, Append(Frames, msg)}]_vars
  BY DEF KeepsWord
<1> QED BY <1>1, <1>2, <1>3, <1>4, PTL DEF Spec, CallsKeepTheirWord

-----------------------------------------------------------------------------
(* The ring under the queue: mqtt/ringbuf.c, whose calls ProtoQueue takes    *)
(* for those of module ByteFifo.                                             *)

USE RingSizeAssumption, U8Assumption

RingInv == RingTypeOK /\ PointersAgree

\* The ring starts out empty, both pointers on the first slot.
LEMMA RingInitInv == RINGBUF_Init => RingInv
  BY DEF RINGBUF_Init, RingInv, RingTypeOK, PointersAgree, Offsets, Slot

\* Each RINGBUF call keeps the pointers in the buffer and fill_cnt apart.
LEMMA RingNextInv == RingInv /\ [RingNext]_ringVars => RingInv'
<1> SUFFICES ASSUME RingInv, [RingNext]_ringVars PROVE RingInv'
  OBVIOUS
<1> USE DEF RingInv, RingTypeOK, PointersAgree, Offsets, Slot, Bump
<1>1. ASSUME NEW c \in U8, RINGBUF_Put(c) PROVE RingInv'
  <2>1. RingTypeOK'
    BY <1>1 DEF RINGBUF_Put
  <2>2. PointersAgree'
    BY <1>1 DEF RINGBUF_Put
  <2> QED BY <2>1, <2>2
<1>2. CASE RINGBUF_Get
  <2>1. RingTypeOK'
    BY <1>2 DEF RINGBUF_Get
  <2>2. PointersAgree'
    BY <1>2 DEF RINGBUF_Get
  <2> QED BY <2>1, <2>2
<1>3. CASE GetEmpty
  BY <1>3 DEF GetEmpty
<1>4. CASE UNCHANGED ringVars
  BY <1>4 DEF ringVars
<1> QED BY <1>1, <1>2, <1>3, <1>4 DEF RingNext

\* RINGBUF's type correctness, for every buffer size the code accepts.
THEOREM RingTypeCorrect == RingSpec => []RingTypeOK
<1>1. RingInv => RingTypeOK
  BY DEF RingInv
<1> QED BY <1>1, RingInitInv, RingNextInv, PTL DEF RingSpec

\* The write pointer is always fill_cnt slots ahead of the read pointer, over
\* any number of wraps.
THEOREM PointersCorrect == RingSpec => []PointersAgree
<1>1. RingInv => PointersAgree
  BY DEF RingInv
<1> QED BY <1>1, RingInitInv, RingNextInv, PTL DEF RingSpec

-----------------------------------------------------------------------------
\* Contents is a sequence of bytes as long as fill_cnt says.
LEMMA ContentsSeq ==
  ASSUME RingTypeOK
  PROVE  Contents \in Seq(U8) /\ Len(Contents) = fill_cnt
  BY DEF RingTypeOK, Contents, Slot, Offsets

\* RINGBUF_Put appends at the end of the queue: the slot it writes holds none
\* of the queued bytes.
LEMMA PutAppends ==
  ASSUME RingInv, NEW c \in U8, RINGBUF_Put(c)
  PROVE  Fifo!Put(c)
<1>1. Len(Contents) = fill_cnt /\ Contents \in Seq(U8)
  BY ContentsSeq DEF RingInv
<1>2. Contents' = Append(Contents, c)
  <2>1. Contents' = [n \in 1 .. fill_cnt + 1 |-> mem'[Slot(n - 1)]]
    BY DEF RINGBUF_Put, Contents, Slot
  <2>2. Append(Contents, c) = [n \in 1 .. fill_cnt + 1 |->
                                 IF n = fill_cnt + 1 THEN c ELSE mem[Slot(n - 1)]]
    BY <1>1 DEF Contents, RingInv, RingTypeOK
  <2>3. \A n \in 1 .. fill_cnt : mem'[Slot(n - 1)] = mem[Slot(n - 1)]
    BY DEF RingInv, RingTypeOK, PointersAgree, Offsets, Slot, RINGBUF_Put
  <2>4. mem'[Slot(fill_cnt)] = c
    BY DEF RingInv, RingTypeOK, PointersAgree, Offsets, Slot, RINGBUF_Put
  <2> QED BY <2>1, <2>2, <2>3, <2>4 DEF RingInv, RingTypeOK
<1> QED BY <1>1, <1>2 DEF RINGBUF_Put, Fifo!Put

\* RINGBUF_Get takes the oldest byte and leaves the others in order.
LEMMA GetTakesHead ==
  ASSUME RingInv, RINGBUF_Get
  PROVE  Fifo!Get
<1>1. Len(Contents) = fill_cnt /\ Contents \in Seq(U8)
  BY ContentsSeq DEF RingInv
<1>2. got' = Head(Contents) /\ Contents # << >>
  BY <1>1 DEF RINGBUF_Get, Contents, Slot, RingInv, RingTypeOK, Offsets
<1>3. Contents' = Tail(Contents)
  <2>1. Contents' = [n \in 1 .. fill_cnt - 1 |-> mem[Slot(n)]]
    BY DEF RINGBUF_Get, Contents, Slot, RingInv, RingTypeOK, Offsets, Bump
  <2>2. Tail(Contents) = [n \in 1 .. fill_cnt - 1 |-> mem[Slot(n)]]
    BY <1>1 DEF Contents, RingInv, RingTypeOK, RINGBUF_Get
  <2> QED BY <2>1, <2>2
<1> QED BY <1>2, <1>3 DEF Fifo!Get

\* The ring implements the bounded first-in first-out queue: what RINGBUF_Get
\* returns is always the oldest byte put and not yet taken.
THEOREM RingImplementsFifo == RingSpec => FifoSpec
<1>1. RINGBUF_Init => Fifo!Init
  BY DEF RINGBUF_Init, Fifo!Init, Contents
<1>2. RingInv /\ [RingNext]_ringVars => [Fifo!Next]_<<Contents, got>>
  <2> SUFFICES ASSUME RingInv, [RingNext]_ringVars
               PROVE  [Fifo!Next]_<<Contents, got>>
    OBVIOUS
  <2>1. ASSUME NEW c \in U8, RINGBUF_Put(c) PROVE Fifo!Next
    BY <2>1, PutAppends DEF Fifo!Next
  <2>2. CASE RINGBUF_Get
    BY <2>2, GetTakesHead DEF Fifo!Next
  <2>3. CASE GetEmpty
    <3>1. Len(Contents) = fill_cnt /\ Contents \in Seq(U8)
      BY ContentsSeq DEF RingInv
    <3>2. Contents = << >>
      BY <3>1, <2>3 DEF GetEmpty, RingInv, RingTypeOK
    <3>3. Contents' = Contents /\ got' = -1
      BY <2>3 DEF GetEmpty, Contents, Slot
    <3> QED BY <3>2, <3>3 DEF Fifo!GetNothing, Fifo!Next
  <2>4. CASE UNCHANGED ringVars
    BY <2>4 DEF ringVars, Contents, Slot
  <2> QED BY <2>1, <2>2, <2>3, <2>4 DEF RingNext
<1> QED BY <1>1, <1>2, RingInitInv, RingNextInv, PTL DEF RingSpec, FifoSpec, Fifo!Spec
=============================================================================
