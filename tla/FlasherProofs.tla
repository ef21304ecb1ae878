---------------------------- MODULE FlasherProofs ----------------------------
(***************************************************************************)
(* Two threads share the flags of a burn.  For any number of images and of *)
(* threads at most one burns, a failed burn is never shown as another, and *)
(* success is shown only of what is in the flash.  The last rests on       *)
(* BurnInv: what the thread has passed is written, and of the packet it    *)
(* is at there is one copy, or one answer, under way, or none.             *)
(***************************************************************************)
EXTENDS Flasher, TLAPS

Pcs == {"none", "new", "check", "prepare", "send", "wait", "failed", "end"}

\* A thread that has nothing left to send is at its loop's head, or through.
Jobs == {j \in [Workers -> [pc : Pcs, at : Ops \cup {Done}]] :
           \A w \in Workers : j[w].at = Done => j[w].pc \in {"check", "end"}}

\* What follows a packet of a burn.
LEMMA AfterType == \A p \in Ops : After(p) \in Ops \cup {Done}
<1> USE FlasherAssumption
<1>1. \A i \in 1 .. Images, k \in 1 .. Sectors : Packet("data", i, k) \in Ops
  <2> SUFFICES ASSUME NEW i \in 1 .. Images, NEW k \in 1 .. Sectors
               PROVE  Packet("data", i, k) \in Ops
    OBVIOUS
  <2>1. <<i, k>> \in Places /\ <<i, k>>[1] = i /\ <<i, k>>[2] = k
    BY DEF Places
  <2> QED BY <2>1 DEF Ops
<1>2. \A i \in 1 .. Images : Packet("base", i, 0) \in Ops
  BY DEF Ops
<1>3. After(Reg) \in Ops
  BY <1>2 DEF After, Reg, Packet
<1>4. \A i \in 1 .. Images : After(Packet("base", i, 0)) = Packet("data", i, 1)
  BY DEF After, Packet
<1>5. ASSUME NEW q \in Places PROVE After(Packet("data", q[1], q[2])) \in Ops \cup {Done}
  <2>1. q[1] \in 1 .. Images /\ q[2] \in 1 .. Sectors
    BY DEF Places
  <2> DEFINE p == Packet("data", q[1], q[2])
  <2>2. p.op = "data" /\ p.img = q[1] /\ p.sec = q[2]
    BY DEF Packet
  <2> HIDE DEF p
  <2>3. After(p) \in Ops \cup {Done}
    BY <1>1, <1>2, <2>1, <2>2 DEF After
  <2> QED BY <2>3 DEF p
<1>6. \A p \in Ops : \/ p = Reg
                     \/ \E i \in 1 .. Images : p = Packet("base", i, 0)
                     \/ \E q \in Places : p = Packet("data", q[1], q[2])
  BY DEF Ops
<1> QED BY <1>1, <1>3, <1>4, <1>5, <1>6

\* No packet is the end of a burn.
LEMMA DoneIsNone == Reg \in Ops /\ Reg # Done /\ Done \notin Ops
  BY DEF Reg, Done, Ops, Packet

\* What a step does to the threads: one of them goes from pc to pc.
Moves(w, from, to) ==
  /\ At(w, from)
  /\ job'[w].pc = to
  /\ \A v \in Workers \ {w} : job'[v] = job[v]

\* A burn thread is past its first step only with IsThreadStarted set.
Seen == \A w \in Workers : ~At(w, "none") => At(w, "new") \/ threadStarted

\* A thread that is about to show its failure has stopped the burn, and
\* nothing but the next click on Flash lets another begin.
Stopped == /\ \A w \in Workers : At(w, "failed") => burnOK
           /\ icon = "fail" => burnOK

Inv == job \in Jobs /\ OneBurner /\ Seen /\ Stopped

LEMMA InitInv == Init => Inv
  BY DoneIsNone DEF Init, Inv, Jobs, Pcs, Idle, OneBurner, Seen, Stopped, At

-----------------------------------------------------------------------------
\* Every step of a thread, as a move.
LEMMA ThreadMoves ==
  ASSUME job \in Jobs, NEW w \in Workers, Thread(w)
  PROVE  /\ job' \in Jobs
         /\ \/ Moves(w, "new", "check") /\ threadStarted' = TRUE /\ UNCHANGED <<burnOK, icon>>
            \/ /\ \/ Moves(w, "check", "end") \/ Moves(w, "check", "prepare")
                  \/ Moves(w, "prepare", "send") \/ Moves(w, "send", "wait")
                  \/ Moves(w, "wait", "check")
               /\ UNCHANGED <<burnOK, icon, threadStarted>>
            \/ Moves(w, "wait", "failed") /\ burnOK' = TRUE /\ UNCHANGED <<icon, threadStarted>>
            \/ Moves(w, "failed", "check") /\ icon' = "fail" /\ UNCHANGED <<burnOK, threadStarted>>
            \/ Moves(w, "end", "none") /\ threadStarted' = FALSE /\ UNCHANGED <<burnOK, icon>>
<1> USE DoneIsNone
<1> USE DEF Jobs, Pcs, Moves, At, gui
<1>1. CASE Begin(w)
  BY <1>1 DEF Begin, Goto
<1>2. CASE Check(w)
  BY <1>2 DEF Check, Goto
<1>3. CASE Prepare(w)
  BY <1>3 DEF Prepare, Goto
<1>4. CASE SendPacket(w)
  BY <1>4 DEF SendPacket, Goto
<1>5. CASE Waited(w)
  BY <1>5, AfterType DEF Waited, Next1
<1>6. CASE TimeOut(w)
  BY <1>6 DEF TimeOut, Goto
<1>7. CASE ShowFail(w)
  BY <1>7, AfterType DEF ShowFail, Next1
<1>8. CASE End(w)
  BY <1>8 DEF End, Idle
<1> QED BY <1>1, <1>2, <1>3, <1>4, <1>5, <1>6, <1>7, <1>8 DEF Thread

\* What is sent and what is answered has its type.
LEMMA SendType ==
  ASSUME TypeOK, NEW p \in Packets, Send(p), Len(sent) < MaxLine
  PROVE  sent' \in Seq(Packets) /\ Len(sent') <= MaxLine
  BY FlasherAssumption DEF Send, TypeOK

LEMMA AnswerType ==
  ASSUME TypeOK, NEW a \in {"sync", "op"}, Answer(a)
  PROVE  acks' \in Seq({"sync", "op"})
  BY SMTT(30) DEF Answer, TypeOK

LEMMA TakeType ==
  ASSUME TypeOK, sent # << >>
  PROVE  Head(sent) \in Packets /\ Tail(sent) \in Seq(Packets) /\ Len(Tail(sent)) <= MaxLine
  BY FlasherAssumption DEF TypeOK

LEMMA LineType == ASSUME TypeOK, LineFree PROVE Len(sent) < MaxLine
<1>1. Len(acks) \in Nat /\ Len(sent) \in Nat
  BY DEF TypeOK
<1> QED BY <1>1, FlasherAssumption DEF LineFree

\* A thread's step keeps every variable's type.
LEMMA ThreadType ==
  ASSUME TypeOK, job \in Jobs, NEW w \in Workers, Thread(w) PROVE TypeOK'
<1>1. job' \in [Workers -> [pc : Pcs, at : Ops \cup {Done}]]
  BY ThreadMoves DEF Jobs
<1>2. sent' \in Seq(Packets) /\ Len(sent') <= MaxLine
  <2>1. CASE SendPacket(w)
    <3>1. job[w].at \in Packets
      BY <2>1 DEF SendPacket, At, Jobs, Packets
    <3> QED BY <2>1, <3>1, SendType, LineType DEF SendPacket
  <2>2. CASE ~SendPacket(w)
    BY <2>2 DEF Thread, TypeOK, Begin, Check, Prepare, Waited, TimeOut, ShowFail, End, line
  <2> QED BY <2>1, <2>2
<1>3. UNCHANGED <<timerOn, portOpen, tick, acks, chip, base, flash>>
  BY DEF Thread, Begin, Check, Prepare, SendPacket, Waited, TimeOut, ShowFail, End,
         gui, line, esp
<1>4. /\ threadStarted' \in BOOLEAN /\ lastOp' \in BOOLEAN /\ burnOK' \in BOOLEAN
      /\ icon' \in {"none", "wait", "fail", "success"}
      /\ runState' \in {"handshake", "burn", "run", "finished"}
  BY DEF TypeOK, Thread, Begin, Check, Prepare, SendPacket, Waited, TimeOut, ShowFail, End, gui
<1>5. header' \in {-1, 0, 1, 2, 3, 21}
  BY FlasherAssumption DEF TypeOK, Thread, Begin, Check, Prepare, SendPacket, Waited, TimeOut,
     ShowFail, End, SPIModeByte
<1> QED BY <1>1, <1>2, <1>3, <1>4, <1>5 DEF TypeOK, Pcs

\* So does a step of the chip.
LEMMA ChipType == ASSUME TypeOK, Chip PROVE TypeOK'
<1>1. sent # << >> /\ sent' = Tail(sent) /\ UNCHANGED <<gui, lastOp, job, header>>
  BY DEF Chip, Ignore, Synchronize, Execute
<1>2. acks' \in Seq({"sync", "op"})
  BY AnswerType DEF TypeOK, Chip, Ignore, Synchronize, Execute
<1>3. /\ chip' \in {"app", "waiting", "loader"} /\ base' \in 0 .. Images
      /\ flash' \in [Places -> Places \cup {Erased}]
  <2>1. CASE Execute
    <3> DEFINE p == Head(sent)
    <3>1. p \in Packets /\ p.op # "sync" /\ chip' = chip
      BY <2>1, TakeType DEF Execute
    <3>2. p.op = "base" => p.img \in 1 .. Images
      BY <3>1 DEF Packets, Ops, Sync, Reg, Packet
    <3>3. p.op = "data" => <<p.img, p.sec>> \in Places
      <4> SUFFICES ASSUME p.op = "data" PROVE <<p.img, p.sec>> \in Places
        OBVIOUS
      <4>1. PICK q \in Places : p = Packet("data", q[1], q[2])
        BY <3>1 DEF Packets, Ops, Sync, Reg, Packet
      <4>2. p.img = q[1] /\ p.sec = q[2]
        BY <4>1 DEF Packet
      <4> QED BY <4>2 DEF Places
    <3>4. base' = IF p.op = "base" THEN p.img ELSE base
      BY <2>1 DEF Execute
    <3>5. flash' = [q \in Places |->
                     IF p.op = "base" /\ q[1] = p.img THEN Erased
                     ELSE IF p.op = "data" /\ q = <<base, p.sec>> THEN <<p.img, p.sec>>
                     ELSE flash[q]]
      BY <2>1 DEF Execute
    <3> HIDE DEF p
    <3>6. base' \in 0 .. Images
      BY <3>2, <3>4 DEF TypeOK
    <3>7. flash' \in [Places -> Places \cup {Erased}]
      BY <3>3, <3>5 DEF TypeOK
    <3> QED BY <3>1, <3>6, <3>7 DEF TypeOK
  <2>2. CASE ~Execute
    BY <2>2 DEF TypeOK, Chip, Ignore, Synchronize, esp
  <2> QED BY <2>1, <2>2
<1>4. sent' \in Seq(Packets) /\ Len(sent') <= MaxLine
  BY <1>1, TakeType
<1> QED BY <1>1, <1>2, <1>3, <1>4 DEF TypeOK, gui

\* And a step of the GUI.
LEMMA GuiType ==
  ASSUME TypeOK, StartBurn \/ StopBurn \/ Timer \/ ReceiveData PROVE TypeOK'
<1>1. job' \in [Workers -> [pc : Pcs, at : Ops \cup {Done}]]
  BY DoneIsNone DEF TypeOK, StartBurn, StopBurn, Timer, ReceiveData, TickStopped,
     TickHandshake, TickReset, ResetChip, ResetDone, TickRun, TickFinished, TickBurn, Close, Pcs
<1>2. sent' \in Seq(Packets) /\ Len(sent') <= MaxLine
  <2>1. CASE UNCHANGED sent
    BY <2>1 DEF TypeOK
  <2>2. CASE sent' = << >>
    BY <2>2, FlasherAssumption
  <2>3. CASE Send(Sync) /\ LineFree
    BY <2>3, SendType, LineType DEF Packets
  <2> QED BY <2>1, <2>2, <2>3 DEF StartBurn, StopBurn, Timer, ReceiveData, TickStopped,
     TickHandshake, TickReset, ResetChip, ResetDone, TickRun, TickFinished, TickBurn, Close, line
<1>3. acks' \in Seq({"sync", "op"})
  <2>1. acks' \in {acks, << >>} \/ (acks # << >> /\ acks' = Tail(acks))
    BY DEF StartBurn, StopBurn, Timer, ReceiveData, TickStopped,
       TickHandshake, TickReset, ResetChip, ResetDone, TickRun, TickFinished, TickBurn, Close, line
  <2> DEFINE A == {"sync", "op"}
  <2>2. acks \in Seq(A)
    BY DEF TypeOK
  <2> HIDE DEF A
  <2>3. << >> \in Seq(A) /\ (acks # << >> => Tail(acks) \in Seq(A))
    BY <2>2
  <2>4. acks' \in Seq(A)
    BY <2>1, <2>2, <2>3
  <2> QED BY <2>4 DEF A
<1>4. /\ threadStarted' \in BOOLEAN /\ lastOp' \in BOOLEAN /\ burnOK' \in BOOLEAN
      /\ timerOn' \in BOOLEAN /\ portOpen' \in BOOLEAN
  BY DEF TypeOK, StartBurn, StopBurn, Timer, ReceiveData, TickStopped,
     TickHandshake, TickReset, ResetChip, ResetDone, TickRun, TickFinished, TickBurn, Close, gui
<1>5. /\ icon' \in {"none", "wait", "fail", "success"}
      /\ runState' \in {"handshake", "burn", "run", "finished"}
      /\ tick' \in {"idle", "resetting", "reset"}
      /\ header' = header /\ flash' = flash /\ base' \in {0, base} /\ chip' \in {chip, "waiting"}
  BY DEF TypeOK, StartBurn, StopBurn, Timer, ReceiveData, TickStopped, TickHandshake,
     TickReset, ResetChip, ResetDone, TickRun, TickFinished, TickBurn, Close, gui, esp
<1>6. base' \in 0 .. Images /\ chip' \in {"app", "waiting", "loader"}
  BY <1>5, FlasherAssumption DEF TypeOK
<1> QED BY <1>1, <1>2, <1>3, <1>4, <1>5, <1>6 DEF TypeOK, Pcs

Types == TypeOK /\ job \in Jobs

LEMMA InitTypes == Init => Types
<1> USE DEF Types
<1>1. ASSUME Init PROVE job \in Jobs
  BY <1>1, DoneIsNone DEF Init, Jobs, Pcs, Idle
<1>2. ASSUME Init PROVE TypeOK
  <2>1. job \in [Workers -> [pc : Pcs, at : Ops \cup {Done}]]
    BY <1>1, <1>2 DEF Jobs
  <2>2. sent \in Seq(Packets) /\ Len(sent) <= MaxLine /\ acks \in Seq({"sync", "op"})
    BY <1>2, FlasherAssumption DEF Init
  <2>3. flash \in [Places -> Places \cup {Erased}]
    BY <1>2 DEF Init
  <2>4. base \in 0 .. Images /\ header \in {-1, 0, 1, 2, 3, 21} /\ chip \in {"app", "waiting", "loader"}
    BY <1>2, FlasherAssumption DEF Init
  <2> QED BY <1>2, <2>1, <2>2, <2>3, <2>4 DEF Init, TypeOK, Pcs
<1> QED BY <1>1, <1>2

LEMMA NextTypes == Types /\ [Next]_vars => Types'
<1> SUFFICES ASSUME Types, [Next]_vars PROVE Types'
  OBVIOUS
<1> USE DEF Types
<1>1. CASE \E w \in Workers : Thread(w)
  BY <1>1, ThreadType, ThreadMoves
<1>2. CASE StartBurn \/ StopBurn \/ Timer \/ ReceiveData
  <2>1. job' \in Jobs
    BY <1>2, DoneIsNone DEF StartBurn, StopBurn, Timer, ReceiveData, TickStopped, TickHandshake,
       TickReset, ResetChip, ResetDone, TickRun, TickFinished, TickBurn, Close, Jobs, Pcs
  <2> QED BY <1>2, <2>1, GuiType
<1>3. CASE Chip
  BY <1>3, ChipType DEF Chip, Ignore, Synchronize, Execute
<1>4. CASE UNCHANGED vars
  BY <1>4 DEF vars, gui, line, esp, TypeOK
<1> QED BY <1>1, <1>2, <1>3, <1>4 DEF Next

\* Every variable keeps its type, whatever the clicks and the threads do; no
\* more is sent than the line holds, and no thread is past its last packet.
THEOREM TypesCorrect == Spec => []TypeOK
<1>1. Types => TypeOK
  BY DEF Types
<1> QED BY <1>1, InitTypes, NextTypes, PTL DEF Spec

-----------------------------------------------------------------------------
\* A thread's step keeps the invariant: while it is under way no other is.
LEMMA ThreadInv == ASSUME Inv, NEW w \in Workers, Thread(w) PROVE Inv'
<1>1. job' \in Jobs
  BY ThreadMoves DEF Inv
<1>2. \A v \in Workers : v # w => At(v, "none") /\ job'[v] = job[v]
  BY ThreadMoves DEF Inv, OneBurner, Moves, At
<1>3. OneBurner'
  BY <1>2 DEF OneBurner, At
<1>4. Seen'
  BY <1>2, ThreadMoves DEF Inv, Seen, Moves, At
<1>5. Stopped'
  BY <1>2, ThreadMoves DEF Inv, Stopped, Moves, At
<1> QED BY <1>1, <1>3, <1>4, <1>5 DEF Inv

\* A tick starts a thread only when none is there.
LEMMA TickBurnInv == ASSUME Inv, NEW w \in Workers, TickBurn(w), Prompt PROVE Inv'
<1>1. /\ job' \in Jobs /\ job'[w].pc = "new"
      /\ \A v \in Workers \ {w} : job'[v] = job[v]
  BY DoneIsNone DEF TickBurn, Inv, Jobs, Pcs
<1>2. \A v \in Workers : At(v, "none")
  BY DEF Prompt, TickBurn, Inv, Seen
<1>3. OneBurner' /\ Seen'
  BY <1>1, <1>2 DEF OneBurner, Seen, At
<1>4. Stopped'
  BY <1>1 DEF Inv, Stopped, At, TickBurn, gui
<1> QED BY <1>1, <1>3, <1>4 DEF Inv

\* Everything else leaves the threads alone, and BurnOK set or sets it; only a
\* click on Flash clears it, with the icon, when no thread is left.
LEMMA OtherInv ==
  ASSUME Inv, Next, Prompt,
         \A w \in Workers : ~Thread(w) /\ ~TickBurn(w)
  PROVE  Inv'
<1>1. UNCHANGED <<job, threadStarted>>
  BY DEF Next, Timer, Chip, StartBurn, StopBurn, TickStopped, TickHandshake, TickReset,
         ResetChip, ResetDone, TickRun, TickFinished, ReceiveData, Ignore,
         Synchronize, Execute, Close, gui
<1>2. CASE StartBurn
  <2>1. icon' = "wait" /\ \A w \in Workers : At(w, "none")
    BY <1>2 DEF StartBurn, Prompt
  <2> QED BY <2>1, <1>1 DEF Inv, Jobs, OneBurner, Seen, Stopped, At
<1>3. CASE ~StartBurn
  <2>1. (burnOK => burnOK') /\ (icon' = "fail" => icon = "fail" \/ burnOK')
    BY <1>3 DEF Next, Timer, Chip, StopBurn, TickStopped, TickHandshake, TickReset,
           ResetChip, ResetDone, TickRun, TickFinished, ReceiveData, Ignore,
           Synchronize, Execute, Close, gui
  <2> QED BY <2>1, <1>1 DEF Inv, Jobs, OneBurner, Seen, Stopped, At
<1> QED BY <1>2, <1>3

LEMMA NextInv == Inv /\ [Next /\ Prompt]_vars => Inv'
<1>1. Inv /\ UNCHANGED vars => Inv'
  BY DEF Inv, Jobs, OneBurner, Seen, Stopped, At, vars, gui
<1> QED BY <1>1, ThreadInv, TickBurnInv, OtherInv

-----------------------------------------------------------------------------
\* However clicks, ticks and answers interleave, at most one thread sends: with
\* threads that begin within a tick.
THEOREM OneThreadBurns == PromptSpec => []OneBurner
<1>1. Inv => OneBurner
  BY DEF Inv
<1> QED BY <1>1, InitInv, NextInv, PTL DEF PromptSpec

\* After a failure, or Stop, no late answer, tick or thread turns the icon to
\* success.
LEMMA StepSticks == Inv /\ [Next /\ Prompt]_vars => [icon = "fail" /\ icon' # icon => StartBurn]_vars
<1> SUFFICES ASSUME Inv, Next, icon = "fail", icon' # "fail" PROVE StartBurn
  OBVIOUS
<1>1. burnOK = TRUE \/ burnOK
  BY DEF Inv, Stopped
<1>2. CASE \E w \in Workers : Thread(w)
  BY <1>2, ThreadMoves DEF Inv
<1>3. CASE \A w \in Workers : ~Thread(w)
  BY <1>1, <1>3 DEF Next, Timer, Chip, StopBurn, TickStopped, TickHandshake, TickReset,
         ResetChip, ResetDone, TickRun, TickFinished, TickBurn, ReceiveData, Ignore,
         Synchronize, Execute, Close, gui
<1> QED BY <1>2, <1>3

THEOREM FailureSticks == PromptSpec => FailSticks
  BY InitInv, NextInv, StepSticks, PTL DEF PromptSpec, FailSticks

-----------------------------------------------------------------------------
\* All of s is z; one place of s is x and the rest is z.
All(s, z) == \A i \in 1 .. Len(s) : s[i] = z
Only(s, x, z) == \E i \in 1 .. Len(s) : s[i] = x /\ \A j \in 1 .. Len(s) : j # i => s[j] = z

\* Two sequences, the line, with no operation of a burn in them, with the one
\* packet p, with one answer to an operation.
NoOps    == All(sent, Sync) /\ All(acks, "sync")
Asked(p) == Only(sent, p, Sync) /\ All(acks, "sync")
Answered == All(sent, Sync) /\ Only(acks, "op", "sync")

\* What is written when p is the next packet to be sent.
Progress(p) ==
  /\ \A q \in Places : q[1] < p.img \/ (q[1] = p.img /\ q[2] < p.sec) => flash[q] = q
  /\ p.op = "data" => base = p.img

Written  == \A p \in Places : flash[p] = p
NoThread == \A w \in Workers : At(w, "none")

\* A thread that waits for the answer to p: p or its answer is under way, or
\* lost, and an answer that came is the answer to p.
Waiting(p) == \/ NoOps /\ Progress(After(p))
              \/ /\ ~lastOp
                 /\ \/ NoOps /\ Progress(p)
                    \/ Asked(p) /\ Progress(p)
                    \/ Answered /\ Progress(After(p))

Busy(w) ==
  LET p == job[w].at IN
  /\ runState = "burn" /\ tick # "resetting"
  /\ At(w, "new") => p = Reg
  /\ At(w, "end") => p = Done
  /\ At(w, "send") => ~lastOp
  /\ IF At(w, "wait") THEN Waiting(p) ELSE NoOps /\ Progress(p)

\* While a burn is neither over nor stopped: what a thread has done is in the
\* flash, and no answer of an earlier packet can be taken for a later one's.
AllBusy == \A w \in Workers : ~At(w, "none") => Busy(w)
Quiet   == NoThread => NoOps
Ran     == runState = "run" => NoThread /\ Written
Going   == ~burnOK => AllBusy /\ Quiet /\ Ran
Purged  == ~portOpen => sent = << >>
Shown   == icon = "success" => ~timerOn /\ ~portOpen /\ NoThread /\ Written

BurnInv == TypeOK /\ job \in Jobs /\ Inv /\ Purged /\ Going /\ Shown

-----------------------------------------------------------------------------
\* What taking and adding an element does to All and Only.
LEMMA TakeAll ==
  ASSUME NEW S, NEW s \in Seq(S), s # << >>, NEW z, All(s, z)
  PROVE  Head(s) = z /\ All(Tail(s), z)
  BY DEF All

LEMMA TakeOnly ==
  ASSUME NEW S, NEW s \in Seq(S), s # << >>, NEW x, NEW z, Only(s, x, z)
  PROVE  \/ Head(s) = x /\ All(Tail(s), z)
         \/ Head(s) = z /\ Only(Tail(s), x, z)
<1>1. PICK i \in 1 .. Len(s) : s[i] = x /\ \A j \in 1 .. Len(s) : j # i => s[j] = z
  BY DEF Only
<1>2. Len(Tail(s)) = Len(s) - 1 /\ \A j \in 1 .. Len(Tail(s)) : Tail(s)[j] = s[j + 1]
  OBVIOUS
<1>3. CASE i = 1
  BY <1>1, <1>2, <1>3 DEF All
<1>4. CASE i # 1
  <2>1. i - 1 \in 1 .. Len(Tail(s)) /\ Tail(s)[i - 1] = x
    BY <1>1, <1>2, <1>4
  <2>2. \A j \in 1 .. Len(Tail(s)) : j # i - 1 => Tail(s)[j] = z
    BY <1>1, <1>2
  <2> QED BY <1>1, <1>4, <2>1, <2>2 DEF Only
<1> QED BY <1>3, <1>4

LEMMA AddAll ==
  ASSUME NEW S, NEW s \in Seq(S), NEW z \in S, All(s, z)
  PROVE  All(Append(s, z), z)
  BY DEF All

LEMMA AddOnly ==
  ASSUME NEW S, NEW s \in Seq(S), NEW x, NEW z \in S, Only(s, x, z)
  PROVE  Only(Append(s, z), x, z)
<1>1. PICK i \in 1 .. Len(s) : s[i] = x /\ \A j \in 1 .. Len(s) : j # i => s[j] = z
  BY DEF Only
<1>2. Append(s, z)[i] = x /\ i \in 1 .. Len(Append(s, z))
  BY <1>1
<1>3. \A j \in 1 .. Len(Append(s, z)) : j # i => Append(s, z)[j] = z
  BY <1>1
<1> QED BY <1>2, <1>3 DEF Only

LEMMA AddFirst ==
  ASSUME NEW S, NEW s \in Seq(S), NEW x \in S, NEW z, All(s, z)
  PROVE  Only(Append(s, x), x, z)
<1>1. Len(s) + 1 \in 1 .. Len(Append(s, x)) /\ Append(s, x)[Len(s) + 1] = x
  OBVIOUS
<1>2. \A j \in 1 .. Len(Append(s, x)) : j # Len(s) + 1 => Append(s, x)[j] = z
  BY DEF All
<1> QED BY <1>1, <1>2 DEF Only

-----------------------------------------------------------------------------
\* What is on the line has its type.
LEMMA LineTypes == ASSUME TypeOK PROVE sent \in Seq(Packets) /\ acks \in Seq({"sync", "op"})
  BY DEF TypeOK

\* The packet that is executed does what the burn counts as done.
LEMMA ExecuteProgress ==
  ASSUME TypeOK, NEW p \in Ops, Progress(p), Execute, Head(sent) = p
  PROVE  Progress(After(p))'
<1>1. /\ base' = IF p.op = "base" THEN p.img ELSE base
      /\ flash' = [q \in Places |->
                     IF p.op = "base" /\ q[1] = p.img THEN Erased
                     ELSE IF p.op = "data" /\ q = <<base, p.sec>> THEN <<p.img, p.sec>>
                     ELSE flash[q]]
  BY DEF Execute
<1>2. CASE p = Reg
  BY <1>2, FlasherAssumption DEF Reg, Packet, After, Progress, Places
<1>3. ASSUME NEW i \in 1 .. Images, p = Packet("base", i, 0) PROVE Progress(After(p))'
  <2>1. p.op = "base" /\ p.img = i /\ p.sec = 0 /\ After(p) = Packet("data", i, 1)
    BY <1>3, FlasherAssumption DEF Packet, After
  <2>2. After(p).op = "data" /\ After(p).img = i /\ After(p).sec = 1
    BY <2>1 DEF Packet
  <2>3. ASSUME NEW q \in Places, q[1] < i \/ (q[1] = i /\ q[2] < 1) PROVE flash'[q] = q
    BY <1>1, <2>1, <2>3 DEF Progress, Places
  <2> QED BY <1>1, <2>1, <2>2, <2>3 DEF Progress
<1>4. ASSUME NEW r \in Places, p = Packet("data", r[1], r[2]) PROVE Progress(After(p))'
  <2>1. /\ p.op = "data" /\ p.img = r[1] /\ p.sec = r[2] /\ base = r[1]
        /\ r = <<r[1], r[2]>> /\ r[1] \in 1 .. Images /\ r[2] \in 1 .. Sectors
    BY <1>4 DEF Packet, Places, Progress
  <2>2. base' = r[1] /\ \A q \in Places : flash'[q] = IF q = r THEN r ELSE flash[q]
    BY <1>1, <2>1
  <2>3. \A q \in Places : q = r <=> q[1] = r[1] /\ q[2] = r[2]
    BY DEF Places
  <2>4. \A q \in Places : q[1] < r[1] \/ (q[1] = r[1] /\ q[2] <= r[2]) => flash'[q] = q
    BY <2>1, <2>2, <2>3 DEF Progress, Places
  <2>5. CASE r[2] < Sectors
    <3>1. After(p).op = "data" /\ After(p).img = r[1] /\ After(p).sec = r[2] + 1
      BY <2>1, <2>5 DEF After, Packet
    <3> QED BY <2>1, <2>2, <2>4, <3>1 DEF Progress, Places
  <2>6. CASE ~(r[2] < Sectors)
    <3>1. After(p).op # "data" /\ After(p).img = r[1] + 1 /\ After(p).sec = 0
      BY <2>1, <2>6, FlasherAssumption DEF After, Packet, Done
    <3>2. r[2] = Sectors
      BY <2>1, <2>6, FlasherAssumption
    <3> QED BY <2>1, <2>4, <3>1, <3>2 DEF Progress, Places
  <2> QED BY <2>5, <2>6
<1> QED BY <1>2, <1>3, <1>4 DEF Ops

\* With no operation on the line the chip changes no flash, and none comes.
LEMMA ChipQuiet ==
  ASSUME TypeOK, NoOps, Chip PROVE NoOps' /\ UNCHANGED <<base, flash>>
<1>1. sent # << >> /\ sent' = Tail(sent) /\ Head(sent) = Sync /\ All(Tail(sent), Sync)
  BY LineTypes, TakeAll DEF Chip, Ignore, Synchronize, Execute, NoOps
<1>2. Sync.op = "sync"
  BY DEF Sync, Packet
<1>3. All(Append(acks, "sync"), "sync")
  BY LineTypes, AddAll DEF NoOps
<1>4. acks' \in {acks, Append(acks, "sync")} /\ UNCHANGED <<base, flash>>
  BY <1>1, <1>2 DEF Chip, Ignore, Synchronize, Execute, Answer, esp
<1> QED BY <1>1, <1>3, <1>4 DEF NoOps

LEMMA ChipAnswered ==
  ASSUME TypeOK, Answered, Chip PROVE Answered' /\ UNCHANGED <<base, flash>>
<1>1. sent # << >> /\ sent' = Tail(sent) /\ Head(sent) = Sync /\ All(Tail(sent), Sync)
  BY LineTypes, TakeAll DEF Chip, Ignore, Synchronize, Execute, Answered
<1>2. Sync.op = "sync"
  BY DEF Sync, Packet
<1>3. Only(Append(acks, "sync"), "op", "sync")
  BY LineTypes, AddOnly DEF Answered
<1>4. acks' \in {acks, Append(acks, "sync")} /\ UNCHANGED <<base, flash>>
  BY <1>1, <1>2 DEF Chip, Ignore, Synchronize, Execute, Answer, esp
<1> QED BY <1>1, <1>3, <1>4 DEF Answered

LEMMA ChipAsked ==
  ASSUME TypeOK, NEW p \in Ops, Asked(p), Progress(p), Chip
  PROVE  \/ (Asked(p) /\ Progress(p))' \/ (NoOps /\ Progress(p))'
         \/ (NoOps /\ Progress(After(p)))' \/ (Answered /\ Progress(After(p)))'
<1>1. /\ sent # << >> /\ sent' = Tail(sent)
      /\ \/ Head(sent) = p /\ All(sent', Sync)
         \/ Head(sent) = Sync /\ Only(sent', p, Sync)
  <2>1. sent # << >> /\ sent' = Tail(sent) /\ Only(sent, p, Sync)
    BY DEF Chip, Ignore, Synchronize, Execute, Asked
  <2>2. \/ Head(sent) = p /\ All(Tail(sent), Sync)
        \/ Head(sent) = Sync /\ Only(Tail(sent), p, Sync)
    BY <2>1, LineTypes, TakeOnly
  <2> QED BY <2>1, <2>2
<1>2. p.op # "sync" /\ Sync.op = "sync"
  BY DEF Ops, Reg, Sync, Packet
<1>3. All(Append(acks, "sync"), "sync") /\ Only(Append(acks, "op"), "op", "sync")
  BY LineTypes, AddAll, AddFirst DEF Asked
<1>4. CASE Execute
  BY <1>1, <1>2, <1>3, <1>4, ExecuteProgress DEF Execute, Answer, Asked, NoOps, Answered
<1>5. CASE ~Execute
  <2>1. UNCHANGED <<base, flash>>
    BY <1>5 DEF Chip, Ignore, Synchronize, esp
  <2>2. /\ acks' \in {acks, Append(acks, "sync")}
    BY <1>5 DEF Chip, Ignore, Synchronize, Answer
  <2>3. Progress(p)'
    BY <2>1 DEF Progress
  <2> QED BY <1>1, <1>3, <2>2, <2>3 DEF Asked, NoOps
<1> QED BY <1>4, <1>5

LEMMA ChipWaiting ==
  ASSUME TypeOK, NEW p \in Ops, Waiting(p), Chip, lastOp' = lastOp
  PROVE  Waiting(p)'
<1>1. CASE NoOps
  BY <1>1, ChipQuiet DEF Waiting, Progress
<1>2. CASE ~lastOp /\ Asked(p) /\ Progress(p)
  BY <1>2, ChipAsked DEF Waiting
<1>3. CASE ~lastOp /\ Answered /\ Progress(After(p))
  BY <1>3, ChipAnswered DEF Waiting, Progress
<1> QED BY <1>1, <1>2, <1>3 DEF Waiting

\* A thread is the only one that is under way.
LEMMA OneOnly ==
  ASSUME BurnInv, NEW w \in Workers, ~At(w, "none")
  PROVE  \A v \in Workers : v # w => At(v, "none")
  BY DEF BurnInv, Inv, OneBurner

LEMMA ChipBurn == ASSUME BurnInv, Chip PROVE (Purged /\ Going /\ Shown)'
<1>1. UNCHANGED <<gui, lastOp, job>> /\ sent # << >>
  BY DEF Chip, Ignore, Synchronize, Execute
<1>2. Purged' /\ Shown'
  BY <1>1 DEF BurnInv, Purged, Shown, gui
<1>3. ASSUME ~burnOK PROVE (AllBusy /\ Quiet /\ Ran)'
  <2>1. AllBusy /\ Quiet /\ Ran
    BY <1>3 DEF BurnInv, Going
  <2>2. CASE NoThread
    BY <1>1, <2>1, <2>2, ChipQuiet DEF BurnInv, AllBusy, Quiet, Ran, NoThread, Written, At, gui
  <2>3. ASSUME NEW w \in Workers, ~At(w, "none") PROVE (AllBusy /\ Quiet /\ Ran)'
    <3>1. Busy(w) /\ job[w].at \in Ops \cup {Done}
      BY <2>1, <2>3 DEF AllBusy, BurnInv, Jobs
    <3>2. Busy(w)'
      <4>1. CASE ~At(w, "wait")
        BY <1>1, <3>1, <4>1, ChipQuiet DEF BurnInv, Busy, Progress, At, gui
      <4>2. CASE At(w, "wait")
        <5>1. job[w].at \in Ops
          BY <3>1, <4>2 DEF BurnInv, Jobs, At
        <5>2. \A p \in Ops : Waiting(p) => Waiting(p)'
          BY <1>1, ChipWaiting DEF BurnInv
        <5> QED BY <1>1, <3>1, <4>2, <5>1, <5>2 DEF Busy, At, gui
      <4> QED BY <4>1, <4>2
    <3>3. AllBusy' /\ ~NoThread'
      BY <1>1, <2>3, <3>2, OneOnly DEF AllBusy, NoThread, At
    <3> QED BY <1>1, <2>1, <2>3, <3>3 DEF Quiet, Ran, NoThread, gui
  <2> QED BY <2>2, <2>3 DEF NoThread
<1> QED BY <1>1, <1>2, <1>3 DEF Going, gui

\* All images are written when a thread has nothing left to send.
LEMMA AllDone == Progress(Done) => Written
<1>1. Done.img = Images + 1
  BY DEF Done, Packet
<1>2. \A q \in Places : q[1] < Images + 1
  BY FlasherAssumption DEF Places
<1> QED BY <1>1, <1>2 DEF Progress, Written

\* A thread that is not stopped does one step of the burn.
LEMMA ThreadGoing ==
  ASSUME BurnInv, NEW w \in Workers, Thread(w), ~burnOK'
  PROVE  (AllBusy /\ Quiet /\ Ran)'
<1>1. ~burnOK /\ ~At(w, "none")
  BY DEF Thread, Begin, Check, Prepare, SendPacket, Waited, TimeOut, ShowFail, End, gui, At
<1>2. /\ Busy(w) /\ \A v \in Workers : v # w => At(v, "none")
      /\ job \in Jobs
  BY <1>1, OneOnly DEF BurnInv, Going, AllBusy
<1>3. /\ \A v \in Workers : v # w => job'[v] = job[v]
      /\ job' \in Jobs
  BY <1>2, ThreadMoves DEF Moves
<1>4. CASE End(w)
  <2>1. job[w].at = Done /\ NoOps /\ Progress(Done)
    BY <1>2, <1>4 DEF Busy, End, At
  <2>2. Written' /\ NoOps'
    BY <1>4, <2>1, AllDone DEF End, Written, NoOps, line, esp
  <2>3. NoThread'
    BY <1>2, <1>3, <1>4 DEF End, Jobs, NoThread, Idle, At
  <2> QED BY <2>2, <2>3 DEF AllBusy, Quiet, Ran, NoThread
<1>5. ASSUME ~End(w) PROVE Busy(w)' /\ ~At(w, "none")'
  <2>1. UNCHANGED <<runState, tick, base, flash, acks>> /\ runState = "burn" /\ tick # "resetting"
    BY <1>2, <1>5 DEF Thread, Begin, Check, Prepare, SendPacket, Waited, TimeOut, ShowFail,
       gui, line, esp, Busy
  <2> USE DEF Jobs, Goto, At, Busy
  <2>2. CASE Begin(w)
    BY <1>2, <2>1, <2>2, DoneIsNone DEF Begin, NoOps, Progress, line
  <2>3. CASE Check(w)
    BY <1>1, <1>2, <2>1, <2>3 DEF Check, NoOps, Progress, line
  <2>4. CASE Prepare(w)
    BY <1>2, <2>1, <2>4 DEF Prepare, NoOps, Progress, line
  <2>5. CASE SendPacket(w)
    <3>1. PICK p \in Ops : p = job[w].at
      BY <1>2, <2>5 DEF SendPacket
    <3>2. NoOps /\ Progress(p) /\ ~lastOp
      BY <1>2, <2>5, <3>1 DEF SendPacket
    <3>3. All(sent', Sync) \/ Only(sent', p, Sync)
      <4>1. sent \in Seq(Packets) /\ p \in Packets /\ All(sent, Sync)
        BY <3>1, <3>2, LineTypes DEF BurnInv, NoOps, Packets
      <4>2. Only(Append(sent, p), p, Sync)
        BY <4>1, AddFirst
      <4>3. sent' = sent \/ sent' = Append(sent, p)
        BY <3>1, <2>5 DEF SendPacket, Send
      <4> QED BY <4>1, <4>2, <4>3
    <3>4. job'[w].at = p /\ job'[w].pc = "wait" /\ lastOp' = lastOp
      BY <1>2, <2>5, <3>1 DEF SendPacket
    <3>5. Progress(p)' /\ All(acks', "sync")
      BY <2>1, <3>2 DEF Progress, NoOps
    <3>6. Waiting(p)'
      BY <3>2, <3>3, <3>4, <3>5 DEF Waiting, NoOps, Asked
    <3>7. p # Done
      BY <3>1, DoneIsNone
    <3> QED BY <2>1, <3>4, <3>6, <3>7
  <2>6. CASE Waited(w)
    <3>1. NoOps /\ Progress(After(job[w].at))
      BY <1>1, <1>2, <2>6 DEF Waited, Waiting
    <3>2. job'[w].at = After(job[w].at) /\ job'[w].pc = "check"
      BY <1>2, <2>6 DEF Waited, Next1
    <3> QED BY <2>1, <2>6, <3>1, <3>2 DEF Waited, NoOps, Progress, line
  <2>7. ~TimeOut(w) /\ ~ShowFail(w)
    BY <1>1 DEF TimeOut, ShowFail, BurnInv, Inv, Stopped
  <2> QED BY <1>5, <2>2, <2>3, <2>4, <2>5, <2>6, <2>7 DEF Thread
<1>6. ASSUME ~End(w) PROVE (AllBusy /\ Quiet /\ Ran)'
  <2>1. AllBusy'
    BY <1>2, <1>3, <1>5, <1>6 DEF AllBusy, At
  <2>2. runState' = "burn" /\ ~NoThread'
    BY <1>5, <1>6 DEF Busy, NoThread
  <2> QED BY <2>1, <2>2 DEF Quiet, Ran
<1> QED BY <1>4, <1>6

LEMMA ThreadBurn ==
  ASSUME BurnInv, NEW w \in Workers, Thread(w) PROVE (Purged /\ Going /\ Shown)'
<1>1. Going'
  BY ThreadGoing DEF Going
<1>2. Purged'
  BY DEF BurnInv, Purged, Thread, Begin, Check, Prepare, SendPacket, Send, Waited, TimeOut,
     ShowFail, End, gui, line
<1>3. Shown'
  <2>1. ~NoThread
    BY DEF Thread, Begin, Check, Prepare, SendPacket, Waited, TimeOut, ShowFail, End, NoThread, At
  <2>2. icon' = "success" => icon = "success"
    BY DEF Thread, Begin, Check, Prepare, SendPacket, Waited, TimeOut, ShowFail, End, gui
  <2> QED BY <2>1, <2>2 DEF BurnInv, Shown
<1> QED BY <1>1, <1>2, <1>3

\* A synchronization packet changes nothing of what is under way.
LEMMA SyncLine ==
  ASSUME TypeOK, Send(Sync), acks' = acks
  PROVE  /\ NoOps => NoOps'
         /\ \A p \in Ops : Asked(p) => Asked(p)'
         /\ Answered => Answered'
<1>1. Sync \in Packets /\ sent \in Seq(Packets)
  BY DEF Packets, TypeOK
<1>2. CASE sent' = sent
  BY <1>2 DEF NoOps, Asked, Answered
<1>3. CASE sent' = Append(sent, Sync)
  <2>1. All(sent, Sync) => All(sent', Sync)
    BY <1>1, <1>3, AddAll
  <2>2. \A p \in Ops : Only(sent, p, Sync) => Only(sent', p, Sync)
    BY <1>1, <1>3, AddOnly
  <2> QED BY <2>1, <2>2 DEF NoOps, Asked, Answered
<1> QED BY <1>2, <1>3 DEF Send

\* What an answer that is received does to what is under way.
LEMMA AnswerLine ==
  ASSUME TypeOK, ReceiveData
  PROVE  /\ NoOps => NoOps' /\ Head(acks) = "sync"
         /\ \A p \in Ops : Asked(p) => Asked(p)' /\ Head(acks) = "sync"
         /\ Answered => (Answered' /\ Head(acks) = "sync") \/ (NoOps' /\ Head(acks) = "op")
<1> DEFINE A == {"sync", "op"}
<1>1. acks \in Seq(A) /\ acks # << >> /\ acks' = Tail(acks) /\ sent' = sent
  BY DEF TypeOK, ReceiveData
<1> HIDE DEF A
<1>2. All(acks, "sync") => Head(acks) = "sync" /\ All(acks', "sync")
  BY <1>1, TakeAll
<1>3. Only(acks, "op", "sync") => \/ Head(acks) = "op" /\ All(acks', "sync")
                                  \/ Head(acks) = "sync" /\ Only(acks', "op", "sync")
  BY <1>1, TakeOnly
<1> QED BY <1>1, <1>2, <1>3 DEF NoOps, Asked, Answered

LEMMA ReceiveBurn == ASSUME BurnInv, ReceiveData PROVE (Purged /\ Going /\ Shown)'
<1>1. /\ UNCHANGED <<burnOK, timerOn, portOpen, icon, threadStarted, tick, job, sent, esp>>
      /\ IF Head(acks) = "sync" THEN runState' = "burn" /\ lastOp' = lastOp
         ELSE lastOp' = TRUE /\ runState' = runState
  BY DEF ReceiveData
<1>2. Purged' /\ Shown'
  BY <1>1 DEF BurnInv, Purged, Shown, NoThread, Written, At, esp
<1>3. ASSUME ~burnOK PROVE (AllBusy /\ Quiet /\ Ran)'
  <2>1. AllBusy /\ Quiet /\ Ran
    BY <1>3 DEF BurnInv, Going
  <2>2. CASE NoThread
    <3>1. NoOps' /\ Head(acks) = "sync"
      BY <2>1, <2>2, AnswerLine DEF Quiet, BurnInv
    <3> QED BY <1>1, <2>2, <3>1 DEF AllBusy, Quiet, Ran, NoThread, At
  <2>3. ASSUME NEW w \in Workers, ~At(w, "none") PROVE (AllBusy /\ Quiet /\ Ran)'
    <3>1. Busy(w) /\ job[w].at \in Ops \cup {Done}
      BY <2>1, <2>3 DEF AllBusy, BurnInv, Jobs
    <3>2. runState' = "burn" /\ tick' # "resetting"
      BY <1>1, <3>1 DEF Busy
    <3>3. \A p \in Ops \cup {Done} : Progress(p) => Progress(p)'
      BY <1>1 DEF Progress, esp
    <3>4. CASE ~At(w, "wait")
      <4>1. NoOps' /\ Head(acks) = "sync"
        BY <3>1, <3>4, AnswerLine DEF Busy, BurnInv
      <4>2. Busy(w)'
        BY <1>1, <3>1, <3>2, <3>3, <3>4, <4>1 DEF Busy, At
      <4> QED BY <1>1, <2>3, <3>2, <4>2, OneOnly DEF AllBusy, Quiet, Ran, NoThread, At
    <3>5. CASE At(w, "wait")
      <4>1. job[w].at \in Ops
        BY <3>1, <3>5 DEF BurnInv, Jobs, At
      <4>2. \A p \in Ops : Waiting(p) => Waiting(p)'
        <5> SUFFICES ASSUME NEW p \in Ops, Waiting(p) PROVE Waiting(p)'
          OBVIOUS
        <5>1. /\ Progress(p) => Progress(p)'
              /\ Progress(After(p)) => Progress(After(p))'
          BY <3>3, AfterType
        <5> QED BY <1>1, <5>1, AnswerLine DEF Waiting, BurnInv
      <4>3. Busy(w)'
        BY <1>1, <3>1, <3>2, <3>5, <4>1, <4>2 DEF Busy, At
      <4> QED BY <1>1, <2>3, <3>2, <4>3, OneOnly DEF AllBusy, Quiet, Ran, NoThread, At
    <3> QED BY <3>4, <3>5
  <2> QED BY <2>2, <2>3 DEF NoThread
<1> QED BY <1>1, <1>2, <1>3 DEF Going

\* What else the GUI does while a burn goes on: it sends a synchronization
\* packet, or nothing, and starts a thread when there is none.
LEMMA GuiGoing ==
  ASSUME BurnInv, TickHandshake \/ TickReset \/ ResetChip \/ ResetDone, ~burnOK
  PROVE  (AllBusy /\ Quiet /\ Ran)'
<1>1. AllBusy /\ Quiet /\ Ran
  BY DEF BurnInv, Going
<1>2. UNCHANGED <<runState, burnOK, lastOp, job, acks, flash>>
  BY DEF TickHandshake, TickReset, ResetChip, ResetDone, gui, line, esp
<1>3. /\ NoOps => NoOps'
      /\ \A p \in Ops : Asked(p) => Asked(p)'
      /\ Answered => Answered'
  <2>1. CASE Send(Sync)
    BY <1>2, <2>1, SyncLine DEF BurnInv
  <2>2. CASE UNCHANGED line
    BY <2>2 DEF line, NoOps, Asked, Answered
  <2> QED BY <2>1, <2>2 DEF TickHandshake, TickReset, ResetChip, ResetDone
<1>4. Quiet' /\ Ran'
  BY <1>1, <1>2, <1>3 DEF Quiet, Ran, NoThread, Written, At
<1>5. ASSUME NEW w \in Workers, ~At(w, "none") PROVE Busy(w)'
  <2>1. Busy(w) /\ job[w].at \in Ops \cup {Done}
    BY <1>1, <1>5 DEF AllBusy, BurnInv, Jobs
  <2>2. ResetDone
    BY <2>1 DEF Busy, TickHandshake, TickReset, ResetChip
  <2>3. tick' = "idle" /\ base' = base
    BY <2>2 DEF ResetDone, esp
  <2>4. \A p : Progress(p) => Progress(p)'
    BY <1>2, <2>3 DEF Progress
  <2>5. CASE ~At(w, "wait")
    BY <1>2, <1>3, <2>1, <2>3, <2>4, <2>5 DEF Busy, At
  <2>6. CASE At(w, "wait")
    <3>1. job[w].at \in Ops
      BY <2>1, <2>6 DEF BurnInv, Jobs, At
    <3>2. \A p \in Ops : Waiting(p) => Waiting(p)'
      BY <1>2, <1>3, <2>4 DEF Waiting
    <3> QED BY <1>2, <2>1, <2>3, <2>6, <3>1, <3>2 DEF Busy, At
  <2> QED BY <2>5, <2>6
<1> QED BY <1>2, <1>4, <1>5 DEF AllBusy, At

LEMMA TickBurnGoing ==
  ASSUME BurnInv, Prompt, NEW w \in Workers, TickBurn(w)
  PROVE  (AllBusy /\ Quiet /\ Ran)'
<1>1. /\ ~burnOK /\ NoThread
      /\ runState = "burn" /\ tick # "resetting"
  BY DEF TickBurn, Ticks, Prompt, BurnInv, Inv, Seen, NoThread
<1>2. NoOps
  BY <1>1 DEF BurnInv, Going, Quiet
<1>3. /\ job'[w] = [pc |-> "new", at |-> Reg]
      /\ \A v \in Workers : v # w => job'[v] = job[v]
      /\ UNCHANGED <<runState, tick, sent, acks, base, flash>>
  BY DEF TickBurn, BurnInv, Jobs, gui, line, esp
<1>4. Progress(Reg)
  BY DEF Progress, Reg, Packet, Places
<1>5. NoOps' /\ Progress(Reg)'
  BY <1>2, <1>3, <1>4 DEF NoOps, Progress
<1>6. Busy(w)' /\ ~At(w, "none")'
  BY <1>1, <1>3, <1>5, DoneIsNone DEF Busy, At
<1>7. AllBusy'
  BY <1>1, <1>3, <1>6 DEF AllBusy, NoThread, At
<1> QED BY <1>1, <1>3, <1>6, <1>7 DEF Quiet, Ran, NoThread

LEMMA GuiBurn ==
  ASSUME BurnInv, Prompt, StartBurn \/ StopBurn \/ Timer PROVE (Purged /\ Going /\ Shown)'
<1>1. CASE StartBurn
  <2>1. /\ sent = << >> /\ acks = << >> /\ NoThread /\ UNCHANGED <<job, line>>
        /\ runState' = "handshake" /\ icon' = "wait" /\ portOpen' = TRUE
    BY <1>1 DEF StartBurn, Prompt, BurnInv, Purged, NoThread
  <2>2. NoOps' /\ NoThread'
    BY <2>1 DEF NoOps, All, NoThread, At, line
  <2> QED BY <2>1, <2>2 DEF Purged, Going, AllBusy, Quiet, Ran, Shown, NoThread
<1>2. CASE StopBurn \/ TickRun
  <2>1. /\ burnOK' = TRUE /\ timerOn' = FALSE /\ portOpen' = FALSE /\ sent' = << >>
        /\ UNCHANGED <<job, flash>>
    BY <1>2 DEF StopBurn, TickRun, Close, esp
  <2>2. icon' = "success" => NoThread /\ Written
    BY <1>2 DEF StopBurn, TickRun, BurnInv, Going, Ran
  <2> QED BY <2>1, <2>2 DEF Purged, Going, Shown, NoThread, Written, At
<1>3. CASE TickStopped \/ TickFinished
  <2>1. burnOK' /\ UNCHANGED <<icon, portOpen, sent>> /\ icon # "success"
    BY <1>3 DEF TickStopped, TickFinished, BurnInv, Shown, Ticks, line
  <2> QED BY <2>1 DEF BurnInv, Purged, Going, Shown
<1>4. CASE TickHandshake \/ TickReset \/ ResetChip \/ ResetDone
  <2>1. /\ UNCHANGED <<burnOK, icon, portOpen, timerOn, job, flash>>
        /\ sent' = sent \/ portOpen
    BY <1>4 DEF TickHandshake, TickReset, ResetChip, ResetDone, Send, gui, line, esp
  <2> QED BY <1>4, <2>1, GuiGoing DEF BurnInv, Purged, Going, Shown, NoThread, Written, At
<1>5. ASSUME NEW w \in Workers, TickBurn(w) PROVE (Purged /\ Going /\ Shown)'
  <2>1. UNCHANGED <<icon, portOpen, sent>> /\ icon # "success"
    BY <1>5 DEF TickBurn, BurnInv, Shown, Ticks, gui, line
  <2> QED BY <1>5, <2>1, TickBurnGoing DEF BurnInv, Purged, Going, Shown
<1> QED BY <1>1, <1>2, <1>3, <1>4, <1>5 DEF Timer

-----------------------------------------------------------------------------
\* Success is shown only when every block of every image is in the flash, with
\* packets and answers lost anywhere, however the user clicks and the timer
\* ticks, for any number of images and blocks.
THEOREM SuccessIsWritten == PromptSpec => []SuccessMeansWritten
<1>1. Init => BurnInv
  <2> SUFFICES ASSUME Init PROVE Purged /\ Going /\ Shown
    BY InitInv, InitTypes DEF BurnInv, Types
  <2>1. NoThread /\ NoOps
    BY DEF Init, NoThread, At, Idle, NoOps, All
  <2> QED BY <2>1 DEF Init, Purged, Going, AllBusy, Quiet, Ran, Shown, NoThread
<1>2. BurnInv /\ [Next /\ Prompt]_vars => BurnInv'
  <2> SUFFICES ASSUME BurnInv, [Next /\ Prompt]_vars PROVE BurnInv'
    OBVIOUS
  <2>1. TypeOK' /\ job' \in Jobs /\ Inv'
    BY NextTypes, NextInv DEF BurnInv, Types
  <2>2. CASE UNCHANGED vars
    <3>1. (Purged /\ Going /\ Shown)'
      BY <2>2 DEF vars, gui, line, esp, BurnInv, Purged, Going, Shown, AllBusy, Busy, Waiting,
         Quiet, Ran, NoThread, Written, Progress, NoOps, Asked, Answered, At
    <3> QED BY <2>1, <3>1 DEF BurnInv
  <2>3. CASE Next /\ Prompt
    <3>1. (Purged /\ Going /\ Shown)'
      BY <2>3, ThreadBurn, ChipBurn, ReceiveBurn, GuiBurn DEF Next
    <3> QED BY <2>1, <3>1 DEF BurnInv
  <2> QED BY <2>2, <2>3
<1>3. BurnInv => SuccessMeansWritten
  BY DEF BurnInv, Shown, Written, SuccessMeansWritten
<1> QED BY <1>1, <1>2, <1>3, PTL DEF PromptSpec
=============================================================================
