------------------------------ MODULE Flasher ------------------------------
(***************************************************************************)
(* The burn of nodemcu-flasher, UnitFormMain.pas.  The GUI thread runs the *)
(* clicks on Flash/Stop, a 50 ms timer (TimerStateMachine), what the       *)
(* serial port receives and, one after the other, the procedures a burn    *)
(* thread hands it through TThread.Synchronize.  The burn thread           *)
(* (FlashImage) sends one packet at a time and waits for                   *)
(* LastOperationSuccess, for BurnOK (which means: stop) or five seconds.   *)
(*                                                                         *)
(* The chip's boot loader is not part of the repository: it answers what   *)
(* it executes and is silent otherwise.  An answer that reports an error   *)
(* does not end in 00 C0, so ReceiveData passes over it: it is no answer.  *)
(***************************************************************************)
EXTENDS Integers, Sequences

CONSTANTS Workers,   \* burn threads there may be at a time
          Images,    \* how many lines of the form are checked
          Sectors,   \* the length of an image, in blocks of 1024 bytes
          MaxLine,   \* bound of the model: packets and answers under way
          SpiMode    \* ComboBoxSPIMode

ASSUME FlasherAssumption ==
  /\ Images \in Nat \ {0} /\ Sectors \in Nat \ {0} /\ MaxLine \in Nat \ {0}
  /\ SpiMode \in {"QIO", "QOUT", "DIO", "DOUT"}

VARIABLES
  runState,        \* RunState
  burnOK,          \* BurnOK
  timerOn,         \* TimerStateMachine.Enabled
  portOpen,        \* CommMain.PortOpen
  icon,            \* what ImageStatus shows
  threadStarted,   \* IsThreadStarted
  tick,            \* where a tick that resets the chip lets messages in
  lastOp,          \* LastOperationSuccess
  job,             \* the burn threads: pc, and the packet they are at
  sent,            \* packets on their way to the chip
  acks,            \* answers on their way to ReceiveData
  chip,            \* "app", "waiting" (in the loader, not synchronized), "loader"
  base,            \* the image whose address was set last; 0 after a reset
  flash,           \* what each block of each image's place holds
  header           \* the mode byte put into the image for address 0

gui  == <<runState, burnOK, timerOn, portOpen, icon, threadStarted, tick>>
line == <<sent, acks>>
esp  == <<chip, base, flash>>
vars == <<gui, lastOp, job, line, esp, header>>

Places == (1 .. Images) \X (1 .. Sectors)
Erased == <<0, 0>>

\* What one burn sends: registers (one stands for the four), then for every
\* image its address and its blocks.
Packet(op, img, sec) == [op |-> op, img |-> img, sec |-> sec]
Sync == Packet("sync", 0, 0)
Reg  == Packet("reg", 0, 0)
Done == Packet("done", Images + 1, 0)

After(p) ==
  IF p.op # "reg" /\ p.sec < Sectors THEN Packet("data", p.img, p.sec + 1)
  ELSE IF p.img < Images THEN Packet("base", p.img + 1, 0)
  ELSE Done

Ops == {Reg} \cup {Packet("base", i, 0) : i \in 1 .. Images}
             \cup {Packet("data", p[1], p[2]) : p \in Places}

Packets == Ops \cup {Sync}
Idle    == [pc |-> "none", at |-> Reg]

TypeOK ==
  /\ runState \in {"handshake", "burn", "run", "finished"}
  /\ burnOK \in BOOLEAN /\ timerOn \in BOOLEAN /\ portOpen \in BOOLEAN
  /\ threadStarted \in BOOLEAN /\ lastOp \in BOOLEAN
  /\ icon \in {"none", "wait", "fail", "success"}
  /\ tick \in {"idle", "resetting", "reset"}
  /\ job \in [Workers -> [pc : {"none", "new", "check", "prepare", "send", "wait", "failed", "end"},
                          at : Ops \cup {Done}]]
  /\ sent \in Seq(Packets) /\ Len(sent) <= MaxLine
  /\ acks \in Seq({"sync", "op"})
  /\ chip \in {"app", "waiting", "loader"}
  /\ base \in 0 .. Images
  /\ flash \in [Places -> Places \cup {Erased}]
  /\ header \in {-1, 0, 1, 2, 3, 21}

\* FormCreate.  The chip runs its program or is held in the loader by hand.
Init ==
  /\ runState = "finished" /\ burnOK = FALSE /\ timerOn = FALSE /\ portOpen = FALSE
  /\ icon = "none" /\ threadStarted = FALSE /\ tick = "idle" /\ lastOp = FALSE
  /\ job = [w \in Workers |-> Idle]
  /\ sent = << >> /\ acks = << >>
  /\ chip \in {"app", "waiting"} /\ base = 0
  /\ flash = [p \in Places |-> Erased]
  /\ header = -1

\* WriteCommData drops what it is given when the port is closed.
Send(p) == sent' = IF portOpen THEN Append(sent, p) ELSE sent

LineFree == Len(sent) + Len(acks) < MaxLine

-----------------------------------------------------------------------------
\* ActionBurnExecute.

StartBurn ==
  /\ ~portOpen
  /\ portOpen' = TRUE /\ burnOK' = FALSE /\ runState' = "handshake"
  /\ timerOn' = TRUE /\ icon' = "wait"
  /\ UNCHANGED <<threadStarted, tick, lastOp, job, line, esp, header>>

\* StopComm purges the line; answers already posted to the GUI still come.
Close == /\ portOpen
         /\ portOpen' = FALSE /\ burnOK' = TRUE /\ runState' = "finished"
         /\ timerOn' = FALSE
         /\ sent' = << >> /\ acks' \in {acks, << >>}

StopBurn ==
  /\ Close
  /\ icon' = "fail"
  /\ UNCHANGED <<threadStarted, tick, lastOp, job, esp, header>>

-----------------------------------------------------------------------------
\* TimerStateMachineTimer.  A tick that resets the chip calls
\* Application.ProcessMessages, within which anything else of the GUI thread
\* may run; the next tick only after the last call, 50 ms on.

Ticks == timerOn /\ tick \in {"idle", "reset"}

TickStopped ==
  /\ Ticks /\ burnOK
  /\ timerOn' = FALSE /\ runState' = "finished"
  /\ UNCHANGED <<burnOK, portOpen, icon, threadStarted, tick, lastOp, job, line, esp, header>>

TickHandshake ==
  /\ Ticks /\ ~burnOK /\ runState = "handshake" /\ LineFree
  /\ Send(Sync)
  /\ UNCHANGED <<gui, lastOp, job, acks, esp, header>>

\* Every tenth handshake the chip is reset first.
TickReset ==
  /\ Ticks /\ tick = "idle" /\ ~burnOK /\ runState = "handshake"
  /\ tick' = "resetting"
  /\ UNCHANGED <<runState, burnOK, timerOn, portOpen, icon, threadStarted,
                 lastOp, job, line, esp, header>>

ResetChip ==
  /\ tick = "resetting"
  /\ tick' = "reset"
  /\ IF portOpen THEN chip' = "waiting" /\ base' = 0 ELSE UNCHANGED <<chip, base>>
  /\ UNCHANGED <<runState, burnOK, timerOn, portOpen, icon, threadStarted,
                 lastOp, job, line, flash, header>>

ResetDone ==
  /\ tick = "reset" /\ LineFree
  /\ tick' = "idle"
  /\ Send(Sync)
  /\ UNCHANGED <<runState, burnOK, timerOn, portOpen, icon, threadStarted,
                 lastOp, job, acks, esp, header>>

TickBurn(w) ==
  /\ Ticks /\ ~burnOK /\ runState = "burn" /\ ~threadStarted
  /\ job[w].pc = "none"
  /\ job' = [job EXCEPT ![w] = [pc |-> "new", at |-> Reg]]
  /\ UNCHANGED <<gui, lastOp, line, esp, header>>

\* The burn is over: the success icon, and a click on Stop.
TickRun ==
  /\ Ticks /\ ~burnOK /\ runState = "run"
  /\ Close
  /\ icon' = "success"
  /\ UNCHANGED <<threadStarted, tick, lastOp, job, esp, header>>

TickFinished ==
  /\ Ticks /\ ~burnOK /\ runState = "finished"
  /\ burnOK' = TRUE
  /\ UNCHANGED <<runState, timerOn, portOpen, icon, threadStarted, tick, lastOp,
                 job, line, esp, header>>

-----------------------------------------------------------------------------
\* ReceiveData.

ReceiveData ==
  /\ acks # << >>
  /\ acks' = Tail(acks)
  /\ IF Head(acks) = "sync" THEN runState' = "burn" /\ UNCHANGED lastOp
     ELSE lastOp' = TRUE /\ UNCHANGED runState
  /\ UNCHANGED <<burnOK, timerOn, portOpen, icon, threadStarted, tick, job, sent,
                 esp, header>>

-----------------------------------------------------------------------------
\* FlashImage, ReadReg and FlashStream.

At(w, pc) == job[w].pc = pc
Goto(w, pc) == job' = [job EXCEPT ![w].pc = pc]
Next1(w) == job' = [job EXCEPT ![w] = [pc |-> "check", at |-> After(@.at)]]

\* Mutant: IsThreadStarted is not set.
BeginUnseen(w) ==
  /\ At(w, "new")
  /\ Goto(w, "check")
  /\ UNCHANGED <<gui, lastOp, line, esp, header>>

Begin(w) ==
  /\ At(w, "new")
  /\ threadStarted' = TRUE
  /\ Goto(w, "check")
  /\ UNCHANGED <<runState, burnOK, timerOn, portOpen, icon, tick, lastOp, line, esp, header>>

\* A register is read whether or not the burn was stopped.
Check(w) ==
  /\ At(w, "check")
  /\ IF job[w].at = Done \/ (job[w].at # Reg /\ burnOK)
     THEN Goto(w, "end") ELSE Goto(w, "prepare")
  /\ UNCHANGED <<gui, lastOp, line, esp, header>>

\* Mutant: the size byte is or'ed in.
SPIModeByteSize == 32 + 2

SPIModeByte == CASE SpiMode = "QIO" -> 0
                 [] SpiMode = "QOUT" -> 1
                 [] SpiMode = "DIO" -> 2
                 [] SpiMode = "DOUT" -> 21

\* Mutant: an answer to the packet before counts for this one.
PrepareKeeps(w) ==
  /\ At(w, "prepare")
  /\ header' = IF job[w].at = Packet("data", 1, 1) THEN SPIModeByte ELSE header
  /\ Goto(w, "send")
  /\ UNCHANGED <<gui, lastOp, line, esp>>

\* LastOperationSuccess is cleared; the first image lies at address 0.
Prepare(w) ==
  /\ At(w, "prepare")
  /\ lastOp' = FALSE
  /\ header' = IF job[w].at = Packet("data", 1, 1) THEN SPIModeByte ELSE header
  /\ Goto(w, "send")
  /\ UNCHANGED <<gui, line, esp>>

SendPacket(w) ==
  /\ At(w, "send") /\ LineFree
  /\ Send(job[w].at)
  /\ Goto(w, "wait")
  /\ UNCHANGED <<gui, lastOp, acks, esp, header>>

Waited(w) ==
  /\ At(w, "wait") /\ (burnOK \/ lastOp)
  /\ Next1(w)
  /\ UNCHANGED <<gui, lastOp, line, esp, header>>

\* Mutant: the burn is not stopped.
TimeOutGoesOn(w) ==
  /\ At(w, "wait") /\ ~burnOK /\ ~lastOp
  /\ Goto(w, "failed")
  /\ UNCHANGED <<gui, lastOp, line, esp, header>>

\* The failure of a data packet is shown by TThread.Queue, which the GUI thread
\* handles before what the same thread hands it next.
TimeOut(w) ==
  /\ At(w, "wait") /\ ~burnOK /\ ~lastOp
  /\ burnOK' = TRUE
  /\ Goto(w, "failed")
  /\ UNCHANGED <<runState, timerOn, portOpen, icon, threadStarted, tick, lastOp,
                 line, esp, header>>

ShowFail(w) ==
  /\ At(w, "failed")
  /\ icon' = "fail"
  /\ Next1(w)
  /\ UNCHANGED <<runState, burnOK, timerOn, portOpen, threadStarted, tick, lastOp,
                 line, esp, header>>

\* Mutant: IsThreadStarted stays.
EndStarted(w) ==
  /\ At(w, "end")
  /\ runState' = "run"
  /\ job' = [job EXCEPT ![w] = Idle]
  /\ UNCHANGED <<burnOK, timerOn, portOpen, icon, threadStarted, tick, lastOp, line,
                 esp, header>>

End(w) ==
  /\ At(w, "end")
  /\ runState' = "run" /\ threadStarted' = FALSE
  /\ job' = [job EXCEPT ![w] = Idle]
  /\ UNCHANGED <<burnOK, timerOn, portOpen, icon, tick, lastOp, line, esp, header>>

Thread(w) == Begin(w) \/ Check(w) \/ Prepare(w) \/ SendPacket(w) \/ Waited(w)
             \/ TimeOut(w) \/ ShowFail(w) \/ End(w)

-----------------------------------------------------------------------------
\* The chip.

\* A packet, or its answer, is lost; a program does not understand it.
Ignore ==
  /\ sent # << >>
  /\ sent' = Tail(sent)
  /\ UNCHANGED <<gui, lastOp, job, acks, esp, header>>

Answer(a) == acks' = Append(acks, a) \/ UNCHANGED acks

Synchronize ==
  /\ sent # << >> /\ Head(sent).op = "sync" /\ chip # "app"
  /\ sent' = Tail(sent)
  /\ chip' = "loader"
  /\ Answer("sync")
  /\ UNCHANGED <<gui, lastOp, job, base, flash, header>>

\* Setting an address erases what is to be written there.
Execute ==
  /\ sent # << >> /\ chip = "loader" /\ Head(sent).op # "sync"
  /\ sent' = Tail(sent)
  /\ LET p == Head(sent) IN
     /\ base' = IF p.op = "base" THEN p.img ELSE base
     /\ flash' = [q \in Places |->
                    IF p.op = "base" /\ q[1] = p.img THEN Erased
                    ELSE IF p.op = "data" /\ q = <<base, p.sec>> THEN <<p.img, p.sec>>
                    ELSE flash[q]]
  /\ Answer("op")
  /\ UNCHANGED <<gui, lastOp, job, chip, header>>

Chip == Ignore \/ Synchronize \/ Execute

-----------------------------------------------------------------------------
Timer == \/ TickStopped \/ TickHandshake \/ TickReset \/ ResetChip \/ ResetDone
         \/ TickRun \/ TickFinished
         \/ \E w \in Workers : TickBurn(w)

Next == \/ StartBurn \/ StopBurn
        \/ Timer
        \/ ReceiveData
        \/ \E w \in Workers : Thread(w)
        \/ Chip

Spec == Init /\ [][Next]_vars

\* A burn thread needs a few milliseconds to begin, less than a tick, and to
\* end once it is stopped, less than two clicks; Windows hands over posted
\* messages, the answers, before clicks.
Prompt ==
  /\ (\E w \in Workers : TickBurn(w)) => \A w \in Workers : ~At(w, "new")
  /\ StartBurn => acks = << >> /\ \A w \in Workers : At(w, "none")

PromptSpec == Init /\ [][Next /\ Prompt]_vars

FairSpec == /\ PromptSpec
            /\ WF_vars(Timer /\ Prompt) /\ WF_vars(\E w \in Workers : Thread(w))
            /\ WF_vars(ReceiveData) /\ WF_vars(Chip)

-----------------------------------------------------------------------------
\* Success is shown only when every block of every image is in the flash.
SuccessMeansWritten == icon = "success" => \A p \in Places : flash[p] = p

\* At most one thread burns.
OneBurner == \A v, w \in Workers : ~At(v, "none") /\ ~At(w, "none") => v = w

\* A burn that has failed stays failed until the next click on Flash.
FailSticks == [][icon = "fail" /\ icon' # icon => StartBurn]_vars

\* A burn comes to its end: the timer is stopped, by success, by a timeout or
\* by the user.
BurnEnds == runState = "burn" /\ timerOn ~> ~timerOn
=============================================================================
