----------------------------- MODULE GdbServer -----------------------------
(***************************************************************************)
(* gdbwave serving one GDB: the command dispatch of dbg_main, which ties   *)
(* the protocol (RspLink) to the replayed target (TraceReplay).  A command *)
(* is executed by one step of each, except that the loop of a continue     *)
(* runs in steps of its own while GDB waits.                               *)
(***************************************************************************)
EXTENDS Traces

CONSTANTS
    Waves, Reg, WordSpan, DeadBeef, Address,              \* as in TraceReplay
    Requests,     \* as in RspLink; the field op is the command, arg and length
                  \* are its arguments
    MaxCommands, MaxDamaged, MaxInterrupts, MaxGiveUps    \* as in RspLink

VARIABLES
    wave, it, regs, pcReg, signum, breakpoints, mode, ret,           \* target
    toStub, toGdb, stub, command, answers, taken, gdb, sent, budget, \* protocol
    believed,     \* the breakpoints GDB was told are inserted
    unsure        \* those about which a reply came too late

targetVars == <<wave, it, regs, pcReg, signum, breakpoints, mode, ret>>
linkVars   == <<toStub, toGdb, stub, command, answers, taken, gdb, sent, budget>>
gdbView    == <<believed, unsure>>
vars       == <<targetVars, linkVars, gdbView>>

Target == INSTANCE TraceReplay

-----------------------------------------------------------------------------
(* What the replies say. *)

OK        == [is |-> "ok"]
Nothing   == [is |-> "nothing"]             \* the packet without a character
Failed(n) == [is |-> "error", code |-> n]
Signal(n) == [is |-> "signal", number |-> n]

\* Faulty variant: the program counter keeps the width of its signal.
RegistersWide == [is |-> "registers", pc |-> wave.pcTrace[it].pc, regs |-> regs]

Registers == [is |-> "registers", pc |-> pcReg, regs |-> regs]

PC == 32
DataSize == 64

OneRegister(r) == [is |-> "register", value |-> IF r = PC THEN pcReg ELSE regs[r]]

\* dbg_sys_mem_readb ignores whether the byte is known; addresses wrap.
MemByte(a) ==
    MemByteAt(wave.memTrace, wave.memInit, wave.memStart, wave.pcTrace[it].time,
              a % WordSpan)

Memory(a, n) == [is |-> "memory", bytes |-> [i \in 1..n |-> MemByte(a + i - 1)]]

Words == 0..(WordSpan - 1)

Bodies ==
    {OK, Nothing}
    \cup [is : {"error"}, code : Nat]
    \cup [is : {"signal"}, number : Nat]
    \cup [is : {"registers"}, pc : Words, regs : [Reg -> Words]]
    \cup [is : {"register"}, value : Words]
    \cup [is : {"memory"}, bytes : Seq(Nat)]

\* Acknowledgments are never so late that GDB repeats a command: a repeated
\* command is RspLink's subject.
Link == INSTANCE RspLink WITH MaxResends <- 0

\* How dbg_main serves each command, the addresses breakpoints are asked for,
\* and the numbers a read of memory is asked with.
ASSUME ServedAssumption ==
    \A r \in Requests :
        /\ r.kind \in Link!Kinds
        /\ r.kind = "continue" <=> r.op = "c"
        /\ r.kind = "step" <=> r.op = "s"
        /\ r.kind = "silent" <=> r.op \in {"R", "k"}
        /\ r.kind = "empty" <=> r.op = "empty"
        /\ r.op \in {"Z", "z"} => r.arg \in Address
        /\ r.op = "m" => {r.arg, r.length} \subseteq Nat

\* The bounds and waveforms of RspLink and TraceReplay, and memory of bytes.
ASSUME SessionAssumption ==
    {MaxCommands, MaxDamaged, MaxInterrupts, MaxGiveUps} \subseteq Nat

ASSUME RecordingAssumption ==
    /\ \A w \in Waves :
        /\ w.pcTrace \in Seq(PcValues) /\ Len(w.pcTrace) > 0
        /\ {w.regTrace, w.memTrace} \subseteq Seq(Accesses)
        /\ w.memInit \in Seq(Nat) /\ w.memStart \in Nat
    /\ WordSpan \in Nat \ {0}
    /\ DeadBeef \in 0..(WordSpan - 1)
    /\ Address \subseteq 0..(WordSpan - 1)

Init ==
    /\ Target!Init
    /\ Link!Init
    /\ believed = {}
    /\ unsure = {}

-----------------------------------------------------------------------------
(* The stub: the cases of dbg_main. *)

Request == command.request

Dispatch(op) ==
    /\ stub = "execute"
    /\ Request.op = op

\* A command that leaves the target alone.
Answer(body) ==
    /\ Link!ExecuteQuery(body)
    /\ UNCHANGED <<targetVars, gdbView>>

ReadRegisters == Dispatch("g") /\ Answer(Registers)

\* The program counter is register 32; there are no others.
ReadRegister ==
    /\ Dispatch("p")
    /\ \/ Request.arg \in Reg \cup {PC} /\ Answer(OneRegister(Request.arg))
       \/ Request.arg \notin Reg \cup {PC} /\ Answer(Failed(0))

\* Faulty variant: the bytes after the ones asked for.
ReadMemoryBeyond ==
    /\ Dispatch("m")
    /\ \/ Request.length <= DataSize /\ Answer(Memory(Request.arg + 1, Request.length))
       \/ Request.length > DataSize /\ Answer(Failed(0))

\* At most 64 bytes are read at once.
ReadMemory ==
    /\ Dispatch("m")
    /\ \/ Request.length <= DataSize /\ Answer(Memory(Request.arg, Request.length))
       \/ Request.length > DataSize /\ Answer(Failed(0))

\* Memory cannot be written (M, X).
WriteMemory == Dispatch("M") /\ Answer(Failed(1))

\* !, T and H are agreed to.
Agree == Dispatch("T") /\ Answer(OK)

\* Everything else, writing registers included.
Unsupported == Dispatch("other") /\ Answer(Nothing)

\* Faulty variant: the answer is a trap before anything has run.
QueryHaltTrap == Dispatch("?") /\ Answer(Signal(Target!SIGTRAP))

\* The reason of the last stop, whatever has happened since.
QueryHalt == Dispatch("?") /\ Answer(Signal(signum))

\* Whatever the type of the breakpoint or watchpoint.
InsertBreakpoint ==
    /\ Dispatch("Z")
    /\ Target!AddBreakpoint(Request.arg)
    /\ Link!ExecuteQuery(OK)
    /\ UNCHANGED gdbView

\* Faulty variant: z does what Z does.
RemoveBreakpointInserts ==
    /\ Dispatch("z")
    /\ Target!AddBreakpoint(Request.arg)
    /\ Link!ExecuteQuery(OK)
    /\ UNCHANGED gdbView

RemoveBreakpoint ==
    /\ Dispatch("z")
    /\ Target!DeleteBreakpoint(Request.arg)
    /\ Link!ExecuteQuery(OK)
    /\ UNCHANGED gdbView

ContinueBegins ==
    /\ Dispatch("c")
    /\ Target!ContinueCall
    /\ UNCHANGED <<linkVars, gdbView>>

ContinueScans ==
    /\ Target!ContinueScan
    /\ UNCHANGED <<linkVars, gdbView>>

ContinueReturns ==
    /\ Target!ContinueReturn
    /\ Link!ExecuteStop
    /\ UNCHANGED gdbView

StepMoves ==
    /\ Dispatch("s")
    /\ Target!StepToNext
    /\ Link!ExecuteStop
    /\ UNCHANGED gdbView

\* Faulty variant: the -1 of dbg_sys_step is not looked at.
StepTerminatesAsStop ==
    /\ Dispatch("s")
    /\ Target!StepAtEnd
    /\ Link!ExecuteStop
    /\ UNCHANGED gdbView

StepTerminates ==
    /\ Dispatch("s")
    /\ Target!StepAtEnd
    /\ Link!ExecuteTerminated(Signal(signum))
    /\ UNCHANGED gdbView

\* R restarts, k does nothing; neither is answered.
RestartProgram ==
    /\ Dispatch("R")
    /\ Target!Restart
    /\ Link!ExecuteSilent
    /\ UNCHANGED gdbView

Kill ==
    /\ Dispatch("k")
    /\ Link!ExecuteSilent
    /\ UNCHANGED <<targetVars, gdbView>>

\* The rest of the stub moves characters and leaves the target alone.
Transport ==
    /\ \/ Link!SendSignal(Signal(signum))
       \/ Link!ReceiveAck
       \/ Link!AckEndOfInput
       \/ Link!SkipToPacket
       \/ Link!ReceivePacket
       \/ Link!RefusePacket
       \/ Link!PacketEndOfInput
    /\ UNCHANGED <<targetVars, gdbView>>

StubNext ==
    \/ ReadRegisters
    \/ ReadRegister
    \/ ReadMemory
    \/ WriteMemory
    \/ Agree
    \/ Unsupported
    \/ QueryHalt
    \/ InsertBreakpoint
    \/ RemoveBreakpoint
    \/ ContinueBegins
    \/ ContinueScans
    \/ ContinueReturns
    \/ StepMoves
    \/ StepTerminates
    \/ RestartProgram
    \/ Kill
    \/ Transport

-----------------------------------------------------------------------------
(* GDB keeps account of the breakpoints it was told of (external). *)

Concerns(ops) == sent.request.op \in ops

GdbAccepts ==
    /\ Link!AcceptReply
    /\ believed' = IF Concerns({"Z"}) THEN believed \cup {sent.request.arg}
                   ELSE IF Concerns({"z"}) THEN believed \ {sent.request.arg}
                   ELSE believed
    /\ unsure' = IF Concerns({"Z", "z"}) THEN unsure \ {sent.request.arg} ELSE unsure
    /\ UNCHANGED targetVars

GdbGivesUp ==
    /\ Link!GiveUpReply
    /\ unsure' = IF Concerns({"Z", "z"}) THEN unsure \cup {sent.request.arg} ELSE unsure
    /\ UNCHANGED <<targetVars, believed>>

GdbReceives ==
    \/ GdbAccepts
    \/ /\ \/ Link!AcceptAck
          \/ Link!AcceptNack
          \/ Link!DropPacket
          \/ Link!SkipToReply
          \/ Link!RefuseReply
          \/ Link!NoticeExit
       /\ UNCHANGED <<targetVars, gdbView>>

GdbNext ==
    \/ GdbReceives
    \/ GdbGivesUp
    \/ /\ \/ \E request \in Requests : Link!SendCommand(request)
          \/ Link!SendInterrupt
          \/ Link!Disconnect
          \/ Link!Damage
          \/ Link!Ended
       /\ UNCHANGED <<targetVars, gdbView>>

Next == StubNext \/ GdbNext

Spec == Init /\ [][Next]_vars

\* As in RspLink, and the loop of a continue runs on the stub's thread.
FairSpec == Spec /\ WF_vars(StubNext) /\ WF_vars(GdbReceives)
-----------------------------------------------------------------------------
TypeOK ==
    /\ Target!TypeOK
    /\ believed \subseteq Address
    /\ unsure \subseteq Address
    /\ Link!TypeOK

\* The reply GDB is about to take.
Taking ==
    /\ gdb = "waitReply"
    /\ toGdb # << >>
    /\ Link!IsPacket(Head(toGdb))
    /\ Head(toGdb).good

\* What the target says of itself (g, p, m, ?) reaches GDB as the target still
\* shows it when GDB takes the reply: no resumption, restart or reply to an
\* earlier question gets in between.
ViewIsCurrent ==
    Taking =>
        /\ Concerns({"g"}) => Head(toGdb).body = Registers
        /\ Concerns({"p"}) /\ sent.request.arg \in Reg \cup {PC} =>
              Head(toGdb).body = OneRegister(sent.request.arg)
        /\ Concerns({"m"}) /\ sent.request.length <= DataSize =>
              Head(toGdb).body = Memory(sent.request.arg, sent.request.length)
        /\ Concerns({"?"}) => Head(toGdb).body = Signal(signum)

\* Outside the first instruction, the program counter GDB reads is that of
\* the instruction at which the memory it reads is looked up.
OneInstant ==
    Taking /\ Concerns({"g"}) /\ it # 1 => Head(toGdb).body.pc = Target!PcAt(it)

\* When GDB is told that a continue stopped, the target stands at a
\* breakpoint GDB knows of or cannot rule out, or at the last instruction.
StopIsTrue ==
    Taking /\ Concerns({"c"}) =>
        /\ Head(toGdb).body = Signal(Target!SIGTRAP)
        /\ Target!PcAt(it) \in believed \cup unsure \/ it = Target!End - 1

\* GDB is told that the program terminated for a step at the last instruction
\* only, and for every such step.
TerminatedIsTrue ==
    Taking => (Head(toGdb).kind = "terminated" <=> Concerns({"s"}) /\ ret = -1)

\* While no command is on the way, GDB and the target agree on every
\* breakpoint that GDB has not lost track of.
BreakpointsAgree ==
    gdb = "idle" \/ (gdb = "waitReply" /\ ~Concerns({"Z", "z"})) =>
        believed \ unsure = breakpoints \ unsure

\* Every command GDB waits for is answered, or one side is gone: a continue
\* ends, and its stop is sent, while nothing has disturbed the connection.
Answered ==
    gdb \in {"waitAck", "waitReply"} ~> gdb \in {"idle", "closed"} \/ Link!Disturbed
=============================================================================
