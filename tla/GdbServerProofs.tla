-------------------------- MODULE GdbServerProofs --------------------------
(***************************************************************************)
(* What GDB is told, for every waveform, every set of commands GDB may ask *)
(* and any number of commands, damaged units, interrupts and replies given *)
(* up.                                                                     *)
(*                                                                         *)
(* The session is RspLink and TraceReplay side by side: every step of it   *)
(* is a step of each, or leaves it alone (TargetStep, LinkStep), so that   *)
(* their inductive invariants hold here, and what they promise with them.  *)
(* What they do not promise alone is that an answer on the way still says  *)
(* what the target shows.  It does since nothing is executed between an    *)
(* answer and the next command, and there is no next command before GDB    *)
(* has the answer or has given it up (ToldInv).                            *)
(***************************************************************************)
EXTENDS GdbServer, TraceLemmas

Replay   == INSTANCE TraceReplayProofs
Protocol == INSTANCE RspLinkProofs WITH MaxResends <- 0

-----------------------------------------------------------------------------
\* The loop of a continue runs only while the stub executes that continue, so
\* that every other command meets a target that is stopped.
ModeInv == mode = "running" => stub = "execute" /\ Request.op = "c"

\* Where a continue may stop.
AtStop == Target!PcAt(it) \in breakpoints \/ it = Target!End - 1

\* The signal packet answers a command only after a resumption, and then the
\* target stands where that one stopped.
SignalInv ==
    /\ stub # "signal" => answers = 0
    /\ stub = "signal" /\ answers # 0 =>
          /\ Request.op \in {"c", "s"} /\ ret = 0
          /\ Request.op = "c" => signum = Target!SIGTRAP /\ AtStop

\* GDB waits for the end of an exchange.
Waiting == gdb \in {"waitAck", "waitReply"}

\* The replies GDB will take for the answer.
AnswersAt ==
    {j \in Protocol!RepliesAt :
        gdb = "waitReply" \/ (gdb = "waitAck" /\ \E i \in Protocol!AcksAt : i < j)}

\* What a reply to the command GDB sent last says of the target, as it is now.
Told(reply) ==
    /\ Concerns({"g"}) => reply.body = Registers
    /\ Concerns({"p"}) /\ sent.request.arg \in Reg \cup {PC} =>
          reply.body = OneRegister(sent.request.arg)
    /\ Concerns({"m"}) /\ sent.request.length <= DataSize =>
          reply.body = Memory(sent.request.arg, sent.request.length)
    /\ Concerns({"?"}) => reply.body = Signal(signum)
    /\ Concerns({"c"}) => reply.body = Signal(Target!SIGTRAP) /\ AtStop
    /\ Concerns({"Z"}) => sent.request.arg \in breakpoints
    /\ Concerns({"z"}) => sent.request.arg \notin breakpoints
    /\ reply.kind = "terminated" <=> Concerns({"s"}) /\ ret = -1

\* Every answer on the way is true of the target as it is, and the stub is done
\* with the command it answers.
ToldInv ==
    \A j \in AnswersAt : stub \notin {"signal", "execute"} /\ Told(toGdb[j])

\* The breakpoint whose insertion or removal GDB waits to hear of.
InFlux(a) == Waiting /\ Concerns({"Z", "z"}) /\ sent.request.arg = a

\* GDB and the target agree on every breakpoint that GDB has not lost track of
\* and does not ask to change; a change the stub is about to make is one of
\* those.
BreakpointsInv ==
    /\ {believed, unsure, breakpoints} \subseteq SUBSET Address
    /\ gdb # "closed" =>
        /\ \A a \in Address \ unsure : InFlux(a) \/ (a \in believed <=> a \in breakpoints)
        /\ stub = "execute" /\ Request.op \in {"Z", "z"} =>
              Request.arg \in unsure \/ InFlux(Request.arg)

\* The inductive invariant: those of the parts, and how the parts fit.
Inv ==
    /\ Replay!Inv
    /\ Protocol!TypeInv /\ Protocol!ConservedInv
    /\ ModeInv /\ SignalInv /\ ToldInv /\ BreakpointsInv

-----------------------------------------------------------------------------
\* The assumptions of the parts, in their own terms.
LEMMA Assumptions ==
  /\ {MaxCommands, MaxDamaged, MaxInterrupts, 0, MaxGiveUps} \subseteq Nat
  /\ \A r \in Requests : r.kind \in Protocol!Kinds
  /\ \A w \in Waves :
        /\ w.pcTrace \in Seq(Replay!PcValues) /\ Len(w.pcTrace) > 0
        /\ w.regTrace \in Seq(Replay!Accesses)
  /\ WordSpan \in Nat \ {0}
  /\ DeadBeef \in 0..(WordSpan - 1)
  /\ Address \subseteq 0..(WordSpan - 1)
<1>1. {MaxCommands, MaxDamaged, MaxInterrupts, 0, MaxGiveUps} \subseteq Nat
  BY SessionAssumption
<1>2. \A r \in Requests : r.kind \in Protocol!Kinds
  BY ServedAssumption DEF Link!Kinds, Protocol!Kinds
<1>3. PcValues = Replay!PcValues /\ Accesses = Replay!Accesses
  BY DEF PcValues, Replay!PcValues, Accesses, Replay!Accesses
<1>4. QED BY <1>1, <1>2, <1>3, RecordingAssumption

\* The actions of RspLink that GdbServer takes are those its proofs are about.
LEMMA SameSteps ==
  ASSUME NEW body, NEW request
  PROVE  /\ Link!SendSignal(body) <=> Protocol!SendSignal(body)
         /\ Link!ReceiveAck <=> Protocol!ReceiveAck
         /\ Link!AckEndOfInput <=> Protocol!AckEndOfInput
         /\ Link!SkipToPacket <=> Protocol!SkipToPacket
         /\ Link!ReceivePacket <=> Protocol!ReceivePacket
         /\ Link!RefusePacket <=> Protocol!RefusePacket
         /\ Link!PacketEndOfInput <=> Protocol!PacketEndOfInput
         /\ Link!ExecuteQuery(body) <=> Protocol!ExecuteQuery(body)
         /\ Link!ExecuteSilent <=> Protocol!ExecuteSilent
         /\ Link!ExecuteStop <=> Protocol!ExecuteStop
         /\ Link!ExecuteTerminated(body) <=> Protocol!ExecuteTerminated(body)
         /\ Link!SendCommand(request) <=> Protocol!SendCommand(request)
         /\ Link!AcceptAck <=> Protocol!AcceptAck
         /\ Link!AcceptNack <=> Protocol!AcceptNack
         /\ Link!DropPacket <=> Protocol!DropPacket
         /\ Link!SkipToReply <=> Protocol!SkipToReply
         /\ Link!AcceptReply <=> Protocol!AcceptReply
         /\ Link!RefuseReply <=> Protocol!RefuseReply
         /\ Link!SendInterrupt <=> Protocol!SendInterrupt
         /\ Link!GiveUpReply <=> Protocol!GiveUpReply
         /\ Link!Disconnect <=> Protocol!Disconnect
         /\ Link!NoticeExit <=> Protocol!NoticeExit
         /\ Link!Damage <=> Protocol!Damage
         /\ Link!Ended <=> Protocol!Ended
<1> USE DEF Link!Ack, Protocol!Ack, Link!Nack, Protocol!Nack, Link!Interrupt,
           Protocol!Interrupt, Link!Acks, Protocol!Acks, Link!Resuming,
           Protocol!Resuming, Link!Replied, Protocol!Replied, Link!Command,
           Protocol!Command, Link!Reply, Protocol!Reply, Link!IsPacket,
           Protocol!IsPacket, Link!StubSends, Protocol!StubSends,
           Link!GdbSends, Protocol!GdbSends, Link!Spend, Protocol!Spend,
           Link!Heard, Protocol!Heard, Link!EndOfInput, Protocol!EndOfInput,
           Link!Executes, Protocol!Executes, Link!GdbHears, Protocol!GdbHears,
           Link!Damaged, Protocol!Damaged, Link!stubVars, Protocol!stubVars,
           Link!gdbVars, Protocol!gdbVars, Link!vars, Protocol!vars
<1>1. Link!SendSignal(body) <=> Protocol!SendSignal(body)
  BY DEF Link!SendSignal, Protocol!SendSignal
<1>2. Link!ReceiveAck <=> Protocol!ReceiveAck
  BY DEF Link!ReceiveAck, Protocol!ReceiveAck
<1>3. Link!AckEndOfInput <=> Protocol!AckEndOfInput
  BY DEF Link!AckEndOfInput, Protocol!AckEndOfInput
<1>4. Link!SkipToPacket <=> Protocol!SkipToPacket
  BY DEF Link!SkipToPacket, Protocol!SkipToPacket
<1>5. Link!ReceivePacket <=> Protocol!ReceivePacket
  BY DEF Link!ReceivePacket, Protocol!ReceivePacket
<1>6. Link!RefusePacket <=> Protocol!RefusePacket
  BY DEF Link!RefusePacket, Protocol!RefusePacket
<1>7. Link!PacketEndOfInput <=> Protocol!PacketEndOfInput
  BY DEF Link!PacketEndOfInput, Protocol!PacketEndOfInput
<1>8. Link!ExecuteQuery(body) <=> Protocol!ExecuteQuery(body)
  BY DEF Link!ExecuteQuery, Protocol!ExecuteQuery
<1>9. Link!ExecuteSilent <=> Protocol!ExecuteSilent
  BY DEF Link!ExecuteSilent, Protocol!ExecuteSilent
<1>10. Link!ExecuteStop <=> Protocol!ExecuteStop
  BY DEF Link!ExecuteStop, Protocol!ExecuteStop
<1>11. Link!ExecuteTerminated(body) <=> Protocol!ExecuteTerminated(body)
  BY DEF Link!ExecuteTerminated, Protocol!ExecuteTerminated
<1>12. Link!SendCommand(request) <=> Protocol!SendCommand(request)
  BY DEF Link!SendCommand, Protocol!SendCommand
<1>13. Link!AcceptAck <=> Protocol!AcceptAck
  BY DEF Link!AcceptAck, Protocol!AcceptAck
<1>14. Link!AcceptNack <=> Protocol!AcceptNack
  BY DEF Link!AcceptNack, Protocol!AcceptNack
<1>15. Link!DropPacket <=> Protocol!DropPacket
  BY DEF Link!DropPacket, Protocol!DropPacket
<1>16. Link!SkipToReply <=> Protocol!SkipToReply
  BY DEF Link!SkipToReply, Protocol!SkipToReply
<1>17. Link!AcceptReply <=> Protocol!AcceptReply
  BY DEF Link!AcceptReply, Protocol!AcceptReply
<1>18. Link!RefuseReply <=> Protocol!RefuseReply
  BY DEF Link!RefuseReply, Protocol!RefuseReply
<1>19. Link!SendInterrupt <=> Protocol!SendInterrupt
  BY DEF Link!SendInterrupt, Protocol!SendInterrupt
<1>20. Link!GiveUpReply <=> Protocol!GiveUpReply
  BY DEF Link!GiveUpReply, Protocol!GiveUpReply
<1>21. Link!Disconnect <=> Protocol!Disconnect
  BY DEF Link!Disconnect, Protocol!Disconnect
<1>22. Link!NoticeExit <=> Protocol!NoticeExit
  BY DEF Link!NoticeExit, Protocol!NoticeExit
<1>23. Link!Damage <=> Protocol!Damage
  BY DEF Link!Damage, Protocol!Damage
<1>24. Link!Ended <=> Protocol!Ended
  BY DEF Link!Ended, Protocol!Ended
<1>25. QED BY <1>1, <1>2, <1>3, <1>4, <1>5, <1>6, <1>7, <1>8, <1>9, <1>10,
            <1>11, <1>12, <1>13, <1>14, <1>15, <1>16, <1>17, <1>18, <1>19,
            <1>20, <1>21, <1>22, <1>23, <1>24


\* A byte that is read is a number.
LEMMA MemByteType ==
  ASSUME Replay!Inv, mode = "stopped", NEW a \in Nat
  PROVE  MemByte(a) \in Nat
<1>1. /\ wave \in Waves /\ it \in 1..Len(wave.pcTrace)
  <2>1. wave \in Waves /\ it \in 1..(Len(wave.pcTrace) + 1) /\ it < Len(wave.pcTrace) + 1
    BY DEF Replay!Inv, Replay!TypeOK, Replay!StoppedInsideTrace, Replay!End
  <2>2. Len(wave.pcTrace) \in Nat
    BY <2>1, RecordingAssumption
  <2>3. QED BY <2>1, <2>2
<1>2. /\ wave.pcTrace \in Seq(PcValues) /\ wave.memTrace \in Seq(Accesses)
      /\ wave.memInit \in Seq(Nat) /\ wave.memStart \in Nat
  BY <1>1, RecordingAssumption
<1> DEFINE t == wave.pcTrace[it].time
           b == a % WordSpan
<1>3. t \in Nat
  <2>1. wave.pcTrace[it] \in PcValues
    BY <1>1, <1>2
  <2>2. QED BY <2>1 DEF PcValues
<1> HIDE DEF t
<1>4. CASE HasValue(wave.memTrace, t, b)
  <2>1. ValueAt(wave.memTrace, t, b) \in Nat
    BY <1>2, <1>3, <1>4, ValueAtIsLastWrite
  <2>2. QED BY <1>4, <2>1 DEF MemByte, MemByteAt, t
<1>5. CASE ~HasValue(wave.memTrace, t, b)
  <2>1. ASSUME b \in wave.memStart..(wave.memStart + Len(wave.memInit) - 1)
        PROVE  wave.memInit[b - wave.memStart + 1] \in Nat
    <3>1. b - wave.memStart + 1 \in 1..Len(wave.memInit)
      BY <1>2, <2>1
    <3>2. QED BY <1>2, <3>1
  <2>2. QED BY <1>5, <2>1 DEF MemByte, MemByteAt, t
<1>6. QED BY <1>4, <1>5

\* What a stopped target is asked for has a reply.
LEMMA BodyTypes ==
  ASSUME Replay!Inv, mode = "stopped"
  PROVE  /\ Registers \in Bodies /\ OK \in Bodies /\ Nothing \in Bodies
         /\ Failed(0) \in Bodies /\ Failed(1) \in Bodies
         /\ Signal(signum) \in Bodies
         /\ \A r \in Reg \cup {PC} : OneRegister(r) \in Bodies
         /\ \A a, n \in Nat : Memory(a, n) \in Bodies
<1>1. /\ regs \in [Reg -> Words] /\ pcReg \in Words /\ signum \in Nat
  BY DEF Replay!Inv, Replay!TypeOK, Words, Replay!SIGTRAP
<1>2. Registers \in Bodies /\ \A r \in Reg \cup {PC} : OneRegister(r) \in Bodies
  BY <1>1 DEF Bodies, Registers, OneRegister
<1>3. /\ OK \in Bodies /\ Nothing \in Bodies /\ Failed(0) \in Bodies /\ Failed(1) \in Bodies
      /\ Signal(signum) \in Bodies
  BY <1>1 DEF Bodies, OK, Nothing, Failed, Signal
<1>4. ASSUME NEW a \in Nat, NEW n \in Nat
      PROVE  Memory(a, n) \in Bodies
  <2>1. \A i \in 1..n : MemByte(a + i - 1) \in Nat
    BY MemByteType
  <2>2. [i \in 1..n |-> MemByte(a + i - 1)] \in Seq(Nat)
    BY <2>1
  <2>3. QED BY <2>2 DEF Memory, Bodies
<1>5. QED BY <1>2, <1>3, <1>4

\* The actions of TraceReplay that GdbServer takes are those its proofs are about.
LEMMA SameReplay ==
  ASSUME NEW a
  PROVE  /\ Target!ContinueCall <=> Replay!ContinueCall
         /\ Target!ContinueScan <=> Replay!ContinueScan
         /\ Target!ContinueReturn <=> Replay!ContinueReturn
         /\ Target!StepToNext <=> Replay!StepToNext
         /\ Target!StepAtEnd <=> Replay!StepAtEnd
         /\ Target!Restart <=> Replay!Restart
         /\ Target!AddBreakpoint(a) <=> Replay!AddBreakpoint(a)
         /\ Target!DeleteBreakpoint(a) <=> Replay!DeleteBreakpoint(a)
         /\ Target!SIGTRAP = Replay!SIGTRAP /\ Target!End = Replay!End
         /\ \A i : Target!PcAt(i) = Replay!PcAt(i)
<1>1. \A trace, t, r : /\ Target!HasValue(trace, t, r) <=> Replay!HasValue(trace, t, r)
                      /\ Target!ValueAt(trace, t, r) = Replay!ValueAt(trace, t, r)
  BY DEF Target!HasValue, Replay!HasValue, Target!ValueAt, Replay!ValueAt,
         Target!WritesSeen, Replay!WritesSeen, Target!SeenAt, Replay!SeenAt,
         Target!Max, Replay!Max
<1> USE <1>1 DEF Target!SIGTRAP, Replay!SIGTRAP, Target!Word, Replay!Word,
           Target!End, Replay!End, Target!PcAt, Replay!PcAt, Target!TimeAt,
           Replay!TimeAt, Target!Refreshed, Replay!Refreshed,
           Target!UpdateState, Replay!UpdateState, Target!AtBreakpoint,
           Replay!AtBreakpoint
<1>2. Target!ContinueCall <=> Replay!ContinueCall
  BY DEF Target!ContinueCall, Replay!ContinueCall
<1>3. Target!ContinueScan <=> Replay!ContinueScan
  BY DEF Target!ContinueScan, Replay!ContinueScan
<1>4. Target!ContinueReturn <=> Replay!ContinueReturn
  BY DEF Target!ContinueReturn, Replay!ContinueReturn
<1>5. Target!StepToNext <=> Replay!StepToNext
  BY DEF Target!StepToNext, Replay!StepToNext
<1>6. Target!StepAtEnd <=> Replay!StepAtEnd
  BY DEF Target!StepAtEnd, Replay!StepAtEnd
<1>7. Target!Restart <=> Replay!Restart
  BY DEF Target!Restart, Replay!Restart
<1>8. Target!AddBreakpoint(a) <=> Replay!AddBreakpoint(a)
  BY DEF Target!AddBreakpoint, Replay!AddBreakpoint
<1>9. Target!DeleteBreakpoint(a) <=> Replay!DeleteBreakpoint(a)
  BY DEF Target!DeleteBreakpoint, Replay!DeleteBreakpoint
<1>10. QED BY <1>2, <1>3, <1>4, <1>5, <1>6, <1>7, <1>8, <1>9

\* No command is repeated, so that what RspLink conserves is conserved.
LEMMA Conservation ==
  ASSUME Inv
  PROVE  /\ Protocol!Conserved
         /\ stub = "execute" => command \in Protocol!Commands /\ Request \in Requests
         /\ Waiting => sent \in Protocol!Commands /\ sent.request \in Requests
<1>1. ~Protocol!Repeated
  BY DEF Inv, Protocol!TypeInv, Protocol!TypeOK, Protocol!Repeated
<1>2. QED
  BY <1>1 DEF Inv, Protocol!ConservedInv, Protocol!TypeInv, Protocol!Commands, Request, Waiting

\* The steps of the session, as the target sees them.
LEMMA TargetStep == Inv /\ [Next]_vars => [Replay!Next]_Replay!vars
<1> SUFFICES ASSUME Inv, [Next]_vars PROVE [Replay!Next]_Replay!vars
  OBVIOUS
<1> USE DEF targetVars, Replay!vars
<1>1. CASE UNCHANGED targetVars
  BY <1>1
<1>2. ASSUME NEW a, Dispatch("Z") \/ Dispatch("z"), a = Request.arg,
             Target!AddBreakpoint(a) \/ Target!DeleteBreakpoint(a)
      PROVE  Replay!Next
  <2>1. a \in Address
    BY <1>2, Conservation, ServedAssumption DEF Dispatch
  <2>2. Replay!AddBreakpoint(a) \/ Replay!DeleteBreakpoint(a)
    BY <1>2, SameReplay
  <2>3. QED BY <2>1, <2>2 DEF Replay!Next
<1>3. CASE \/ Target!ContinueCall \/ Target!ContinueScan \/ Target!ContinueReturn
           \/ Target!StepToNext \/ Target!StepAtEnd \/ Target!Restart
  BY <1>3, SameReplay DEF Replay!Next, Replay!Step
<1>4. CASE StubNext
  BY <1>1, <1>2, <1>3, <1>4
     DEF StubNext, ReadRegisters, ReadRegister, ReadMemory, WriteMemory, Agree, Unsupported,
         QueryHalt, InsertBreakpoint, RemoveBreakpoint, ContinueBegins, ContinueScans,
         ContinueReturns, StepMoves, StepTerminates, RestartProgram, Kill, Transport, Answer
<1>5. CASE GdbNext
  BY <1>1, <1>5 DEF GdbNext, GdbReceives, GdbAccepts, GdbGivesUp
<1>6. CASE UNCHANGED vars
  BY <1>1, <1>6 DEF vars
<1>7. QED BY <1>4, <1>5, <1>6 DEF Next

\* The answers of the stub that leave the target alone.
LEMMA Answers ==
  ASSUME Inv,
         ReadRegisters \/ ReadRegister \/ ReadMemory \/ WriteMemory \/ Agree
         \/ Unsupported \/ QueryHalt
  PROVE  \E body \in Bodies :
            /\ Protocol!ExecuteQuery(body) /\ UNCHANGED <<targetVars, gdbView>>
            /\ mode = "stopped" /\ stub = "execute"
            /\ Request.op \in {"g", "p", "m", "M", "T", "other", "?"}
            /\ Request.op = "g" => body = Registers
            /\ Request.op = "p" /\ Request.arg \in Reg \cup {PC} =>
                  body = OneRegister(Request.arg)
            /\ Request.op = "m" /\ Request.length <= DataSize =>
                  body = Memory(Request.arg, Request.length)
            /\ Request.op = "?" => body = Signal(signum)
<1>1. stub = "execute" /\ Request.op \in {"g", "p", "m", "M", "T", "other", "?"}
  BY DEF ReadRegisters, ReadRegister, ReadMemory, WriteMemory, Agree, Unsupported, QueryHalt,
         Dispatch
<1>2. mode = "stopped" /\ Request \in Requests
  BY <1>1, Conservation DEF Inv, ModeInv, Replay!Inv, Replay!TypeOK
<1>3. Replay!Inv
  BY DEF Inv
<1>4. Request.op = "m" => Memory(Request.arg, Request.length) \in Bodies
  BY <1>2, <1>3, BodyTypes, ServedAssumption
<1>5. PICK body \in Bodies :
            /\ Link!ExecuteQuery(body) /\ UNCHANGED <<targetVars, gdbView>>
            /\ Request.op = "g" => body = Registers
            /\ Request.op = "p" /\ Request.arg \in Reg \cup {PC} =>
                  body = OneRegister(Request.arg)
            /\ Request.op = "m" /\ Request.length <= DataSize =>
                  body = Memory(Request.arg, Request.length)
            /\ Request.op = "?" => body = Signal(signum)
  <2> USE DEF Answer, Dispatch
  <2>1. CASE ReadRegisters
    BY <1>2, <1>3, <2>1, BodyTypes DEF ReadRegisters
  <2>2. CASE ReadRegister
    BY <1>2, <1>3, <2>2, BodyTypes DEF ReadRegister
  <2>3. CASE ReadMemory
    <3>1. Request.length \in Nat
      BY <1>2, <2>3, ServedAssumption DEF ReadMemory
    <3>2. QED BY <1>2, <1>3, <1>4, <2>3, <3>1, BodyTypes DEF ReadMemory, DataSize
  <2>4. CASE WriteMemory
    BY <1>2, <1>3, <2>4, BodyTypes DEF WriteMemory
  <2>5. CASE Agree
    BY <1>2, <1>3, <2>5, BodyTypes DEF Agree
  <2>6. CASE Unsupported
    BY <1>2, <1>3, <2>6, BodyTypes DEF Unsupported
  <2>7. CASE QueryHalt
    BY <1>2, <1>3, <2>7, BodyTypes DEF QueryHalt
  <2>8. QED BY <2>1, <2>2, <2>3, <2>4, <2>5, <2>6, <2>7
<1>6. Protocol!ExecuteQuery(body)
  BY <1>5, SameSteps
<1>7. QED BY <1>1, <1>2, <1>5, <1>6

\* The steps of the session, as the protocol sees them.
LEMMA LinkStep == Inv /\ [Next]_vars => [Protocol!Next]_Protocol!vars
<1> SUFFICES ASSUME Inv, [Next]_vars PROVE [Protocol!Next]_Protocol!vars
  OBVIOUS
<1>1. CASE UNCHANGED linkVars
  BY <1>1 DEF linkVars, Protocol!vars, Protocol!stubVars, Protocol!gdbVars
<1>2. mode = "stopped" \/ stub = "execute"
  BY DEF Inv, ModeInv, Replay!Inv, Replay!TypeOK
<1>3. mode = "stopped" => OK \in Bodies /\ Signal(signum) \in Bodies
  BY BodyTypes DEF Inv
<1>4. CASE \/ ReadRegisters \/ ReadRegister \/ ReadMemory \/ WriteMemory \/ Agree
           \/ Unsupported \/ QueryHalt
  BY <1>4, Answers DEF Protocol!Next, Protocol!StubNext
<1>5. CASE InsertBreakpoint \/ RemoveBreakpoint
  BY <1>3, <1>5, SameSteps
     DEF InsertBreakpoint, RemoveBreakpoint, Target!AddBreakpoint, Target!DeleteBreakpoint,
         Protocol!Next, Protocol!StubNext
<1>6. CASE ContinueReturns \/ StepMoves \/ RestartProgram \/ Kill
  BY <1>6, SameSteps
     DEF ContinueReturns, StepMoves, RestartProgram, Kill, Protocol!Next, Protocol!StubNext
<1>7. CASE StepTerminates
  BY <1>3, <1>7, SameSteps
     DEF StepTerminates, Target!StepAtEnd, Protocol!Next, Protocol!StubNext
<1>8. CASE Transport
  <2>1. CASE Link!SendSignal(Signal(signum))
    <3>1. Signal(signum) \in Bodies
      BY <1>2, <1>3, <2>1 DEF Link!SendSignal
    <3>2. QED BY <2>1, <3>1, SameSteps DEF Protocol!Next, Protocol!StubNext
  <2>2. QED BY <1>8, <2>1, SameSteps DEF Transport, Protocol!Next, Protocol!StubNext
<1>9. CASE GdbNext
  BY <1>9, SameSteps
     DEF GdbNext, GdbReceives, GdbAccepts, GdbGivesUp,
         Protocol!Next, Protocol!GdbNext, Protocol!GdbReceives
<1>10. CASE UNCHANGED vars \/ ContinueBegins \/ ContinueScans
  BY <1>1, <1>10 DEF vars, ContinueBegins, ContinueScans
<1>11. QED
  BY <1>4, <1>5, <1>6, <1>7, <1>8, <1>9, <1>10 DEF Next, StubNext

\* So the parts keep their invariants.
LEMMA PartsNext ==
  ASSUME Inv, [Next]_vars
  PROVE  Replay!Inv' /\ Protocol!TypeInv' /\ Protocol!ConservedInv'
<1>1. Replay!Inv'
  BY TargetStep, Assumptions, Replay!NextInv DEF Inv
<1>2. Protocol!TypeInv'
  BY LinkStep, Assumptions, Protocol!NextType DEF Inv
<1>3. Protocol!ConservedInv'
  BY LinkStep, Assumptions, Protocol!ConservedNext DEF Inv
<1>4. QED BY <1>1, <1>2, <1>3

-----------------------------------------------------------------------------
\* The target is stopped or runs.
LEMMA ModeType == Inv => mode \in {"stopped", "running"}
BY DEF Inv, Replay!Inv, Replay!TypeOK

\* What GDB does to the rest.
LEMMA GdbFrame ==
  ASSUME GdbNext
  PROVE  UNCHANGED <<wave, it, regs, pcReg, signum, breakpoints, mode, ret,
                     stub, command, answers, taken>>
BY DEF GdbNext, GdbReceives, GdbAccepts, GdbGivesUp, targetVars, Link!stubVars,
       Link!SendCommand, Link!AcceptAck, Link!AcceptNack, Link!DropPacket,
       Link!SkipToReply, Link!AcceptReply, Link!RefuseReply, Link!NoticeExit,
       Link!SendInterrupt, Link!GiveUpReply, Link!Disconnect, Link!Damage, Link!Ended,
       Link!vars

\* Every step keeps the mode in line with the stub.
LEMMA ModeNext ==
  ASSUME Inv, [Next]_vars
  PROVE  ModeInv'
<1> USE ModeType DEF ModeInv, Request, Dispatch
<1>1. mode = "running" => stub = "execute" /\ Request.op = "c"
  BY DEF Inv
<1>2. CASE \/ ReadRegisters \/ ReadRegister \/ ReadMemory \/ WriteMemory \/ Agree
           \/ Unsupported \/ QueryHalt
  BY <1>1, <1>2, Answers DEF targetVars
<1>3. CASE InsertBreakpoint \/ RemoveBreakpoint
  BY <1>1, <1>3
     DEF InsertBreakpoint, RemoveBreakpoint, Target!AddBreakpoint, Target!DeleteBreakpoint
<1>4. CASE ContinueBegins \/ ContinueScans
  BY <1>1, <1>4
     DEF ContinueBegins, ContinueScans, Target!ContinueCall, Target!ContinueScan, linkVars
<1>5. CASE ContinueReturns
  BY <1>5 DEF ContinueReturns, Target!ContinueReturn
<1>6. CASE StepMoves \/ StepTerminates
  BY <1>6 DEF StepMoves, StepTerminates, Target!StepToNext, Target!StepAtEnd
<1>7. CASE RestartProgram \/ Kill
  BY <1>1, <1>7 DEF RestartProgram, Kill, Target!Restart, targetVars
<1>8. CASE Transport
  <2>1. stub # "execute" /\ mode' = mode
    BY <1>8
       DEF Transport, targetVars, Link!SendSignal, Link!ReceiveAck, Link!AckEndOfInput,
           Link!SkipToPacket, Link!ReceivePacket, Link!RefusePacket, Link!PacketEndOfInput
  <2>2. QED BY <1>1, <2>1
<1>9. CASE GdbNext
  BY <1>1, <1>9, GdbFrame
<1>10. CASE UNCHANGED vars
  BY <1>1, <1>10 DEF vars, targetVars, linkVars
<1>11. QED
  BY <1>2, <1>3, <1>4, <1>5, <1>6, <1>7, <1>8, <1>9, <1>10 DEF Next, StubNext

\* Where the loop of a continue is left.
LEMMA StopsAtStop ==
  ASSUME Target!ContinueReturn
  PROVE  AtStop' /\ signum' = Target!SIGTRAP /\ ret' = 0 /\ mode = "running"
<1>1. \A i : Target!PcAt(i)' = Target!PcAt(i)
  BY DEF Target!ContinueReturn, Target!PcAt, Target!Word
<1>2. Target!End' = Target!End
  BY DEF Target!ContinueReturn, Target!End
<1>3. QED
  BY <1>1, <1>2 DEF Target!ContinueReturn, Target!AtBreakpoint, AtStop, Target!PcAt

\* Every step keeps the stop to be told of in line with the target.
LEMMA SignalNext ==
  ASSUME Inv, [Next]_vars
  PROVE  SignalInv'
<1> USE DEF SignalInv, Request, Dispatch
<1>1. /\ stub # "signal" => answers = 0
      /\ mode = "running" => stub = "execute" /\ Request.op = "c"
  BY DEF Inv, ModeInv
<1>2. CASE \/ ReadRegisters \/ ReadRegister \/ ReadMemory \/ WriteMemory \/ Agree
           \/ Unsupported \/ QueryHalt
  BY <1>1, <1>2, Answers DEF Protocol!ExecuteQuery, Protocol!Executes
<1>3. CASE InsertBreakpoint \/ RemoveBreakpoint
  BY <1>1, <1>3 DEF InsertBreakpoint, RemoveBreakpoint, Link!ExecuteQuery, Link!Executes
<1>4. CASE ContinueBegins \/ ContinueScans
  BY <1>1, <1>4 DEF ContinueBegins, ContinueScans, Target!ContinueScan, linkVars
<1>5. CASE ContinueReturns
  <2>1. Target!ContinueReturn /\ Link!ExecuteStop
    BY <1>5 DEF ContinueReturns
  <2>2. AtStop' /\ signum' = Target!SIGTRAP' /\ ret' = 0 /\ mode = "running"
    BY <2>1, StopsAtStop DEF Target!SIGTRAP
  <2>3. Request'.op = "c" /\ stub' = "signal"
    BY <1>1, <2>1, <2>2 DEF Link!ExecuteStop, Link!Executes
  <2>4. QED BY <2>2, <2>3
<1>6. CASE StepMoves
  BY <1>6 DEF StepMoves, Target!StepToNext, Link!ExecuteStop, Link!Executes
<1>7. CASE StepTerminates \/ RestartProgram \/ Kill
  BY <1>1, <1>7 DEF StepTerminates, RestartProgram, Kill, Link!ExecuteTerminated,
                    Link!ExecuteSilent, Link!Executes
<1>8. CASE Transport
  BY <1>1, <1>8
       DEF Transport, Link!stubVars, Link!SendSignal, Link!ReceiveAck, Link!AckEndOfInput,
           Link!SkipToPacket, Link!ReceivePacket, Link!RefusePacket, Link!PacketEndOfInput
<1>9. CASE UNCHANGED <<wave, it, signum, breakpoints, ret, stub, command, answers>>
  BY <1>9 DEF Inv, AtStop, Target!PcAt, Target!End
<1>10. CASE GdbNext
  BY <1>9, <1>10, GdbFrame
<1>11. CASE UNCHANGED vars
  BY <1>9, <1>11 DEF vars, targetVars, linkVars
<1>12. QED
  BY <1>2, <1>3, <1>4, <1>5, <1>6, <1>7, <1>8, <1>10, <1>11 DEF Next, StubNext
-----------------------------------------------------------------------------
\* While a command is served, no answer to it is on the way.
LEMMA NoAnswerYet ==
  ASSUME Inv, stub \in {"signal", "execute"}
  PROVE  AnswersAt = {}
BY DEF Inv, ToldInv

\* GDB knows an answer only to the command the stub serves or served last.
LEMMA ServedIsSent ==
  ASSUME Inv, AnswersAt # {} \/ gdb = "waitReply" \/ (gdb = "waitAck" /\ Protocol!AcksAt # {})
  PROVE  /\ Waiting /\ sent \in Protocol!Commands /\ sent.request \in Requests
         /\ command.request = sent.request
         /\ stub = "signal" => answers = sent.id /\ answers # 0
<1>1. gdb = "waitReply" \/ (gdb = "waitAck" /\ Protocol!AcksAt # {})
  BY DEF AnswersAt
<1>2. Waiting /\ sent \in Protocol!Commands /\ sent.request \in Requests
  BY <1>1, Conservation DEF Waiting
<1>3. command.request = sent.request /\ (stub = "signal" => answers = sent.id)
  BY <1>1, Conservation DEF Protocol!Conserved, Protocol!Answering
<1>4. sent.id \in Nat \ {0}
  BY <1>2, Assumptions DEF Protocol!Commands
<1>5. QED BY <1>2, <1>3, <1>4

\* The stub sends a reply: it is the only answer on the way, if it is one.
LEMMA AnswerSent ==
  ASSUME Inv, NEW e \in Protocol!Replies, stub \in {"signal", "execute"},
         Protocol!StubSends(<<e>>), UNCHANGED <<gdb, sent>>
  PROVE  /\ \A j \in AnswersAt' : toGdb'[j] = e
         /\ AnswersAt' # {} =>
               gdb = "waitReply" \/ (gdb = "waitAck" /\ Protocol!AcksAt # {})
<1>1. Protocol!AcksAt' = Protocol!AcksAt
      /\ \A i \in Protocol!RepliesAt' :
            (i \in Protocol!RepliesAt /\ toGdb'[i] = toGdb[i]) \/ toGdb'[i] = e
  BY Assumptions, Protocol!ReplySent DEF Inv
<1>2. QED BY <1>1, NoAnswerYet DEF AnswersAt

\* Steps that send no reply and leave the target alone keep what GDB is told.
LEMMA ToldKept ==
  ASSUME Inv, UNCHANGED targetVars,
         AnswersAt' # {} => sent' = sent /\ (stub' = stub \/ stub' \notin {"signal", "execute"}),
         \A j \in AnswersAt' : \E i \in AnswersAt :
             toGdb'[j].body = toGdb[i].body /\ toGdb'[j].kind = toGdb[i].kind
  PROVE  ToldInv'
<1> SUFFICES ASSUME NEW j \in AnswersAt'
             PROVE  stub' \notin {"signal", "execute"} /\ Told(toGdb[j])'
  BY DEF ToldInv
<1>1. PICK i \in AnswersAt :
          toGdb'[j].body = toGdb[i].body /\ toGdb'[j].kind = toGdb[i].kind
  OBVIOUS
<1>2. stub \notin {"signal", "execute"} /\ Told(toGdb[i])
  BY DEF Inv, ToldInv
<1>3. sent' = sent /\ stub' \notin {"signal", "execute"}
  BY <1>2
<1>4. UNCHANGED <<wave, it, regs, pcReg, signum, breakpoints, ret>>
  BY DEF targetVars
<1>5. /\ Registers' = Registers /\ AtStop' = AtStop
      /\ \A r : OneRegister(r)' = OneRegister(r)
      /\ \A a, n : Memory(a, n)' = Memory(a, n)
      /\ Signal(signum)' = Signal(signum) /\ Signal(Target!SIGTRAP)' = Signal(Target!SIGTRAP)
      /\ \A ops : Concerns(ops)' = Concerns(ops)
  BY <1>3, <1>4
     DEF Registers, AtStop, Target!PcAt, Target!End, OneRegister, Memory, MemByte, Signal,
         Target!SIGTRAP, Concerns
<1>6. QED BY <1>1, <1>2, <1>3, <1>4, <1>5 DEF Told

\* A step of the stub: the reply it sends is true, and what it changes in the
\* target no reply on the way tells of.
LEMMA ToldStub ==
  ASSUME Inv, StubNext
  PROVE  ToldInv'
<1> USE DEF Dispatch, Request
<1>1. CASE \/ ReadRegisters \/ ReadRegister \/ ReadMemory \/ WriteMemory \/ Agree
           \/ Unsupported \/ QueryHalt
  <2>1. PICK body \in Bodies :
            /\ Protocol!ExecuteQuery(body) /\ UNCHANGED <<targetVars, gdbView>>
            /\ mode = "stopped" /\ stub = "execute"
            /\ Request.op \in {"g", "p", "m", "M", "T", "other", "?"}
            /\ Request.op = "g" => body = Registers
            /\ Request.op = "p" /\ Request.arg \in Reg \cup {PC} =>
                  body = OneRegister(Request.arg)
            /\ Request.op = "m" /\ Request.length <= DataSize =>
                  body = Memory(Request.arg, Request.length)
            /\ Request.op = "?" => body = Signal(signum)
    BY <1>1, Answers
  <2>2. Protocol!Reply(command.id, "data", body) \in Protocol!Replies
    BY <2>1, Assumptions, Protocol!StubReply DEF Inv
  <2>3. PICK e \in Protocol!Replies :
            /\ e.body = body /\ e.kind = "data"
            /\ Protocol!StubSends(<<e>>) /\ stub' = "replyAck" /\ UNCHANGED <<gdb, sent, command>>
            /\ UNCHANGED <<wave, it, regs, pcReg, signum, breakpoints, ret>>
    BY <2>1, <2>2 DEF Protocol!ExecuteQuery, Protocol!Executes, Protocol!gdbVars, targetVars,
                      Protocol!Reply
  <2>4. /\ \A j \in AnswersAt' : toGdb'[j] = e
        /\ AnswersAt' # {} => Request = sent.request
    BY <2>1, <2>2, <2>3, AnswerSent, ServedIsSent
  <2>5. /\ Registers' = Registers
        /\ \A r : OneRegister(r)' = OneRegister(r)
        /\ \A a, n : Memory(a, n)' = Memory(a, n)
        /\ Signal(signum)' = Signal(signum)
    BY <2>3 DEF Registers, OneRegister, Memory, MemByte, Signal
  <2>6. Request = sent.request => Told(e)'
    BY <2>1, <2>2, <2>3, <2>5 DEF Told, Concerns
  <2>7. QED BY <2>3, <2>4, <2>6 DEF ToldInv
<1>2. CASE InsertBreakpoint \/ RemoveBreakpoint
  <2>1. /\ Protocol!ExecuteQuery(OK) /\ mode = "stopped" /\ stub = "execute"
        /\ Request.op \in {"Z", "z"}
        /\ Request.op = "Z" => Request.arg \in breakpoints'
        /\ Request.op = "z" => Request.arg \notin breakpoints'
    BY <1>2, SameSteps
       DEF InsertBreakpoint, RemoveBreakpoint, Target!AddBreakpoint, Target!DeleteBreakpoint
  <2>2. Protocol!Reply(command.id, "data", OK) \in Protocol!Replies
    BY <2>1, Assumptions, Protocol!StubReply, BodyTypes DEF Inv
  <2>3. PICK e \in Protocol!Replies :
            /\ e.kind = "data"
            /\ Protocol!StubSends(<<e>>) /\ stub' = "replyAck" /\ UNCHANGED <<gdb, sent, command>>
    BY <2>1, <2>2 DEF Protocol!ExecuteQuery, Protocol!Executes, Protocol!gdbVars, Protocol!Reply
  <2>4. /\ \A j \in AnswersAt' : toGdb'[j] = e
        /\ AnswersAt' # {} => Request = sent.request
    BY <2>1, <2>2, <2>3, AnswerSent, ServedIsSent
  <2>5. Request = sent.request => Told(e)'
    BY <2>1, <2>2, <2>3 DEF Told, Concerns
  <2>6. QED BY <2>3, <2>4, <2>5 DEF ToldInv
<1>3. CASE ContinueBegins \/ ContinueScans
  <2>1. AnswersAt' = AnswersAt /\ stub = "execute"
    BY <1>3 DEF ContinueBegins, ContinueScans, Target!ContinueScan, linkVars, AnswersAt,
                Protocol!RepliesAt, Protocol!AcksAt, Inv, ModeInv
  <2>2. QED BY <2>1, NoAnswerYet DEF ToldInv
<1>4. CASE ContinueReturns \/ StepMoves \/ RestartProgram \/ Kill
  <2>1. UNCHANGED <<toGdb, gdb>> /\ stub = "execute"
    BY <1>4 DEF ContinueReturns, StepMoves, RestartProgram, Kill, Link!ExecuteStop,
                Link!ExecuteSilent, Link!Executes, Link!gdbVars
  <2>2. AnswersAt' = AnswersAt
    BY <2>1 DEF AnswersAt, Protocol!RepliesAt, Protocol!AcksAt
  <2>3. QED BY <2>1, <2>2, NoAnswerYet DEF ToldInv
<1>5. CASE StepTerminates
  <2>1. /\ Protocol!ExecuteTerminated(Signal(signum)) /\ mode = "stopped" /\ stub = "execute"
        /\ Request.op = "s" /\ ret' = -1
    BY <1>5, SameSteps DEF StepTerminates, Target!StepAtEnd
  <2>2. Protocol!Reply(command.id, "terminated", Signal(signum)) \in Protocol!Replies
    BY <2>1, Assumptions, Protocol!StubReply, BodyTypes DEF Inv
  <2>3. PICK e \in Protocol!Replies :
            /\ e.kind = "terminated"
            /\ Protocol!StubSends(<<e>>) /\ stub' = "replyAck" /\ UNCHANGED <<gdb, sent, command>>
    BY <2>1, <2>2 DEF Protocol!ExecuteTerminated, Protocol!Executes, Protocol!gdbVars,
                      Protocol!Reply
  <2>4. /\ \A j \in AnswersAt' : toGdb'[j] = e
        /\ AnswersAt' # {} => Request = sent.request
    BY <2>1, <2>2, <2>3, AnswerSent, ServedIsSent
  <2>5. Request = sent.request => Told(e)'
    BY <2>1, <2>2, <2>3 DEF Told, Concerns
  <2>6. QED BY <2>3, <2>4, <2>5 DEF ToldInv
<1>6. CASE Transport
  <2>1. UNCHANGED targetVars
    BY <1>6 DEF Transport
  <2>2. CASE Link!SendSignal(Signal(signum))
    <3>1. Protocol!SendSignal(Signal(signum)) /\ stub = "signal" /\ mode = "stopped"
      BY <2>2, SameSteps, ModeType DEF Link!SendSignal, Inv, ModeInv
    <3>2. Protocol!Reply(answers, "stop", Signal(signum)) \in Protocol!Replies
      BY <3>1, Assumptions, Protocol!StubReply, BodyTypes DEF Inv
    <3>3. PICK e \in Protocol!Replies :
              /\ e.kind = "stop" /\ e.body = Signal(signum)
              /\ Protocol!StubSends(<<e>>) /\ stub' = "signalAck"
              /\ UNCHANGED <<gdb, sent, command>>
      BY <3>1, <3>2 DEF Protocol!SendSignal, Protocol!gdbVars, Protocol!Reply
    <3>4. /\ \A j \in AnswersAt' : toGdb'[j] = e
          /\ AnswersAt' # {} => Request = sent.request /\ answers # 0
      BY <3>1, <3>2, <3>3, AnswerSent, ServedIsSent
    <3>5. /\ Signal(signum)' = Signal(signum) /\ Signal(Target!SIGTRAP)' = Signal(Target!SIGTRAP)
          /\ AtStop' = AtStop /\ ret' = ret
      BY <2>1 DEF targetVars, Signal, Target!SIGTRAP, AtStop, Target!PcAt, Target!End
    <3>6. Request = sent.request /\ answers # 0 => Told(e)'
      BY <3>1, <3>2, <3>3, <3>5 DEF Told, Concerns, Inv, SignalInv
    <3>7. QED BY <3>3, <3>4, <3>6 DEF ToldInv
  <2>3. CASE Link!ReceiveAck \/ Link!SkipToPacket
    <3>1. /\ UNCHANGED <<toGdb, gdb, sent>> /\ (stub' = stub \/ stub' \notin {"signal", "execute"})
      BY <2>3 DEF Link!ReceiveAck, Link!SkipToPacket, Link!gdbVars, Link!stubVars
    <3>2. AnswersAt' = AnswersAt
      BY <3>1 DEF AnswersAt, Protocol!RepliesAt, Protocol!AcksAt
    <3>3. QED BY <2>1, <3>1, <3>2, ToldKept
  <2>4. CASE Link!AckEndOfInput \/ Link!PacketEndOfInput
    <3>1. gdb' = "closed"
      BY <2>4 DEF Link!AckEndOfInput, Link!PacketEndOfInput, Link!EndOfInput, Link!gdbVars
    <3>2. QED BY <3>1 DEF AnswersAt, ToldInv
  <2>5. CASE Link!ReceivePacket \/ Link!RefusePacket
    <3>1. Protocol!ReceivePacket \/ Protocol!RefusePacket
      BY <2>5, SameSteps
    <3>2. PICK e \in {Protocol!Ack, Protocol!Nack} :
             /\ stub = "receive" /\ Protocol!Heard /\ Protocol!IsPacket(Head(toStub))
             /\ toStub' = Tail(toStub) /\ Protocol!StubSends(<<e>>) /\ UNCHANGED gdb
      BY <3>1 DEF Protocol!ReceivePacket, Protocol!RefusePacket, Protocol!gdbVars
    <3>3. CASE gdb = "closed"
      BY <3>2, <3>3 DEF AnswersAt, ToldInv
    <3>4. CASE gdb # "closed"
      <4>1. /\ gdb = "waitAck"
            /\ \E n \in Nat \ {0} :
                  Protocol!MarksAt' = {n} /\ \A j \in Protocol!RepliesAt' : j \in Nat /\ j < n
        BY <3>2, <3>4, Conservation, Assumptions, Protocol!CommandRead DEF Inv
      <4>2. Protocol!AcksAt' \subseteq Protocol!MarksAt'
        BY Protocol!NotPackets, Assumptions
           DEF Protocol!AcksAt, Protocol!MarksAt, Protocol!RepliesAt
      <4>3. AnswersAt' = {}
        BY <3>2, <4>1, <4>2 DEF AnswersAt
      <4>4. QED BY <4>3 DEF ToldInv
    <3>5. QED BY <3>3, <3>4
  <2>6. QED BY <1>6, <2>2, <2>3, <2>4, <2>5 DEF Transport
<1>7. QED BY <1>1, <1>2, <1>3, <1>4, <1>5, <1>6 DEF StubNext

\* GDB takes a unit: the answers behind it move up.
LEMMA AnswersShift ==
  ASSUME Inv, toGdb # << >>, toGdb' = Tail(toGdb),
         gdb' = gdb \/ (gdb' = "waitReply" /\ gdb = "waitAck" /\ Head(toGdb) = Protocol!Ack)
  PROVE  \A j \in AnswersAt' : j + 1 \in AnswersAt /\ toGdb'[j] = toGdb[j + 1]
<1>1. /\ \A i \in Protocol!RepliesAt' :
            /\ i + 1 \in Protocol!RepliesAt /\ i \in Nat \ {0} /\ toGdb'[i] = toGdb[i + 1]
      /\ \A i \in Protocol!AcksAt' : i + 1 \in Protocol!AcksAt /\ i \in Nat \ {0}
      /\ Head(toGdb) = Protocol!Ack => 1 \in Protocol!AcksAt
  BY Assumptions, Protocol!ReplyRead DEF Inv
<1> SUFFICES ASSUME NEW j \in AnswersAt'
             PROVE  j + 1 \in AnswersAt
  BY <1>1 DEF AnswersAt
<1>2. j \in Protocol!RepliesAt' /\ j + 1 \in Protocol!RepliesAt /\ j \in Nat \ {0}
  BY <1>1 DEF AnswersAt
<1>3. CASE gdb' = gdb
  BY <1>1, <1>2, <1>3 DEF AnswersAt
<1>4. CASE gdb = "waitAck" /\ Head(toGdb) = Protocol!Ack
  <2>1. 1 \in Protocol!AcksAt /\ 1 < j + 1
    BY <1>1, <1>2, <1>4
  <2>2. QED BY <1>2, <1>4, <2>1 DEF AnswersAt
<1>5. QED BY <1>3, <1>4

\* A step of GDB leaves the target and the replies behind it alone.
LEMMA ToldGdb ==
  ASSUME Inv, GdbNext
  PROVE  ToldInv'
<1>0. UNCHANGED <<targetVars, stub>>
  BY GdbFrame DEF targetVars
<1>1. ASSUME gdb' \in {"idle", "closed"}
      PROVE  ToldInv'
  BY <1>1 DEF AnswersAt, ToldInv
<1>2. ASSUME NEW request \in Requests, Link!SendCommand(request)
      PROVE  ToldInv'
  <2>1. Protocol!MarksAt = {}
    BY <1>2, Conservation DEF Link!SendCommand, Protocol!Conserved, Protocol!OneOnTheWay
  <2>2. Protocol!AcksAt = {}
    BY <2>1, Protocol!NotPackets, Assumptions
       DEF Protocol!AcksAt, Protocol!MarksAt, Protocol!RepliesAt
  <2>3. Protocol!AcksAt' = {} /\ gdb' = "waitAck"
    BY <1>2, <2>2 DEF Link!SendCommand, Protocol!AcksAt
  <2>4. QED BY <2>3 DEF AnswersAt, ToldInv
<1>3. CASE Link!AcceptAck
  <2>1. /\ toGdb # << >> /\ toGdb' = Tail(toGdb) /\ sent' = sent
        /\ gdb = "waitAck" /\ Head(toGdb) = Protocol!Ack /\ gdb' \in {"waitReply", "idle"}
    BY <1>3 DEF Link!AcceptAck, Link!GdbHears, Link!Ack, Protocol!Ack
  <2>2. CASE gdb' = "waitReply"
    BY <1>0, <2>1, <2>2, AnswersShift, ToldKept
  <2>3. QED BY <1>1, <2>1, <2>2
<1>4. CASE Link!AcceptNack
  <2>1. toGdb # << >> /\ toGdb' = Tail(toGdb) /\ gdb' = "waitAck" /\ Head(toGdb) = Protocol!Nack
    BY <1>4 DEF Link!AcceptNack, Link!GdbHears, Link!gdbVars, Link!Nack, Protocol!Nack
  <2>2. /\ 1 \in Protocol!MarksAt
        /\ \A i \in Protocol!MarksAt' : i + 1 \in Protocol!MarksAt /\ i \in Nat \ {0}
    BY <2>1, Assumptions, Protocol!ReplyRead, Protocol!NotPackets DEF Inv
  <2>3. \A i, j \in Protocol!MarksAt : i = j
    BY Conservation DEF Protocol!Conserved, Protocol!OneOnTheWay
  <2>4. Protocol!MarksAt' = {}
    BY <2>2, <2>3
  <2>5. Protocol!AcksAt' \subseteq Protocol!MarksAt'
    BY Protocol!NotPackets, Assumptions
       DEF Protocol!AcksAt, Protocol!MarksAt, Protocol!RepliesAt
  <2>6. QED BY <2>1, <2>4, <2>5 DEF AnswersAt, ToldInv
<1>5. CASE Link!DropPacket \/ Link!SkipToReply \/ Link!RefuseReply
  <2>1. toGdb # << >> /\ toGdb' = Tail(toGdb) /\ UNCHANGED <<gdb, sent>>
    BY <1>5 DEF Link!DropPacket, Link!SkipToReply, Link!RefuseReply, Link!GdbHears, Link!gdbVars
  <2>2. QED BY <1>0, <2>1, AnswersShift, ToldKept
<1>6. CASE GdbAccepts \/ GdbGivesUp \/ Link!Disconnect \/ Link!NoticeExit
  BY <1>1, <1>6
     DEF GdbAccepts, GdbGivesUp, Link!AcceptReply, Link!GiveUpReply, Link!Disconnect,
         Link!NoticeExit
<1>7. CASE UNCHANGED <<toGdb, gdb, sent>>
  <2>1. AnswersAt' = AnswersAt
    BY <1>7 DEF AnswersAt, Protocol!RepliesAt, Protocol!AcksAt
  <2>2. QED BY <1>0, <1>7, <2>1, ToldKept
<1>8. CASE Link!SendInterrupt \/ Link!Ended
  BY <1>7, <1>8 DEF Link!SendInterrupt, Link!Ended, Link!gdbVars, Link!vars
<1>9. CASE Link!Damage
  <2>1. Protocol!Damage
    BY <1>9, SameSteps
  <2>2. /\ Protocol!AcksAt' = Protocol!AcksAt /\ Protocol!RepliesAt' = Protocol!RepliesAt
        /\ \A i \in Protocol!RepliesAt :
              toGdb'[i].body = toGdb[i].body /\ toGdb'[i].kind = toGdb[i].kind
        /\ UNCHANGED <<gdb, sent>>
    BY <2>1, Assumptions, Protocol!DamageFrame DEF Inv
  <2>3. AnswersAt' = AnswersAt
    BY <2>2 DEF AnswersAt
  <2>4. \A i \in AnswersAt : i \in Protocol!RepliesAt
    BY DEF AnswersAt
  <2>5. QED BY <1>0, <2>2, <2>3, <2>4, ToldKept
<1>10. QED
  BY <1>2, <1>3, <1>4, <1>5, <1>6, <1>8, <1>9 DEF GdbNext, GdbReceives

\* Every step keeps what is told true.
LEMMA ToldNext ==
  ASSUME Inv, [Next]_vars
  PROVE  ToldInv'
<1>1. CASE UNCHANGED vars
  <2>1. UNCHANGED <<targetVars, toGdb, gdb, sent, stub>>
    BY <1>1 DEF vars, linkVars
  <2>2. AnswersAt' = AnswersAt
    BY <2>1 DEF AnswersAt, Protocol!RepliesAt, Protocol!AcksAt
  <2>3. QED BY <2>1, <2>2, ToldKept
<1>2. QED BY <1>1, ToldStub, ToldGdb DEF Next
-----------------------------------------------------------------------------
\* Steps that neither change what GDB and the target think of breakpoints nor
\* start to serve a command.
LEMMA BreakpointsKept ==
  ASSUME Inv, UNCHANGED <<believed, unsure, breakpoints, sent>>,
         gdb' = gdb \/ (Waiting /\ gdb' \in {"waitAck", "waitReply"}),
         stub' # "execute" \/ UNCHANGED <<stub, command>>
  PROVE  BreakpointsInv'
BY DEF Inv, BreakpointsInv, InFlux, Waiting, Concerns, Request

\* A step of the stub changes a breakpoint only as GDB asked.
LEMMA BreakpointsStub ==
  ASSUME Inv, StubNext
  PROVE  BreakpointsInv'
<1> USE DEF Dispatch
<1>0. UNCHANGED <<believed, unsure, gdb, sent>>
  <2>1. CASE \/ ReadRegisters \/ ReadRegister \/ ReadMemory \/ WriteMemory \/ Agree
             \/ Unsupported \/ QueryHalt
    BY <2>1, Answers DEF Protocol!ExecuteQuery, Protocol!Executes, Protocol!gdbVars, gdbView
  <2>2. QED
    BY <2>1
       DEF StubNext, InsertBreakpoint, RemoveBreakpoint, ContinueBegins, ContinueScans,
           ContinueReturns, StepMoves, StepTerminates, RestartProgram, Kill, Transport,
           Link!SendSignal, Link!ReceiveAck, Link!AckEndOfInput, Link!SkipToPacket,
           Link!ReceivePacket, Link!RefusePacket, Link!PacketEndOfInput, Link!ExecuteQuery,
           Link!ExecuteSilent, Link!ExecuteStop, Link!ExecuteTerminated, Link!Executes,
           Link!gdbVars, Link!stubVars, linkVars, gdbView
<1>1. CASE \/ ReadRegisters \/ ReadRegister \/ ReadMemory \/ WriteMemory \/ Agree
           \/ Unsupported \/ QueryHalt
  <2>1. stub' = "replyAck" /\ UNCHANGED breakpoints
    BY <1>1, Answers DEF Protocol!ExecuteQuery, targetVars
  <2>2. QED BY <1>0, <2>1, BreakpointsKept
<1>2. CASE InsertBreakpoint \/ RemoveBreakpoint
  <2>1. /\ stub = "execute" /\ Request.op \in {"Z", "z"} /\ stub' = "replyAck"
        /\ breakpoints' \in {breakpoints \cup {Request.arg}, breakpoints \ {Request.arg}}
    BY <1>2 DEF InsertBreakpoint, RemoveBreakpoint, Target!AddBreakpoint,
                Target!DeleteBreakpoint, Link!ExecuteQuery
  <2>2. Request.arg \in Address
    BY <2>1, Conservation, ServedAssumption
  <2>3. gdb # "closed" => Request.arg \in unsure \/ InFlux(Request.arg)
    BY <2>1 DEF Inv, BreakpointsInv
  <2>4. \A a : InFlux(a)' = InFlux(a)
    BY <1>0 DEF InFlux, Waiting, Concerns
  <2>5. breakpoints \subseteq Address
    BY DEF Inv, BreakpointsInv
  <2>6. /\ breakpoints' \subseteq Address
        /\ \A a : a # Request.arg => (a \in breakpoints' <=> a \in breakpoints)
    BY <2>1, <2>2, <2>5
  <2>7. QED BY <1>0, <2>1, <2>3, <2>4, <2>6 DEF Inv, BreakpointsInv
<1>3. CASE ContinueBegins \/ ContinueScans
  <2>1. UNCHANGED <<stub, command, breakpoints>>
    BY <1>3 DEF ContinueBegins, ContinueScans, Target!ContinueCall, Target!ContinueScan, linkVars
  <2>2. QED BY <1>0, <2>1, BreakpointsKept
<1>4. CASE ContinueReturns \/ StepMoves \/ StepTerminates \/ RestartProgram \/ Kill
  <2>1. stub' # "execute" /\ UNCHANGED breakpoints
    BY <1>4
       DEF ContinueReturns, StepMoves, StepTerminates, RestartProgram, Kill,
           Target!ContinueReturn, Target!StepToNext, Target!StepAtEnd, Target!Restart,
           Link!ExecuteStop, Link!ExecuteTerminated, Link!ExecuteSilent, targetVars
  <2>2. QED BY <1>0, <2>1, BreakpointsKept
<1>5. CASE Transport
  <2>1. UNCHANGED breakpoints
    BY <1>5 DEF Transport, targetVars
  <2>2. CASE Link!ReceivePacket
    <3>1. Protocol!ReceivePacket
      BY <2>2, SameSteps
    <3>2. gdb # "closed" => gdb = "waitAck" /\ Head(toStub).request = sent.request
      BY <3>1, Conservation, Assumptions, Protocol!CommandRead
         DEF Inv, Protocol!ReceivePacket, Protocol!gdbVars
    <3>3. command' = Head(toStub)
      BY <3>1 DEF Protocol!ReceivePacket
    <3>4. \A a : InFlux(a)' = InFlux(a)
      BY <1>0 DEF InFlux, Waiting, Concerns
    <3>5. gdb # "closed" /\ Request'.op \in {"Z", "z"} => InFlux(Request'.arg)
      BY <3>2, <3>3 DEF InFlux, Waiting, Concerns, Request
    <3>6. QED BY <1>0, <2>1, <3>4, <3>5 DEF Inv, BreakpointsInv
  <2>3. CASE ~Link!ReceivePacket
    <3>1. stub' # "execute"
      BY <1>5, <2>3
         DEF Transport, Link!SendSignal, Link!ReceiveAck, Link!AckEndOfInput,
             Link!SkipToPacket, Link!RefusePacket, Link!PacketEndOfInput, Link!stubVars
    <3>2. QED BY <1>0, <2>1, <3>1, BreakpointsKept
  <2>4. QED BY <2>2, <2>3
<1>6. QED BY <1>1, <1>2, <1>3, <1>4, <1>5 DEF StubNext

\* A step of GDB: it learns of a breakpoint from the reply, or loses track.
LEMMA BreakpointsGdb ==
  ASSUME Inv, GdbNext
  PROVE  BreakpointsInv'
<1>0. UNCHANGED <<breakpoints, stub, command>>
  BY GdbFrame
<1>1. {believed, unsure, breakpoints} \subseteq SUBSET Address
  BY DEF Inv, BreakpointsInv
<1>2. ASSUME NEW request \in Requests, Link!SendCommand(request), UNCHANGED gdbView
      PROVE  BreakpointsInv'
  <2>1. gdb = "idle" /\ \A a : ~InFlux(a)
    BY <1>2 DEF Link!SendCommand, InFlux, Waiting
  <2>2. QED BY <1>0, <1>1, <1>2, <2>1 DEF Inv, BreakpointsInv, gdbView, Request
<1>3. CASE Link!AcceptAck /\ UNCHANGED gdbView
  <2>1. /\ gdb = "waitAck" /\ sent' = sent
        /\ gdb' = IF Link!Replied(sent.request) THEN "waitReply" ELSE "idle"
    BY <1>3 DEF Link!AcceptAck, Link!GdbHears
  <2>2. sent.request \in Requests
    BY <2>1, Conservation DEF Waiting
  <2>3. Concerns({"Z", "z"}) => Link!Replied(sent.request)
    BY <2>2, ServedAssumption DEF Concerns, Link!Replied, Link!Kinds
  <2>4. \A a : InFlux(a)' = InFlux(a)
    BY <2>1, <2>3 DEF InFlux, Waiting, Concerns
  <2>5. QED BY <1>0, <1>1, <1>3, <2>1, <2>4 DEF Inv, BreakpointsInv, gdbView, Request
<1>4. CASE /\ \/ Link!AcceptNack \/ Link!DropPacket \/ Link!SkipToReply \/ Link!RefuseReply
              \/ Link!SendInterrupt \/ Link!Damage \/ Link!Ended
           /\ UNCHANGED gdbView
  <2>1. UNCHANGED <<gdb, sent>>
    BY <1>4 DEF Link!AcceptNack, Link!DropPacket, Link!SkipToReply, Link!RefuseReply,
                Link!SendInterrupt, Link!Damage, Link!Ended, Link!gdbVars, Link!vars
  <2>2. QED BY <1>0, <1>4, <2>1, BreakpointsKept DEF gdbView
<1>5. CASE (Link!NoticeExit \/ Link!Disconnect) /\ UNCHANGED gdbView
  BY <1>0, <1>1, <1>5 DEF Link!NoticeExit, Link!Disconnect, BreakpointsInv, gdbView
<1>6. CASE GdbAccepts
  <2>1. /\ gdb = "waitReply" /\ gdb' = "idle" /\ sent' = sent
        /\ toGdb # << >> /\ toGdb' = Tail(toGdb) /\ Protocol!IsPacket(Head(toGdb))
    BY <1>6 DEF GdbAccepts, Link!AcceptReply, Link!GdbHears, Link!IsPacket, Protocol!IsPacket
  <2>2. 1 \in AnswersAt
    BY <2>1, Assumptions, Protocol!ReplyRead DEF AnswersAt, Inv
  <2>3. stub # "execute" /\ Told(toGdb[1])
    BY <2>2 DEF Inv, ToldInv
  <2>4. sent.request \in Requests
    BY <2>1, Conservation DEF Waiting
  <2> DEFINE b == sent.request.arg
  <2>5. Concerns({"Z", "z"}) => b \in Address
    BY <2>4, ServedAssumption DEF Concerns
  <2>6. \A a \in Address \ unsure :
            (a = b /\ Concerns({"Z", "z"})) \/ (a \in believed <=> a \in breakpoints)
    BY <2>1 DEF Inv, BreakpointsInv, InFlux
  <2>7. CASE Concerns({"Z"})
    <3>1. believed' = believed \cup {b} /\ unsure' = unsure \ {b} /\ b \in breakpoints
      BY <1>6, <2>3, <2>7 DEF GdbAccepts, Told, Concerns
    <3>2. b \in Address
      BY <2>5, <2>7 DEF Concerns
    <3>3. QED BY <1>0, <1>1, <2>3, <2>6, <3>1, <3>2 DEF BreakpointsInv
  <2>8. CASE Concerns({"z"})
    <3>1. believed' = believed \ {b} /\ unsure' = unsure \ {b} /\ b \notin breakpoints
      BY <1>6, <2>3, <2>8 DEF GdbAccepts, Told, Concerns
    <3>2. QED BY <1>0, <1>1, <2>3, <2>6, <3>1 DEF BreakpointsInv
  <2>9. CASE ~Concerns({"Z", "z"})
    <3>1. believed' = believed /\ unsure' = unsure
      BY <1>6, <2>9 DEF GdbAccepts, Concerns
    <3>2. QED BY <1>0, <1>1, <2>3, <2>6, <2>9, <3>1 DEF BreakpointsInv
  <2>10. QED BY <2>7, <2>8, <2>9 DEF Concerns
<1>7. CASE GdbGivesUp
  <2>1. /\ gdb = "waitReply" /\ gdb' = "idle" /\ believed' = believed
        /\ unsure' = IF Concerns({"Z", "z"}) THEN unsure \cup {sent.request.arg} ELSE unsure
    BY <1>7 DEF GdbGivesUp, Link!GiveUpReply
  <2>2. sent.request \in Requests
    BY <2>1, Conservation DEF Waiting
  <2>3. unsure' \subseteq Address
    BY <1>1, <2>1, <2>2, ServedAssumption DEF Concerns
  <2>4. \A a : InFlux(a) => a \in unsure'
    BY <2>1 DEF InFlux
  <2>5. unsure \subseteq unsure'
    BY <2>1
  <2>6. QED BY <1>0, <1>1, <2>1, <2>3, <2>4, <2>5 DEF Inv, BreakpointsInv, Request
<1>8. QED
  BY <1>2, <1>3, <1>4, <1>5, <1>6, <1>7 DEF GdbNext, GdbReceives

\* Every step keeps the two accounts in line.
LEMMA BreakpointsNext ==
  ASSUME Inv, [Next]_vars
  PROVE  BreakpointsInv'
<1>1. CASE UNCHANGED vars
  BY <1>1, BreakpointsKept DEF vars, targetVars, linkVars, gdbView
<1>2. QED BY <1>1, BreakpointsStub, BreakpointsGdb DEF Next

-----------------------------------------------------------------------------
\* The parts start as they do on their own.
LEMMA InitParts == Init => Replay!Init /\ Protocol!Init
<1> SUFFICES ASSUME Init PROVE Replay!Init /\ Protocol!Init
  OBVIOUS
<1>1. \A trace, t, r : /\ Target!HasValue(trace, t, r) <=> Replay!HasValue(trace, t, r)
                      /\ Target!ValueAt(trace, t, r) = Replay!ValueAt(trace, t, r)
  BY DEF Target!HasValue, Replay!HasValue, Target!ValueAt, Replay!ValueAt,
         Target!WritesSeen, Replay!WritesSeen, Target!SeenAt, Replay!SeenAt,
         Target!Max, Replay!Max
<1>2. Replay!Init
  BY <1>1
     DEF Init, Target!Init, Replay!Init, Target!Refreshed, Replay!Refreshed, Target!Word,
         Replay!Word, Target!PcAt, Replay!PcAt, Target!TimeAt, Replay!TimeAt
<1>3. Protocol!Init
  BY DEF Init, Link!Init, Protocol!Init, Link!Ack, Protocol!Ack, Link!NoCommand,
         Protocol!NoCommand, Link!Command, Protocol!Command
<1>4. QED BY <1>2, <1>3

\* At first nothing is asked.
LEMMA InitInv == Init => Inv
<1> SUFFICES ASSUME Init PROVE Inv
  OBVIOUS
<1>1. Replay!Inv
  BY InitParts, Assumptions, Replay!InitInv
<1>2. Protocol!TypeInv /\ Protocol!ConservedInv
  BY InitParts, Assumptions, Protocol!InitType, Protocol!ConservedInit
<1>3. ModeInv /\ SignalInv /\ ToldInv /\ BreakpointsInv
  BY DEF Init, Target!Init, Link!Init, ModeInv, SignalInv, ToldInv, AnswersAt,
         BreakpointsInv, InFlux, Waiting
<1>4. QED BY <1>1, <1>2, <1>3 DEF Inv

\* Every step keeps the invariant.
LEMMA NextInv == Inv /\ [Next]_vars => Inv'
BY PartsNext, ModeNext, SignalNext, ToldNext, BreakpointsNext DEF Inv

\* The invariant holds in every state of every session (dbg_main serving the
\* commands dbg_recv_packet returns on the target of gdbstub_sys).
THEOREM Invariance == Spec => []Inv
BY InitInv, NextInv, PTL DEF Spec

\* The target, the protocol and the account GDB keeps have their types.
THEOREM SessionTypes == Spec => []TypeOK
<1>1. Inv => TypeOK
  <2> SUFFICES ASSUME Inv PROVE TypeOK
    OBVIOUS
  <2>1. Target!TypeOK
    BY DEF Inv, Replay!Inv, Replay!TypeOK, Target!TypeOK, Replay!End, Target!End,
           Replay!SIGTRAP, Target!SIGTRAP
  <2>2. Link!TypeOK
    BY DEF Inv, Protocol!TypeInv, Protocol!TypeOK, Link!TypeOK, Protocol!Acks, Link!Acks,
           Protocol!Ack, Link!Ack, Protocol!Nack, Link!Nack, Protocol!Interrupt,
           Link!Interrupt, Protocol!Commands, Link!Commands, Protocol!Replies,
           Link!Replies, Protocol!ReplyKinds, Link!ReplyKinds, Protocol!NoCommand,
           Link!NoCommand, Protocol!Command, Link!Command
  <2>3. QED BY <2>1, <2>2 DEF Inv, BreakpointsInv, TypeOK
<1>2. QED BY <1>1, Invariance, PTL

\* The reply GDB is about to take is an answer on the way.
LEMMA TakingIsTold ==
  ASSUME Inv, Taking
  PROVE  Told(Head(toGdb)) /\ mode = "stopped"
<1>1. toGdb # << >> /\ Protocol!IsPacket(Head(toGdb)) /\ gdb = "waitReply"
  BY DEF Taking, Link!IsPacket, Protocol!IsPacket
<1>2. toGdb \in Seq(Protocol!UnitsToGdb)
  BY DEF Inv, Protocol!TypeInv, Protocol!TypeOK, Protocol!UnitsToGdb
<1>3. 1 \in DOMAIN toGdb /\ Head(toGdb) = toGdb[1]
  BY <1>1, <1>2
<1>4. 1 \in AnswersAt
  BY <1>1, <1>3 DEF AnswersAt, Protocol!RepliesAt
<1>5. QED BY <1>3, <1>4, ModeType DEF Inv, ToldInv, ModeInv

\* The replies to g, p, m and ? show the target as it is when GDB takes them
\* (the cases of dbg_main that read registers and memory).
THEOREM ViewCurrent == Spec => []ViewIsCurrent
<1>1. Inv => ViewIsCurrent
  BY TakingIsTold DEF Told, ViewIsCurrent
<1>2. QED BY <1>1, Invariance, PTL

\* Outside the first instruction the program counter in the reply to g is that
\* of the instruction at which dbg_sys_mem_readb looks memory up.
THEOREM InstantsAgree == Spec => []OneInstant
<1>1. Inv => OneInstant
  <2> SUFFICES ASSUME Inv, Taking, Concerns({"g"}), it # 1
               PROVE  Head(toGdb).body.pc = Target!PcAt(it)
    BY DEF OneInstant
  <2>1. Head(toGdb).body = Registers /\ mode = "stopped"
    BY TakingIsTold DEF Told
  <2>2. pcReg = Replay!PcAt(it)
    BY <2>1 DEF Inv, Replay!Inv, Replay!StateFollowsPosition, Replay!ShowsPosition
  <2>3. QED BY <2>1, <2>2, SameReplay DEF Registers
<1>2. QED BY <1>1, Invariance, PTL

\* When GDB takes the reply to a continue the target stands at the last
\* instruction, or at a breakpoint that GDB asked for or lost track of
\* (dbg_sys_continue).
THEOREM StopsTrue == Spec => []StopIsTrue
<1>1. Inv => StopIsTrue
  <2> SUFFICES ASSUME Inv, Taking, Concerns({"c"})
               PROVE  /\ Head(toGdb).body = Signal(Target!SIGTRAP)
                      /\ Target!PcAt(it) \in believed \cup unsure \/ it = Target!End - 1
    BY DEF StopIsTrue
  <2>1. Head(toGdb).body = Signal(Target!SIGTRAP) /\ AtStop
    BY TakingIsTold DEF Told
  <2>2. breakpoints \subseteq believed \cup unsure
    BY DEF Inv, BreakpointsInv, Taking, InFlux, Concerns
  <2>3. QED BY <2>1, <2>2 DEF AtStop
<1>2. QED BY <1>1, Invariance, PTL

\* GDB is told that the program has terminated when a step has found the end of
\* the recording, and only then (the -1 of dbg_sys_step).
THEOREM TerminationsTrue == Spec => []TerminatedIsTrue
<1>1. Inv => TerminatedIsTrue
  BY TakingIsTold DEF Told, TerminatedIsTrue
<1>2. QED BY <1>1, Invariance, PTL

\* Between exchanges GDB and dbg_sys_add_breakpoint and
\* dbg_sys_delete_breakpoint agree, but for what GDB lost track of.
THEOREM BreakpointsKnown == Spec => []BreakpointsAgree
<1>1. Inv => BreakpointsAgree
  BY DEF Inv, BreakpointsInv, BreakpointsAgree, InFlux, Waiting
<1>2. QED BY <1>1, Invariance, PTL

\* Under every session the target behaves as TraceReplay says.
THEOREM SessionReplays == Spec => Replay!Spec
BY InitParts, TargetStep, Invariance, PTL DEF Spec, Replay!Spec

\* Every session keeps to the protocol of RspLink.
THEOREM SessionSpeaks == Spec => Protocol!Spec
BY InitParts, LinkStep, Invariance, PTL DEF Spec, Protocol!Spec

\* What GDB drives through dbg_main is a debug target: whatever is damaged,
\* interrupted or given up, a continue stops at the first breakpoint or at the
\* end, and only a step at the end reports that the program ended.
THEOREM SessionDebugs == Spec => Replay!ImplementsDebugTarget
BY SessionReplays, Assumptions, Replay!Implementation, PTL
=============================================================================
