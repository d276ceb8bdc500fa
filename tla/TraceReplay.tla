---------------------------- MODULE TraceReplay ----------------------------
(***************************************************************************)
(* The debug target of gdbwave (gdbstub_sys.cc): GDB's target operations,  *)
(* answered by moving an iterator over the recorded program trace and by   *)
(* looking registers up in the recorded register writes.                   *)
(*                                                                         *)
(* The server is one thread.  Continue is modelled as the loop it is, one  *)
(* action per iteration, so that what it scans past is visible; while it   *)
(* runs no other operation starts.                                         *)
(***************************************************************************)
EXTENDS Traces

CONSTANTS
    Waves,        \* the recorded waveforms the server may have been given
    Reg,          \* the general purpose registers (0..31 in the code)
    WordSpan,     \* 2^32: registers and addresses are 32 bits wide
    DeadBeef,     \* the value a register has before anything is known of it
    Address       \* the breakpoint addresses GDB may ask for

\* A server without a retired instruction dereferences begin() of an empty
\* vector; every operation is defined only for waveforms that retire one.
ASSUME WavesAssumption ==
    \A w \in Waves :
        /\ w.pcTrace \in Seq(PcValues) /\ Len(w.pcTrace) > 0
        /\ w.regTrace \in Seq(Accesses)

ASSUME WordAssumption ==
    /\ WordSpan \in Nat \ {0}
    /\ DeadBeef \in 0..(WordSpan - 1)
    /\ Address \subseteq 0..(WordSpan - 1)

VARIABLES
    wave,         \* the recorded waveform, fixed
    it,           \* pcTraceIt: the position, Len + 1 for end()
    regs,         \* dbg_state.registers without the program counter
    pcReg,        \* dbg_state.registers[DBG_CPU_RISCV_PC]
    signum,       \* dbg_state.signum, zero until the first stop
    breakpoints,  \* the keys of the breakpoint map
    mode,         \* "running" inside the loop of dbg_sys_continue
    ret           \* what the last step, continue or restart returned

vars == <<wave, it, regs, pcReg, signum, breakpoints, mode, ret>>

SIGTRAP == 5

Word(v) == v % WordSpan

End == Len(wave.pcTrace) + 1

PcAt(i) == Word(wave.pcTrace[i].pc)

TimeAt(i) == wave.pcTrace[i].time

-----------------------------------------------------------------------------
\* dbg_sys_update_state: a register keeps its value when no write is known.
Refreshed(old, i) ==
    [r \in Reg |-> IF HasValue(wave.regTrace, TimeAt(i), r)
                   THEN Word(ValueAt(wave.regTrace, TimeAt(i), r))
                   ELSE old[r]]

\* Faulty variant: the program counter keeps the width of its signal.
UpdateStateWide(i) ==
    /\ regs' = Refreshed(regs, i)
    /\ pcReg' = wave.pcTrace[i].pc

\* Faulty variant: the registers are looked up at the entry after it.
UpdateStateAhead(i) ==
    /\ regs' = Refreshed(regs, IF i + 1 < End THEN i + 1 ELSE i)
    /\ pcReg' = PcAt(i)

UpdateState(i) ==
    /\ regs' = Refreshed(regs, i)
    /\ pcReg' = PcAt(i)

Init ==
    /\ wave \in Waves
    /\ it = 1
    /\ regs = Refreshed([r \in Reg |-> DeadBeef], 1)
    /\ pcReg = PcAt(1)
    /\ signum = 0
    /\ breakpoints = {}
    /\ mode = "stopped"
    /\ ret = 0

\* Faulty variant: the signal, not the address, is looked up.
AtBreakpointWide == it # End /\ wave.pcTrace[it].pc \in breakpoints

AtBreakpoint == it # End /\ PcAt(it) \in breakpoints

ContinueCall ==
    /\ mode = "stopped"
    /\ mode' = "running"
    /\ UNCHANGED <<wave, it, regs, pcReg, signum, breakpoints, ret>>

\* Faulty variant: the scan goes on at the first entry.
ContinueScanRound ==
    /\ mode = "running"
    /\ it # End
    /\ ~AtBreakpoint
    /\ it' = IF it + 1 = End THEN 1 ELSE it + 1
    /\ UNCHANGED <<wave, regs, pcReg, signum, breakpoints, mode, ret>>

\* One iteration of the loop: no breakpoint here, look at the next entry.
ContinueScan ==
    /\ mode = "running"
    /\ it # End
    /\ ~AtBreakpoint
    /\ it' = it + 1
    /\ UNCHANGED <<wave, regs, pcReg, signum, breakpoints, mode, ret>>

\* Faulty variant: the loop may be left anywhere.
ContinueReturnAnywhere ==
    /\ mode = "running"
    /\ it' = IF it = End THEN End - 1 ELSE it
    /\ UpdateState(it')
    /\ signum' = SIGTRAP
    /\ mode' = "stopped"
    /\ ret' = 0
    /\ UNCHANGED <<wave, breakpoints>>

\* The loop is left at a breakpoint or at end(), which becomes the last entry.
ContinueReturn ==
    /\ mode = "running"
    /\ it = End \/ AtBreakpoint
    /\ it' = IF it = End THEN End - 1 ELSE it
    /\ UpdateState(it')
    /\ signum' = SIGTRAP
    /\ mode' = "stopped"
    /\ ret' = 0
    /\ UNCHANGED <<wave, breakpoints>>

\* Faulty variant: the registers are not refreshed.
StepToNextStale ==
    /\ mode = "stopped"
    /\ it + 1 < End
    /\ it' = it + 1
    /\ signum' = SIGTRAP
    /\ ret' = 0
    /\ UNCHANGED <<wave, regs, pcReg, breakpoints, mode>>

StepToNext ==
    /\ mode = "stopped"
    /\ it + 1 < End
    /\ it' = it + 1
    /\ UpdateState(it')
    /\ signum' = SIGTRAP
    /\ ret' = 0
    /\ UNCHANGED <<wave, breakpoints, mode>>

\* Faulty variant: the iterator is left at end().
StepAtEndBeyond ==
    /\ mode = "stopped"
    /\ it + 1 >= End
    /\ it' = End
    /\ ret' = -1
    /\ UNCHANGED <<wave, regs, pcReg, signum, breakpoints, mode>>

\* At the last entry: step back onto it and return -1, nothing refreshed.
StepAtEnd ==
    /\ mode = "stopped"
    /\ it + 1 >= End
    /\ it' = End - 1
    /\ ret' = -1
    /\ UNCHANGED <<wave, regs, pcReg, signum, breakpoints, mode>>

Step == StepToNext \/ StepAtEnd

Restart ==
    /\ mode = "stopped"
    /\ it' = 1
    /\ ret' = 0
    /\ UNCHANGED <<wave, regs, pcReg, signum, breakpoints, mode>>

AddBreakpoint(a) ==
    /\ mode = "stopped"
    /\ breakpoints' = breakpoints \cup {a}
    /\ UNCHANGED <<wave, it, regs, pcReg, signum, mode, ret>>

DeleteBreakpoint(a) ==
    /\ mode = "stopped"
    /\ breakpoints' = breakpoints \ {a}
    /\ UNCHANGED <<wave, it, regs, pcReg, signum, mode, ret>>

Next ==
    \/ ContinueCall
    \/ ContinueScan
    \/ ContinueReturn
    \/ Step
    \/ Restart
    \/ \E a \in Address : AddBreakpoint(a) \/ DeleteBreakpoint(a)

\* Inside dbg_sys_continue the only thread keeps running.
Fairness == WF_vars(ContinueScan) /\ WF_vars(ContinueReturn)

Spec == Init /\ [][Next]_vars

FairSpec == Spec /\ Fairness

-----------------------------------------------------------------------------
TypeOK ==
    /\ wave \in Waves
    /\ it \in 1..End
    /\ regs \in [Reg -> 0..(WordSpan - 1)]
    /\ pcReg \in 0..(WordSpan - 1)
    /\ signum \in {0, SIGTRAP}
    /\ breakpoints \subseteq 0..(WordSpan - 1)
    /\ mode \in {"stopped", "running"}
    /\ ret \in {0, -1}

\* While GDB is served, the iterator can be dereferenced: it is never end(),
\* whatever sequence of steps, continues and restarts led here
\* (dbg_sys_mem_readb and dbg_sys_update_state rely on it).
StoppedInsideTrace == mode = "stopped" => it < End

\* The program counter and every register written at or before the present
\* instruction show the values of that instruction, except at the first
\* instruction, to which a restart goes without refreshing them.
ShowsPosition ==
    /\ pcReg = PcAt(it)
    /\ \A r \in Reg :
          HasValue(wave.regTrace, TimeAt(it), r) =>
              regs[r] = Word(ValueAt(wave.regTrace, TimeAt(it), r))

StateFollowsPosition == mode = "stopped" /\ it # 1 => ShowsPosition

\* Nothing shown is made up: whatever the order of resumptions and restarts,
\* a register is 0xdeadbeef or some recorded write gave it this value, and
\* the program counter is that of a recorded instruction.
RecordedValue(r, v) ==
    \E i \in DOMAIN wave.regTrace :
        /\ wave.regTrace[i].wr
        /\ wave.regTrace[i].addr = r
        /\ Word(wave.regTrace[i].value) = v

NothingInvented ==
    /\ \A r \in Reg : regs[r] = DeadBeef \/ RecordedValue(r, regs[r])
    /\ \E i \in DOMAIN wave.pcTrace : pcReg = PcAt(i)

\* What the registers hold was in them at the present instruction or at one
\* before it, or nothing is known of them.
OfThePast ==
    \A r \in Reg :
        \/ regs[r] = DeadBeef
        \/ \E i \in 1..it :
              /\ i # End
              /\ HasValue(wave.regTrace, TimeAt(i), r)
              /\ regs[r] = Word(ValueAt(wave.regTrace, TimeAt(i), r))

\* No step or continue shows a value of the future of the program; only a
\* restart does, which leaves the registers as they are, and a register not
\* yet written in the program begun again then keeps its value
\* (gdbstub_sys.cc:47, 189).
NothingForeseen == OfThePast /\ [][OfThePast => OfThePast' \/ Restart]_vars

\* A restart is a restart of the program: what GDB is shown after it is the
\* state of the first instruction (comment above dbg_sys_continue: "you can
\* restart the program without losing breakpoints etc.").
RestartShowsFirst == mode = "stopped" => pcReg = PcAt(it)

\* A continue ends: the scan reaches a breakpoint or the end of the trace.
ContinueEnds == mode = "running" ~> mode = "stopped"

-----------------------------------------------------------------------------
(***************************************************************************)
(* The loop implements the one-step continue of DebugTarget.  The abstract *)
(* step is taken when the loop starts: while it runs, the position is the  *)
(* one where it is going to stop.                                          *)
(***************************************************************************)
Program(w) == [i \in 1..Len(w.pcTrace) |-> Word(w.pcTrace[i].pc)]

BreakpointsFrom(i) == {p \in i..(End - 1) : PcAt(p) \in breakpoints}

StopFrom(i) ==
    IF BreakpointsFrom(i) = {} THEN End - 1 ELSE Min(BreakpointsFrom(i))

Target == INSTANCE DebugTarget WITH
    Programs <- {Program(w) : w \in Waves},
    program  <- Program(wave),
    pos      <- IF mode = "running" THEN StopFrom(it) ELSE it,
    exited   <- mode = "stopped" /\ ret = -1,
    shownPc  <- IF mode = "running" THEN PcAt(StopFrom(it)) ELSE pcReg

\* The replay behaves as a debug target: a continue passes no breakpoint,
\* stops nowhere else but at the end, and only a step at the last
\* instruction reports that the program ended.
ImplementsDebugTarget == Target!Spec
=============================================================================
